SPECIFICATION PackageSpec
CONSTANTS
  Trees <- MCTrees
  MaxEdits = 2
  MaxFaults = 2
INVARIANTS
  VerifiedOneRun
  EvidenceShipped
CHECK_DEADLOCK FALSE
