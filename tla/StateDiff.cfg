CONSTANTS
  Accounts = {"a", "b"}
  Old = 0
  New = 3
  Values <- MCValues
SPECIFICATION FairDiffSpec
INVARIANTS NetDeltaExact TransitionExact
PROPERTY SearchEnds
CHECK_DEADLOCK FALSE
