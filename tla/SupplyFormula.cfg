CONSTANTS
    MaxKey = 2
    CodeKind = {"vc"}
    Genesis = 1
    MaxReward = 1
    MaxReceipts = 2
    MaxUnbacked = 1
    MaxActivity = 3
    Discovery = {"discover"}
    MaxLater = 0
    MaxFaults = 0
SPECIFICATION Spec
INVARIANTS
    LedgerExact
    FormulaExact
