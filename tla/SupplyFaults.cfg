CONSTANTS
    MaxKey = 2
    CodeKind = {"contract", "vc", "legacy"}
    Genesis = 1
    MaxReward = 1
    MaxReceipts = 0
    MaxUnbacked = 0
    MaxActivity = 1
    Discovery = {"discover", "list", "validator-only"}
    MaxLater = 1
    MaxFaults = 1
SPECIFICATION Spec
INVARIANTS
    VerifiedExact
