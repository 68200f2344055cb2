CONSTANTS
    User = u
    Contract = {x}
    CallType = {"CALL", "DELEGATECALL"}
    Amount = {1, 2}
    MaxFrames = 4
    MaxReceipts = 2
    MaxAudits = 2
    MaxWork = 4
SPECIFICATION AuditSpec
INVARIANTS
    ReplaySound
    FailedNeverResolved
    UnbackedBracketed
