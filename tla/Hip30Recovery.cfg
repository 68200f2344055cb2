CONSTANTS
    rewardFrequency = 4
    Word = 20
    LastHeader = 15
    Epoch <- MCEpoch
    Links <- MCLinks
    MaxDamaged = 1
    hip30Epoch = 1
    rejectShard0Crosslink = 2
SPECIFICATION Spec
INVARIANTS
    TypeOK
    DigestExact
    IssuanceExact
