CONSTANTS
    Retired = {2}
    Tx = {1, 2}
    AmountOf <- MCAmountOf
    InitialLiquid <- MCInitialLiquid
    MaxGroup = 2
    MaxHeight = 3
    MaxBlocks = 3
    MaxFaults = 1
    MaxChanges = 3
SPECIFICATION Spec
INVARIANTS
    TypeOK
    PublishedExact
    SupplyConserved
    IncompleteIndexAborts
