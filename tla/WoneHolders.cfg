CONSTANTS
    a = a
    b = b
    Worker = {w1, w2}
    Holder = {a, b}
    Zero = zero
    Events <- MCEvents
    Word = 5
    MaxRange = 3
    MaxAttempts = 2
SPECIFICATION FairSpec
INVARIANTS
    BalancesExact
    RootCauseReported
    SummaryBacked
PROPERTIES
    Ends
