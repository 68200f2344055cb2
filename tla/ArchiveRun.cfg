CONSTANTS
    Proc = {1, 2}
    Manifest <- MCManifest
    MaxRuns = 3
    MaxKills = 1
SPECIFICATION MCSpec
INVARIANTS
    RenamedComplete
    NodeUpAtEnd
    SuccessComplete
PROPERTIES
    PublishedKept
    WrapperEnds
