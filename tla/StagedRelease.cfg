\* Two workers, three revisions, two images, two faults of any kind.
SPECIFICATION FairSpec
CONSTANTS
    Workers = {w1, w2}
    NoWorker = NoWorker
    MaxRev = 3
    Deps <- DepsOfThree
    MaxBuild = 2
    MaxTrouble = 2
    Faults = {"crash", "git", "disk", "signal", "cut"}
INVARIANT TypeOK
INVARIANT NamedIsComplete
INVARIANT PendingIsNewer
PROPERTY ImplementsActiveRelease
PROPERTY ServiceReturns
PROPERTY RebuildTakesEffect
