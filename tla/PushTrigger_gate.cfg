\* Three pushes to two pull requests, no processing outlives the TTL.
SPECIFICATION FairSpec
CONSTANTS
    PullRequests = {p1, p2}
    Tasks = {t1, t2, t3}
    Backlog = TRUE
    Filtered = {}
    Faults = {}
INVARIANT TypeOK
INVARIANT GateIsTight
INVARIANT DelegateDoesTheSame
PROPERTY DiscardedIsSeen
PROPERTY DelegateProceeds
