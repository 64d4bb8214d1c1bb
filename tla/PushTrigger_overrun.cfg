\* A processing longer than the TTL: the condition is replaced under its delegate.
SPECIFICATION FairSpec
CONSTANTS
    PullRequests = {p1, p2}
    Tasks = {t1, t2, t3}
    Backlog = TRUE
    Filtered = {}
    Faults = {"overrun"}
PROPERTY DelegateProceeds
