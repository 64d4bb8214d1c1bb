\* A delegate whose own payload is filtered stands in for a push that is not.
SPECIFICATION Spec
CONSTANTS
    PullRequests = {p1}
    Tasks = {t1, t2, t3}
    Backlog = TRUE
    Filtered = {t2}
    Faults = {}
INVARIANT DelegateDoesTheSame
