\* One run, its heartbeat, its detached writes and a reconciling worker, every fault.
SPECIFICATION FairSpec
CONSTANTS
    Faults = {"cancel", "crash", "unavailable", "permissions", "events", "locked", "refused"}
INVARIANT TypeOK
INVARIANT LateInsertIsClosed
PROPERTY ImplementsAuditRecord
PROPERTY RunEnds
PROPERTY RunningIsClosed
