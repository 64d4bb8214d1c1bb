\* Two workers with a request each, one session, three contents of the file.
SPECIFICATION FairSpec
CONSTANTS
    w1 = w1
    w2 = w2
    t1 = t1
    t2 = t2
    Workers = {w1, w2}
    Threads = {t1, t2}
    WorkerOf <- OneEach
    Passwords = {p, q}
    Tokens = {k}
    MaxSig = 3
    Serves <- Shared
    Faults = {"edit", "database"}
INVARIANT TypeOK
INVARIANT SavesKeepSessions
PROPERTY AcceptedIsCurrent
PROPERTY LoggedOutStreamEnds
