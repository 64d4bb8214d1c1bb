\* Two workers that save, two settings, three contents of the file, two backups.
SPECIFICATION FairSpec
CONSTANTS
    w1 = w1
    w2 = w2
    t1 = t1
    t2 = t2
    Workers = {w1, w2}
    Threads = {t1, t2}
    WorkerOf <- OneEach
    Fields = {model, key}
    MAX_BACKUPS = 2
    MaxSig = 3
    MaxCrashes = 1
INVARIANT TypeOK
INVARIANT LoadedIsServed
PROPERTY SaveUndoesNoSave
PROPERTY ReplacedIsBackedUp
PROPERTY WorkersConverge
