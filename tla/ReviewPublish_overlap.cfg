\* Three overlapping runs, two commits, one finding: who may repeat whom.
SPECIFICATION Spec
CONSTANTS
    Runs = {r1, r2, r3}
    NoRun = NoRun
    Faults = {"dismiss"}
    MaxCommit = 2
    Findings = {f1}
    Blocking = {f1}
    Anchored = {f1}
    Alike = {}
    DedupCarriedOver = TRUE
SYMMETRY RunSymmetry
PROPERTY ImplementsVerdictLog
INVARIANT OneInSection
INVARIANT RepeatsAreExplained
