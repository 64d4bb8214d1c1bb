\* A waiter past the deadline publishes unlocked: the comparison does not catch the other run.
SPECIFICATION Spec
CONSTANTS
    Runs = {r1, r2}
    NoRun = NoRun
    Faults = {"timeout"}
    MaxCommit = 1
    Findings = {f1}
    Blocking = {f1}
    Anchored = {f1}
    Alike = {}
    DedupCarriedOver = TRUE
SYMMETRY RunSymmetry
INVARIANT OverlapIsAnsweredOnce
