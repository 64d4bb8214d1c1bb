\* No faults at all: an automatic run repeats a commit another commit was answered after.
SPECIFICATION Spec
CONSTANTS
    Runs = {r1, r2, r3}
    NoRun = NoRun
    Faults = {}
    MaxCommit = 2
    Findings = {f1}
    Blocking = {f1}
    Anchored = {f1}
    Alike = {}
    DedupCarriedOver = TRUE
SYMMETRY RunSymmetry
INVARIANT AutomaticRunNeverRepeats
