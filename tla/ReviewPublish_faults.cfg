\* Two runs, every fault of GitHub and the lock: what survives all.
SPECIFICATION Spec
CONSTANTS
    Runs = {r1, r2}
    NoRun = NoRun
    Faults = {"dismiss", "cancel", "read", "list", "refused", "lost",
              "unplaceable", "dropped", "undecided", "timeout", "unavailable"}
    MaxCommit = 2
    Findings = {f1}
    Blocking = {f1}
    Anchored = {f1}
    Alike = {}
    DedupCarriedOver = TRUE
SYMMETRY RunSymmetry
INVARIANT TypeOK
INVARIANT SilenceHasAnAnswer
INVARIANT VerdictIsBacked
INVARIANT InlineOnce
