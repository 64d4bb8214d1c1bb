\* Two fair runs, two findings taken for one another: every run ends, what it found is shown.
SPECIFICATION FairSpec
CONSTANTS
    Runs = {r1, r2}
    NoRun = NoRun
    Faults = {"crash", "refused", "unplaceable", "dropped", "omitted"}
    MaxCommit = 2
    Findings = {f1, f2}
    Blocking = {f1}
    Anchored = {f1, f2}
    Alike = {{f1, f2}}
    DedupCarriedOver = TRUE
PROPERTY RunsEnd
PROPERTY CheckedCommitIsReviewed
INVARIANT NamedCommitWasRead
INVARIANT FindingsReachThePullRequest
