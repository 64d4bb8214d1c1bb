--------------------------- MODULE ReviewPublish ---------------------------
(***************************************************************************)
(* Publication of a review as ONE GitHub review: summary, inline findings  *)
(* and verdict together (tools/pr_reviewer.py, the single_review_submission*)
(* path of PRReviewer.run, with the GitHub provider under it).             *)
(*                                                                         *)
(* Several runs review the same pull request at once: a push, the comment  *)
(* that follows it, a re-opened PR, each handled by some gunicorn worker.  *)
(* A run remembers the verdict standing before it starts thinking, thinks  *)
(* for minutes, then reads the standing verdict again and publishes under  *)
(* the publish lock.  Commits are pushed and reviews dismissed meanwhile,  *)
(* calls to GitHub fail, time out or lose their answer, workers die.       *)
(***************************************************************************)
EXTENDS Naturals, Sequences, FiniteSets, PublishLock

CONSTANTS
    MaxCommit,           \* bound: how many commits the branch may come to have
    Findings,            \* what a model may find
    Blocking,            \* findings of a blocking severity, or a security concern
    Anchored,            \* findings with a location the code can use
    Alike,               \* sets of findings that share a fingerprint: wording or lines
    DedupCarriedOver     \* pr_reviewer.dedup_carried_over_key_issues

ASSUME MaxCommitAssumption == MaxCommit \in Nat \ {0}
ASSUME FindingsAssumption == Blocking \subseteq Findings /\ Anchored \subseteq Findings
ASSUME AlikeAssumption == Alike \subseteq SUBSET Findings
ASSUME DedupAssumption == DedupCarriedOver \in BOOLEAN

VARIABLES
    head,                \* the newest commit of the pull request
    reviews,             \* the bot's verdict reviews in order; the index is the review id
    pc,                  \* where each run is
    job                  \* the local variables of each run

vars == <<owner, stage, head, reviews, pc, job>>

Commit == 1..MaxCommit
Event == {"APPROVE", "REQUEST_CHANGES", "COMMENT"}
State == {"APPROVED", "CHANGES_REQUESTED", "COMMENTED", "DISMISSED"}

VerdictEventToState ==
    [APPROVE |-> "APPROVED", REQUEST_CHANGES |-> "CHANGES_REQUESTED", COMMENT |-> "COMMENTED"]

(* dropped: the comments sent with the review that GitHub did not keep.     *)
Review == [sha: Commit, state: State, run: Runs, inline: SUBSET Findings,
           dropped: SUBSET Findings, body: SUBSET Findings]

(* The standing verdict as a run sees it.  Id 0 and commit 0 stand for the *)
(* None of a verdict that does not exist; ok is OwnVerdict.read_ok.        *)
NoVerdict == [ok |-> TRUE, id |-> 0, sha |-> 0, state |-> "none"]
Unreadable == [NoVerdict EXCEPT !.ok = FALSE]

(* The ids that get_latest_own_verdict may settle on: the last review whose*)
(* state still counts, 0 when there is none.                               *)
Live == {i \in DOMAIN reviews : reviews[i].state # "DISMISSED"}
LatestLive ==
    {i \in Live : \A j \in Live : j <= i} \cup {i \in {0} : Live = {}}

VerdictAt(i) ==
    IF i = 0 THEN NoVerdict
    ELSE [ok |-> TRUE, id |-> i, sha |-> reviews[i].sha, state |-> reviews[i].state]

(* What get_latest_own_verdict may return now: it swallows a failing read. *)
StandingVerdicts ==
    {VerdictAt(i) : i \in LatestLive} \cup {v \in {Unreadable} : "read" \in Faults}

(* The run's view of what was standing when it began; armed is FALSE for   *)
(* _VERDICT_SNAPSHOT_UNSET.                                                *)
Snapshot == [armed: BOOLEAN, id: Nat, sha: 0..MaxCommit]
SnapshotUnset == [armed |-> FALSE, id |-> 0, sha |-> 0]

SnapshotOf(standing) ==
    IF standing.ok
    THEN [armed |-> TRUE, id |-> standing.id, sha |-> standing.sha]
    ELSE SnapshotUnset

(* Mutant: a first verdict is not recognised as newer than none at all.     *)
VerdictIsNewerThanSome(standing, snapshot) ==
    snapshot.id # 0 /\ standing.id > snapshot.id

VerdictIsNewer(standing, snapshot) ==
    IF standing.id # 0 /\ snapshot.id # 0
    THEN standing.id > snapshot.id
    ELSE standing.sha # snapshot.sha

(* head is the commit the run's review names, code the oldest one of which *)
(* it reviews a file; behind says that an omitted patch was made up from an*)
(* older commit than the others, undecided that deciding the verdict raised*)
Job == [manual: BOOLEAN, head: 0..MaxCommit, code: 0..MaxCommit, behind: BOOLEAN,
        snap: Snapshot, parsed: BOOLEAN, found: SUBSET Findings,
        fresh: SUBSET Findings, carried: SUBSET Findings, event: Event,
        undecided: BOOLEAN]
NoJob == [manual |-> FALSE, head |-> 0, code |-> 0, behind |-> FALSE,
          snap |-> SnapshotUnset, parsed |-> FALSE, found |-> {}, fresh |-> {},
          carried |-> {}, event |-> "COMMENT", undecided |-> FALSE]

PC == {"idle", "opening", "opened", "started", "thinking", "ready", "locking", "checking",
       "posting", "verifying", "verdict",
       "answered", "silent", "unsubmitted", "skipped", "failed", "dead"}
Ended == {"answered", "silent", "unsubmitted", "skipped", "failed", "dead"}

TypeOK ==
    /\ LockTypeOK
    /\ head \in Commit
    /\ reviews \in Seq(Review)
    /\ pc \in [Runs -> PC]
    /\ job \in [Runs -> Job]

Init ==
    /\ LockInit
    /\ head = 1
    /\ reviews = <<>>
    /\ pc = [r \in Runs |-> "idle"]
    /\ job = [r \in Runs |-> NoJob]

Goto(r, to) == pc' = [pc EXCEPT ![r] = to]
Posted == UNION {reviews[i].inline : i \in DOMAIN reviews}

-----------------------------------------------------------------------------
(* The environment: the branch moves on, a person dismisses a review that  *)
(* approves or requests changes (GitHub dismisses no other), a process dies*)

Push ==
    /\ head < MaxCommit
    /\ head' = head + 1
    /\ UNCHANGED <<lockVars, reviews, pc, job>>

Dismiss(i) ==
    /\ "dismiss" \in Faults
    /\ reviews[i].state \in {"APPROVED", "CHANGES_REQUESTED"}
    /\ reviews' = [reviews EXCEPT ![i].state = "DISMISSED"]
    /\ UNCHANGED <<lockVars, head, pc, job>>

(* A manual stop, or a cancelled request, reaches the coroutine at an await,*)
(* the last of which waits for the publishing thread: one still in the     *)
(* executor's queue never runs, one that runs is not stopped by it.        *)
Cancel(r) ==
    /\ "cancel" \in Faults
    /\ pc[r] \in {"started", "thinking", "ready"}
    /\ Goto(r, "failed")
    /\ UNCHANGED <<lockVars, head, reviews, job>>

Die(r) ==
    /\ "crash" \in Faults
    /\ pc[r] \notin Ended \cup {"idle"}
    /\ Goto(r, "dead")
    /\ IF stage[r] # "outside" THEN DieInLock(r) ELSE UNCHANGED lockVars
    /\ UNCHANGED <<head, reviews, job>>

-----------------------------------------------------------------------------
(* Before the lock.                                                        *)

(* The provider is constructed: the pull request is fetched, with the head *)
(* whose file contents the run will ask for, ...                           *)
Begin(r, manual) ==
    /\ pc[r] = "idle"
    /\ Goto(r, "opening")
    /\ job' = [job EXCEPT ![r].manual = manual, ![r].code = head]
    /\ UNCHANGED <<lockVars, head, reviews>>

(* ... and then its commits, the last of which the verdict will name.      *)
ListCommits(r) ==
    /\ pc[r] = "opening"
    /\ Goto(r, "opened")
    /\ job' = [job EXCEPT ![r].head = head]
    /\ UNCHANGED <<lockVars, head, reviews>>

(* Mutant: the commit is taken after the files, by a second provider.      *)
ReadFilesFirst(r) ==
    /\ pc[r] = "opened"
    /\ Goto(r, "started")
    /\ job' = [job EXCEPT ![r].code = job[r].head, ![r].head = head]
    /\ UNCHANGED <<lockVars, head, reviews>>

(* get_files: the patches are those of a head that may have moved on, and  *)
(* are kept for the rest of the run.  A patch that GitHub omits is made up *)
(* later, from the contents at the head of the pull request as fetched.    *)
ReadFiles(r) ==
    /\ pc[r] = "opened"
    /\ Goto(r, "started")
    /\ \/ job' = [job EXCEPT ![r].code = head]
       \/ /\ "omitted" \in Faults
          /\ job[r].code # head
          /\ job' = [job EXCEPT ![r].behind = TRUE]
    /\ UNCHANGED <<lockVars, head, reviews>>

(* No files, or an incremental gate that is closed.                        *)
Skip(r) ==
    /\ pc[r] = "started"
    /\ Goto(r, "skipped")
    /\ UNCHANGED <<lockVars, head, reviews, job>>

(* _standing_verdict: a read that failed disarms the guard of this run.    *)
TakeSnapshot(r) ==
    /\ pc[r] = "started"
    /\ Goto(r, "thinking")
    /\ \E standing \in StandingVerdicts :
         job' = [job EXCEPT ![r].snap = SnapshotOf(standing)]
    /\ UNCHANGED <<lockVars, head, reviews>>

(* The model, and every fallback model, failed; or predicted nothing.      *)
ThinkFails(r) ==
    /\ pc[r] = "thinking"
    /\ \E outcome \in {"failed", "skipped"} : Goto(r, outcome)
    /\ UNCHANGED <<lockVars, head, reviews, job>>

EventOf(found) ==
    IF found \cap Blocking # {} THEN "REQUEST_CHANGES"
    ELSE IF found # {} THEN "COMMENT" ELSE "APPROVE"

(* The prediction is parsed.  Findings with a location become inline       *)
(* comments, unless one is on the pull request already; the others stay in *)
(* the summary, and all of them do when the existing comments cannot be    *)
(* listed.  What is on the pull request is read here, outside the lock; a  *)
(* finding is known again by its wording or by its lines.                  *)
Matches(f, g) == f = g \/ \E group \in Alike : {f, g} \subseteq group
IsPosted(f) == \E g \in Posted : Matches(f, g)

Reviewed(j, parsed, found, listed) ==
    LET anchored == IF listed THEN found \cap Anchored ELSE {}
        carried  == {f \in anchored : DedupCarriedOver /\ IsPosted(f)}
    IN  [j EXCEPT !.parsed = parsed, !.found = found, !.carried = carried,
                  !.fresh = anchored \ carried]

Think(r) ==
    /\ pc[r] = "thinking"
    /\ Goto(r, "ready")
    /\ \E parsed, listed \in BOOLEAN, found \in SUBSET Findings :
         /\ ~parsed => found = {}
         /\ ~listed => "list" \in Faults
         /\ job' = [job EXCEPT ![r] = Reviewed(job[r], parsed, found, listed)]
    /\ UNCHANGED <<lockVars, head, reviews>>

(* No report or no parsed data: refuse to publish a verdict.               *)
RefuseUnparsed(r) ==
    /\ pc[r] = "ready"
    /\ ~job[r].parsed
    /\ Goto(r, "failed")
    /\ UNCHANGED <<lockVars, head, reviews, job>>

(* Mutant: an unparsed prediction is published like any other.              *)
RequestLockUnparsed(r) ==
    /\ pc[r] = "ready"
    /\ Goto(r, "locking")
    /\ OpenLock(r)
    /\ job' = [job EXCEPT ![r].event = EventOf(job[r].found)]
    /\ UNCHANGED <<head, reviews>>

(* The verdict is decided before the lock is asked for.  An exception in   *)
(* the decision makes it a comment, whatever was found.                    *)
DecidedOn(j) == [j EXCEPT !.event = EventOf(j.found)]
Undecided(j) == [j EXCEPT !.event = "COMMENT", !.undecided = TRUE]

RequestLock(r) ==
    /\ pc[r] = "ready"
    /\ job[r].parsed
    /\ Goto(r, "locking")
    /\ OpenLock(r)
    /\ \/ job' = [job EXCEPT ![r] = DecidedOn(job[r])]
       \/ "undecided" \in Faults /\ job' = [job EXCEPT ![r] = Undecided(job[r])]
    /\ UNCHANGED <<head, reviews>>

EnterSection(r) ==
    /\ pc[r] = "locking"
    /\ Goto(r, "checking")
    /\ TakeLock(r) \/ GiveUpWaiting(r) \/ LockUnavailable(r)
    /\ UNCHANGED <<head, reviews, job>>

-----------------------------------------------------------------------------
(* _publish_single_review_locked: the section under the lock.              *)

(* Mutant: a newer verdict for any commit is taken for an answer.           *)
AnsweredOnAnyCommit(r, standing) ==
    /\ job[r].snap.armed
    /\ VerdictIsNewer(standing, job[r].snap)

(* Mutant: the guard is armed although the snapshot could not be read.      *)
AnsweredUnarmed(r, standing) ==
    /\ standing.sha = job[r].head
    /\ VerdictIsNewer(standing, job[r].snap)

(* A verdict for our own commit, newer than the one standing when we began.*)
AnsweredByAnother(r, standing) ==
    /\ standing.sha = job[r].head
    /\ job[r].snap.armed
    /\ VerdictIsNewer(standing, job[r].snap)

(* An automatic run has nothing to add.                                    *)
NothingNew(r, standing) ==
    \/ standing.sha = job[r].head
    \/ /\ job[r].fresh = {}
       /\ standing.state = VerdictEventToState[job[r].event]

(* Mutant: a requested review is as reticent as an automatic one.           *)
StaysSilentOnRequest(r, standing) ==
    AnsweredByAnother(r, standing) \/ NothingNew(r, standing)

StaysSilent(r, standing) ==
    \/ AnsweredByAnother(r, standing)
    \/ ~job[r].manual /\ NothingNew(r, standing)

(* The standing verdict is read again and the run decides.  A silent run   *)
(* leaves the section at once; nothing lies between the return and the     *)
(* finally clause of the lock.                                             *)
Check(r) ==
    /\ pc[r] = "checking"
    /\ \E standing \in StandingVerdicts :
         IF StaysSilent(r, standing)
         THEN Goto(r, "silent") /\ LeaveLock(r)
         ELSE /\ Goto(r, IF job[r].fresh # {} THEN "posting" ELSE "verdict")
              /\ UNCHANGED lockVars
    /\ UNCHANGED <<head, reviews, job>>

(* Mutant: the event is taken for the state of the stored review.           *)
StoreEvent(r, inline, body) ==
    reviews' = Append(reviews,
                 [sha |-> job[r].head, state |-> job[r].event, run |-> r,
                  inline |-> inline, dropped |-> {}, body |-> body])

(* GitHub stores a review.  Its id is its place in the listing.  A comment *)
(* whose line is outside the diff may be dropped without a word, and nobody*)
(* reads the comments back.                                                *)
Store(r, inline, body) ==
    \E dropped \in {d \in SUBSET inline : d # {} => "dropped" \in Faults} :
        reviews' = Append(reviews,
                     [sha |-> job[r].head, state |-> VerdictEventToState[job[r].event],
                      run |-> r, inline |-> inline \ dropped,
                      dropped |-> dropped, body |-> body])

(* Findings that never became inline comments are part of the summary.     *)
Summary(r) == job[r].found \ (job[r].fresh \cup job[r].carried)

Finish(r, to) == Goto(r, to) /\ LeaveLock(r) /\ UNCHANGED <<head, job>>
Proceed(r, to) == Goto(r, to) /\ UNCHANGED <<lockVars, head, job>>

(* create_review with body and event: it answers; or it raises, and then   *)
(* the review is there all the same only if the answer was lost.  A review *)
(* answered in another state than asked for was kept as a draft, which     *)
(* nobody sees: submit_review_verdict takes it for refused.                *)
CreateAnswers(r, inline, body) == Store(r, inline, body)
CreateRaises(r, inline, body) ==
    \/ "refused" \in Faults /\ UNCHANGED reviews
    \/ "lost" \in Faults /\ Store(r, inline, body)

(* publish_inline_comments: everything in one review.  A 422 means GitHub  *)
(* could not place some comment; any other error gives up on the comments. *)
PostTogether(r) ==
    /\ pc[r] = "posting"
    /\ \/ CreateAnswers(r, job[r].fresh, Summary(r)) /\ Finish(r, "answered")
       \/ CreateRaises(r, job[r].fresh, Summary(r)) /\ Proceed(r, "verdict")
       \/ "unplaceable" \in Faults /\ UNCHANGED reviews /\ Proceed(r, "verifying")

(* The fallback tries each comment alone, then posts one review with those *)
(* that GitHub accepts inline and the others in the body.                  *)
PostVerified(r) ==
    /\ pc[r] = "verifying"
    /\ \E verified \in SUBSET job[r].fresh :
         LET body == Summary(r) \cup (job[r].fresh \ verified)
         IN  \/ CreateAnswers(r, verified, body) /\ Finish(r, "answered")
             \/ CreateRaises(r, verified, body) /\ Proceed(r, "verdict")

(* Mutant: the findings meant for the inline comments are forgotten.        *)
SubmitSummaryOnly(r) ==
    /\ pc[r] = "verdict"
    /\ \/ CreateAnswers(r, {}, Summary(r)) /\ Finish(r, "answered")
       \/ CreateRaises(r, {}, Summary(r)) /\ Finish(r, "unsubmitted")

(* Mutant: what may have been lost is posted again.                        *)
SubmitInlineAgain(r) ==
    /\ pc[r] = "verdict"
    /\ \/ CreateAnswers(r, job[r].fresh, Summary(r)) /\ Finish(r, "answered")
       \/ CreateRaises(r, job[r].fresh, Summary(r)) /\ Finish(r, "unsubmitted")

(* submit_review_verdict: no inline comments; after a failed attempt the   *)
(* findings meant for them ride in the body.  An error is only logged.     *)
SubmitVerdict(r) ==
    /\ pc[r] = "verdict"
    /\ LET body == Summary(r) \cup job[r].fresh
       IN  \/ CreateAnswers(r, {}, body) /\ Finish(r, "answered")
           \/ CreateRaises(r, {}, body) /\ Finish(r, "unsubmitted")

-----------------------------------------------------------------------------
RunStep(r) ==
    \/ ListCommits(r) \/ ReadFiles(r) \/ Skip(r) \/ TakeSnapshot(r)
    \/ ThinkFails(r) \/ Think(r) \/ RefuseUnparsed(r)
    \/ RequestLock(r) \/ EnterSection(r) \/ Check(r)
    \/ PostTogether(r) \/ PostVerified(r) \/ SubmitVerdict(r)

(* Every run has ended and nobody asks for another.                        *)
Quiescent ==
    /\ \A r \in Runs : pc[r] \in Ended
    /\ UNCHANGED vars

Next ==
    \/ Push
    \/ \E i \in DOMAIN reviews : Dismiss(i)
    \/ \E r \in Runs : Cancel(r) \/ Die(r) \/ RunStep(r) \/ \E manual \in BOOLEAN : Begin(r, manual)
    \/ Quiescent

Spec == Init /\ [][Next]_vars

(* A run, once begun, keeps taking steps: its coroutine is scheduled, its  *)
(* thread polls the lock, every call it makes returns or raises.           *)
Fairness == \A r \in Runs : WF_vars(RunStep(r))
FairSpec == Spec /\ Fairness

-----------------------------------------------------------------------------
(* The properties.                                                         *)

Repeats(i, j) ==
    /\ i < j
    /\ reviews[i].sha = reviews[j].sha
    /\ reviews[i].run # reviews[j].run
    /\ reviews[i].state # "DISMISSED"

OtherCommitBetween(i, j) ==
    \E k \in DOMAIN reviews : i < k /\ k < j /\ reviews[k].sha # reviews[j].sha

KnewOf(r, i) == ~job[r].snap.armed \/ i <= job[r].snap.id

AskedAgain(i, j) ==
    LET r == reviews[j].run IN job[r].manual /\ KnewOf(r, i)

(***************************************************************************)
(* Two reviews of one commit by different runs are explained: a person     *)
(* asked for the second one knowing of the first, or another commit was    *)
(* reviewed in between.  Runs that overlap on one commit answer it once.   *)
(* (The check-and-publish section, pr_reviewer.py:701, under its lock.)    *)
(***************************************************************************)
RepeatsAreExplained ==
    \A i, j \in DOMAIN reviews :
        Repeats(i, j) => OtherCommitBetween(i, j) \/ AskedAgain(i, j)

(***************************************************************************)
(* Nobody is silenced without evidence: a run ends silent only if another  *)
(* run's review exists that answers it.  For a requested review that is a  *)
(* review of the same commit, posted after the request took its snapshot;  *)
(* an automatic run also accepts an older one, or an equal verdict.        *)
(***************************************************************************)
Answering(r, i) ==
    /\ reviews[i].run # r
    /\ \/ /\ reviews[i].sha = job[r].head
          /\ job[r].manual => job[r].snap.armed /\ i > job[r].snap.id
       \/ /\ ~job[r].manual
          /\ job[r].fresh = {}
          /\ job[reviews[i].run].event = job[r].event

SilenceHasAnAnswer ==
    \A r \in Runs : pc[r] = "silent" => \E i \in DOMAIN reviews : Answering(r, i)

(***************************************************************************)
(* No finding is lost on the way: whatever GitHub refuses, every finding of*)
(* a run that was answered is on the pull request, by itself or by one that*)
(* it was taken for, in an inline comment or in the text of some review,   *)
(* unless GitHub accepted its comment and dropped it in silence.  (The two *)
(* fallbacks, pr_reviewer.py:755 and github_provider.py:786, and the dedup *)
(* of carried-over findings.)                                              *)
(***************************************************************************)
IsShown(f) ==
    \E i \in DOMAIN reviews : \E g \in reviews[i].inline \cup reviews[i].body : Matches(f, g)

WasDropped(r, f) ==
    \E i \in DOMAIN reviews : reviews[i].run = r /\ f \in reviews[i].dropped

FindingsReachThePullRequest ==
    \A r \in Runs : pc[r] = "answered" =>
        \A f \in job[r].found : IsShown(f) \/ WasDropped(r, f)

(***************************************************************************)
(* Findings do not pile up: a finding is posted inline a second time only  *)
(* by another run, one that began thinking before the first was posted.  An*)
(* attempt whose answer was lost is not repeated with its comments.        *)
(* (pr_reviewer.py:1048 and the fallbacks of PostTogether.)                *)
(***************************************************************************)
InlineOnce ==
    DedupCarriedOver =>
        \A i, j \in DOMAIN reviews :
            i < j /\ reviews[i].inline \cap reviews[j].inline # {} =>
                LET r == reviews[j].run
                IN  reviews[i].run # r /\ (job[r].snap.armed => i > job[r].snap.id)

(***************************************************************************)
(* A review that names a commit was made of its patches or of newer ones,  *)
(* whatever is pushed between the readings (github_provider.py:74-75 and   *)
(* get_files), so a commit that is silenced as reviewed has been looked at.*)
(* The exception is a pull request with a patch that GitHub omits: that    *)
(* file is reviewed as it was when the pull request was fetched, which a   *)
(* push can make older than the commit named (github_provider.py:324).     *)
(***************************************************************************)
NamedCommitWasRead ==
    \A i \in DOMAIN reviews :
        LET j == job[reviews[i].run] IN j.behind \/ reviews[i].sha <= j.code

(***************************************************************************)
(* A verdict is backed by the run that posted it: its output was parsed,   *)
(* the marker names its commit, an approval means it found nothing, and    *)
(* blocking findings are rejected, or at the least commented upon when     *)
(* deciding raised.  A broken review is never dressed up as a pass         *)
(* (pr_reviewer.py:681-692).                                               *)
(***************************************************************************)
VerdictIsBacked ==
    \A i \in DOMAIN reviews :
        LET j == job[reviews[i].run]
        IN  /\ j.parsed
            /\ reviews[i].sha = j.head
            /\ reviews[i].state = "APPROVED" => j.found = {}
            /\ j.found \cap Blocking # {} =>
                   \/ reviews[i].state \in {"CHANGES_REQUESTED", "DISMISSED"}
                   \/ j.undecided /\ reviews[i].state = "COMMENTED"

(***************************************************************************)
(* A run in the section without having been refused keeps the others out:  *)
(* with a working lock no two runs are between check and publication.      *)
(***************************************************************************)
OneInSection ==
    \A r, s \in Runs :
        pc[r] \in {"checking", "posting", "verifying", "verdict"}
        /\ pc[s] \in {"checking", "posting", "verifying", "verdict"} => r = s

(***************************************************************************)
(* Every run ends, also when the owner of the lock dies in the section.    *)
(***************************************************************************)
RunsEnd == \A r \in Runs : (pc[r] # "idle") ~> (pc[r] \in Ended)

(***************************************************************************)
(* Runs do not silence each other: once a run reaches the check, its commit*)
(* gets a review, unless it is automatic and the standing verdict already  *)
(* says the same, its submission is refused or its process dies.           *)
(***************************************************************************)
CheckedCommitIsReviewed ==
    \A r \in Runs :
        (pc[r] = "checking") ~>
            \/ \E i \in DOMAIN reviews : reviews[i].sha = job[r].head
            \/ pc[r] \in {"unsubmitted", "dead"}
            \/ pc[r] = "silent" /\ ~job[r].manual /\ job[r].fresh = {}

(***************************************************************************)
(* What README.md:53 says: "Never reviews a commit twice [...] An automatic*)
(* re-run on unchanged code stays silent".                                 *)
(***************************************************************************)
AutomaticRunNeverRepeats ==
    \A i, j \in DOMAIN reviews : Repeats(i, j) => job[reviews[j].run].manual

(***************************************************************************)
(* What publish_lock.py:48 says of a waiter that exceeds the timeout: the  *)
(* comparison of the standing verdict with the snapshot "is what catches a *)
(* concurrent publication in both cases".                                  *)
(***************************************************************************)
OverlapIsAnsweredOnce ==
    \A i, j \in DOMAIN reviews : Repeats(i, j) => KnewOf(reviews[j].run, i)

-----------------------------------------------------------------------------
(***************************************************************************)
(* Refinement: seen from outside, a run is taken up when it snapshots the  *)
(* standing verdict and closed in one step.  The section under the lock    *)
(* (pr_reviewer.py:701) is atomic: what was true when the run checked is   *)
(* still true when its review lands.                                       *)
(***************************************************************************)
NoRequestWith(status) == [status |-> status, manual |-> FALSE, sha |-> 0, seen |-> 0]

RequestOf(r) ==
    LET asked(status) == [status |-> status, manual |-> job[r].manual,
                          sha |-> job[r].head, seen |-> job[r].snap.id]
    IN  CASE pc[r] \in {"idle", "opening", "opened", "started"} -> NoRequestWith("none")
          [] pc[r] \in {"unsubmitted", "skipped", "failed", "dead"} -> NoRequestWith("gaveup")
          [] pc[r] \in {"answered", "silent"} -> asked(pc[r])
          [] OTHER -> asked("open")

Requests == [r \in Runs |-> RequestOf(r)]

Log == [i \in DOMAIN reviews |->
          [sha |-> reviews[i].sha, run |-> reviews[i].run,
           verdict |-> job[reviews[i].run].event,
           dismissed |-> reviews[i].state = "DISMISSED"]]

Abstract == INSTANCE VerdictLog WITH
    Commits <- Commit, Verdicts <- Event, log <- Log, request <- Requests

ImplementsVerdictLog == Abstract!Spec

=============================================================================
