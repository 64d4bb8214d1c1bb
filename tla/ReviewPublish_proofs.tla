------------------------ MODULE ReviewPublish_proofs ------------------------
(***************************************************************************)
(* Proofs about ReviewPublish, for any set of runs, commits and findings.  *)
(*                                                                         *)
(* The inductive invariant says how the lock and the program counters move *)
(* together (Coupling, OwnerHolds), that only a run past its check has     *)
(* reviews (Quiet) and that a review carries what its run decided (Match). *)
(* The last section is about how runs end, whatever fails: who holds the   *)
(* lock, what an answer or a silence leaves behind, how often a run posts. *)
(***************************************************************************)
EXTENDS ReviewPublish, SequenceTheorems, TLAPS

BeforeLock == {"idle", "opening", "opened", "started", "thinking", "ready"}
Posting == {"posting", "verifying", "verdict"}
Section == {"checking"} \cup Posting

Coupling ==
    \A r \in Runs :
        /\ pc[r] = "locking" <=> stage[r] = "waiting"
        /\ pc[r] \in Section <=> Inside(r)

Begun ==
    \A r \in Runs : pc[r] \notin {"idle", "opening", "dead"} => job[r].head \in Commit

(* The event of a run is the one its findings call for, or a comment when  *)
(* deciding raised.                                                        *)
Settled(j) == j.event = EventOf(j.found) \/ (j.undecided /\ j.event = "COMMENT")

Quiet ==
    \A i \in DOMAIN reviews :
        pc[reviews[i].run] \notin BeforeLock \cup {"locking", "checking", "silent", "skipped"}

Match ==
    \A i \in DOMAIN reviews :
        LET r == reviews[i].run
        IN  /\ reviews[i].sha = job[r].head
            /\ reviews[i].state \in {VerdictEventToState[job[r].event], "DISMISSED"}
            /\ job[r].parsed
            /\ Settled(job[r])

(* A run has its findings when it is ready and its verdict when it asks for*)
(* the lock.                                                               *)
HasFindings == {"ready", "locking"} \cup Section
Decided ==
    \A r \in Runs : pc[r] \in HasFindings \ {"ready"} => job[r].parsed /\ Settled(job[r])

Base == TypeOK /\ Coupling /\ Begun
IInv == Base /\ OwnerHolds /\ Decided /\ Quiet /\ Match

-----------------------------------------------------------------------------
(* The steps that may store a review all have one shape.                   *)
PostStep(r) == PostTogether(r) \/ PostVerified(r) \/ SubmitVerdict(r)

LEMMA EventType == \A found : EventOf(found) \in Event
  BY DEF EventOf, Event

LEMMA StateType == \A e \in Event : VerdictEventToState[e] \in State \ {"DISMISSED"}
  BY DEF Event, State, VerdictEventToState

LEMMA PostShape ==
  ASSUME TypeOK, NEW r \in Runs, PostStep(r)
  PROVE  /\ pc[r] \in Posting
         /\ UNCHANGED <<head, job>>
         /\ \/ UNCHANGED reviews
            \/ \E inline, body \in SUBSET Findings : Store(r, inline, body)
         /\ \/ \E to \in Posting : Goto(r, to) /\ UNCHANGED lockVars
            \/ \E to \in {"answered", "unsubmitted"} : Goto(r, to) /\ LeaveLock(r)
  <1>1. job[r].fresh \in SUBSET Findings /\ Summary(r) \in SUBSET Findings
    BY DEF TypeOK, Job, Summary
  <1>2. CASE PostTogether(r)
    BY <1>1, <1>2 DEF PostTogether, CreateAnswers, CreateRaises, Finish, Proceed, Posting
  <1>3. CASE PostVerified(r)
    <2>1. PICK verified \in SUBSET job[r].fresh :
            LET body == Summary(r) \cup (job[r].fresh \ verified)
            IN  \/ CreateAnswers(r, verified, body) /\ Finish(r, "answered")
                \/ CreateRaises(r, verified, body) /\ Proceed(r, "verdict")
      BY <1>3 DEF PostVerified
    <2>2. /\ verified \in SUBSET Findings
          /\ Summary(r) \cup (job[r].fresh \ verified) \in SUBSET Findings
      BY <1>1
    <2>3. pc[r] = "verifying"
      BY <1>3 DEF PostVerified
    <2> QED
      BY <2>1, <2>2, <2>3 DEF CreateAnswers, CreateRaises, Finish, Proceed, Posting
  <1>4. CASE SubmitVerdict(r)
    <2>1. Summary(r) \cup job[r].fresh \in SUBSET Findings
      BY <1>1
    <2> QED
      BY <1>4, <2>1 DEF SubmitVerdict, CreateAnswers, CreateRaises, Finish, Proceed, Posting
  <1> QED
    BY <1>2, <1>3, <1>4 DEF PostStep

(* The steps of a run before it owes anything to the pull request.         *)
QuietStep(r) ==
    \/ ListCommits(r) \/ ReadFiles(r) \/ Skip(r) \/ TakeSnapshot(r) \/ ThinkFails(r) \/ Think(r)
    \/ RefuseUnparsed(r) \/ RequestLock(r) \/ EnterSection(r) \/ Check(r)

LEMMA StandingType ==
  ASSUME TypeOK, NEW standing \in StandingVerdicts
  PROVE  standing.id \in Nat /\ standing.sha \in 0..MaxCommit
  <1>1. MaxCommit \in Nat
    BY MaxCommitAssumption
  <1>2. CASE standing = Unreadable
    BY <1>1, <1>2 DEF Unreadable, NoVerdict
  <1>3. CASE standing \in {VerdictAt(i) : i \in LatestLive}
    <2>1. PICK i \in LatestLive : standing = VerdictAt(i)
      BY <1>3
    <2>2. CASE i = 0
      BY <1>1, <2>1, <2>2 DEF VerdictAt, NoVerdict
    <2>3. CASE i # 0
      <3>1. i \in DOMAIN reviews
        BY <2>3 DEF LatestLive, Live
      <3>2. reviews[i] \in Review /\ i \in Nat
        BY <3>1 DEF TypeOK
      <3> QED
        BY <1>1, <2>1, <2>3, <3>2 DEF VerdictAt, Review, Commit
    <2> QED
      BY <2>2, <2>3
  <1> QED
    BY <1>2, <1>3 DEF StandingVerdicts

(* A review that was thought out keeps what identifies the run, and one    *)
(* that is decided keeps what was thought out.                             *)
SameRun(j, k) ==
    /\ k.manual = j.manual /\ k.head = j.head /\ k.snap = j.snap
    /\ k.code = j.code /\ k.behind = j.behind

SameFindings(j, k) ==
    /\ k.parsed = j.parsed /\ k.found = j.found
    /\ k.fresh = j.fresh /\ k.carried = j.carried

LEMMA ReviewedShape ==
  ASSUME NEW j \in Job, NEW parsed \in BOOLEAN, NEW found \in SUBSET Findings,
         NEW listed \in BOOLEAN
  PROVE  /\ Reviewed(j, parsed, found, listed) \in Job
         /\ SameRun(j, Reviewed(j, parsed, found, listed))
  <1> DEFINE anchored == IF listed THEN found \cap Anchored ELSE {}
             carried  == {f \in anchored : DedupCarriedOver /\ IsPosted(f)}
             done     == [j EXCEPT !.parsed = parsed, !.found = found, !.carried = carried,
                                   !.fresh = anchored \ carried]
  <1>1. carried \in SUBSET Findings /\ anchored \ carried \in SUBSET Findings
    OBVIOUS
  <1>2. Reviewed(j, parsed, found, listed) = done
    BY DEF Reviewed
  <1> HIDE DEF anchored, carried
  <1>3. done \in Job
    BY <1>1 DEF Job
  <1>4. SameRun(j, done)
    BY DEF Job, SameRun
  <1> QED
    BY <1>2, <1>3, <1>4

LEMMA LockShape ==
  ASSUME NEW r \in Runs, job[r] \in Job, RequestLock(r)
  PROVE  \E k \in Job :
            /\ job' = [job EXCEPT ![r] = k]
            /\ SameRun(job[r], k) /\ SameFindings(job[r], k)
            /\ k.parsed /\ Settled(k)
  <1> DEFINE decided   == DecidedOn(job[r])
             undecided == Undecided(job[r])
  <1>1. /\ decided \in Job /\ undecided \in Job
    BY EventType DEF DecidedOn, Undecided, Job, Event
  <1>2. /\ SameRun(job[r], decided) /\ SameRun(job[r], undecided)
        /\ SameFindings(job[r], decided) /\ SameFindings(job[r], undecided)
    BY DEF DecidedOn, Undecided, Job, SameRun, SameFindings
  <1>3. Settled(decided) /\ Settled(undecided)
    BY DEF DecidedOn, Undecided, Job, Settled
  <1>4. /\ job[r].parsed
        /\ job' = [job EXCEPT ![r] = decided] \/ job' = [job EXCEPT ![r] = undecided]
    BY DEF RequestLock
  <1> HIDE DEF decided, undecided
  <1> QED
    BY <1>1, <1>2, <1>3, <1>4 DEF SameFindings

LEMMA BaseInit == Init => Base
  BY MaxCommitAssumption
  DEF Init, Base, TypeOK, LockInit, LockTypeOK, Stage, Coupling, Begun, Inside, Section, Posting,
      Commit, PC, Job, NoJob, Snapshot, SnapshotUnset, Event

LEMMA BasePost ==
  ASSUME Base, NEW r \in Runs, PostStep(r)
  PROVE  Base'
  <1>1. /\ pc[r] \in Posting
        /\ UNCHANGED <<head, job>>
        /\ \/ UNCHANGED reviews
           \/ \E inline, body \in SUBSET Findings : Store(r, inline, body)
        /\ \/ \E to \in Posting : Goto(r, to) /\ UNCHANGED lockVars
           \/ \E to \in {"answered", "unsubmitted"} : Goto(r, to) /\ LeaveLock(r)
    BY PostShape DEF Base
  <1>2. reviews' \in Seq(Review)
    <2>1. CASE UNCHANGED reviews
      BY <2>1 DEF Base, TypeOK
    <2>2. CASE \E inline, body \in SUBSET Findings : Store(r, inline, body)
      <3>1. PICK inline, body \in SUBSET Findings : Store(r, inline, body)
        BY <2>2
      <3>2. job[r].head \in Commit /\ VerdictEventToState[job[r].event] \in State
        BY <1>1, StateType DEF Base, Begun, TypeOK, Job, Posting
      <3>3. PICK dropped \in SUBSET inline :
              reviews' = Append(reviews,
                [sha |-> job[r].head, state |-> VerdictEventToState[job[r].event], run |-> r,
                 inline |-> inline \ dropped, dropped |-> dropped, body |-> body])
        BY <3>1 DEF Store
      <3>4. [sha |-> job[r].head, state |-> VerdictEventToState[job[r].event], run |-> r,
             inline |-> inline \ dropped, dropped |-> dropped, body |-> body] \in Review
        BY <3>2, <3>3 DEF Review
      <3> QED
        BY <3>3, <3>4 DEF Base, TypeOK
    <2> QED
      BY <1>1, <2>1, <2>2
  <1>3. TypeOK'
    BY <1>1, <1>2 DEF Base, TypeOK, LockTypeOK, Goto, LeaveLock, DropLock, lockVars, Stage, PC, Posting
  <1>4. Coupling'
    <2>1. CASE \E to \in Posting : Goto(r, to) /\ UNCHANGED lockVars
      BY <1>1, <2>1 DEF Base, TypeOK, Coupling, Goto, lockVars, Inside, Posting, Section
    <2>2. CASE \E to \in {"answered", "unsubmitted"} : Goto(r, to) /\ LeaveLock(r)
      BY <1>1, <2>2
      DEF Base, TypeOK, LockTypeOK, Coupling, Goto, LeaveLock, DropLock, Inside, Posting, Section
    <2> QED
      BY <1>1, <2>1, <2>2
  <1>5. Begun'
    BY <1>1 DEF Base, TypeOK, Begun, Goto, Posting, Commit
  <1> QED
    BY <1>3, <1>4, <1>5 DEF Base

LEMMA BaseQuiet ==
  ASSUME Base, NEW r \in Runs, QuietStep(r)
  PROVE  Base'
  <1> USE DEF Base, TypeOK, Coupling, Begun, Goto, Inside, Section, Posting, PC
  <1>1. CASE Skip(r) \/ ThinkFails(r) \/ RefuseUnparsed(r)
    BY <1>1 DEF Skip, ThinkFails, RefuseUnparsed, lockVars, LockTypeOK, Commit
  <1>2. CASE TakeSnapshot(r)
    <2>1. PICK standing \in StandingVerdicts :
            job' = [job EXCEPT ![r].snap = SnapshotOf(standing)]
      BY <1>2 DEF TakeSnapshot
    <2>2. SnapshotOf(standing) \in Snapshot
      <3>1. standing.id \in Nat /\ standing.sha \in 0..MaxCommit
        BY StandingType
      <3> QED
        BY <3>1, MaxCommitAssumption DEF SnapshotOf, SnapshotUnset, Snapshot
    <2>3. job \in [Runs -> Job]
      OBVIOUS
    <2>4. job' \in [Runs -> Job] /\ \A s \in Runs : job'[s].head = job[s].head
      <3> HIDE DEF Base, TypeOK, Coupling, Begun
      <3>1. job[r] \in Job
        BY <2>3
      <3> DEFINE new == [job[r] EXCEPT !.snap = SnapshotOf(standing)]
      <3>2. new \in Job /\ new.head = job[r].head
        BY <2>2, <3>1 DEF Job
      <3>3. job' = [job EXCEPT ![r] = new]
        BY <2>1
      <3> HIDE DEF new
      <3> QED
        BY <2>3, <3>2, <3>3
    <2> QED
      BY <1>2, <2>4 DEF TakeSnapshot, lockVars, LockTypeOK, Commit
  <1>3. CASE Think(r)
    <2>1. PICK parsed, listed \in BOOLEAN, found \in SUBSET Findings :
            job' = [job EXCEPT ![r] = Reviewed(job[r], parsed, found, listed)]
      BY <1>3 DEF Think
    <2>2. /\ Reviewed(job[r], parsed, found, listed) \in Job
          /\ Reviewed(job[r], parsed, found, listed).head = job[r].head
      <3>1. job[r] \in Job
        OBVIOUS
      <3> HIDE DEF Base, TypeOK, Coupling, Begun
      <3>2. /\ Reviewed(job[r], parsed, found, listed) \in Job
            /\ SameRun(job[r], Reviewed(job[r], parsed, found, listed))
        BY <3>1, ReviewedShape
      <3> QED
        BY <3>2 DEF SameRun
    <2> QED
      BY <1>3, <2>1, <2>2 DEF Think, lockVars, LockTypeOK, Commit
  <1>4. CASE RequestLock(r)
    <2>1. job[r] \in Job
      OBVIOUS
    <2>2. PICK k \in Job : job' = [job EXCEPT ![r] = k] /\ SameRun(job[r], k)
      BY <1>4, <2>1, LockShape
    <2>3. job' \in [Runs -> Job] /\ \A s \in Runs : job'[s].head = job[s].head
      BY <2>2 DEF SameRun
    <2> QED
      BY <1>4, <2>3 DEF RequestLock, OpenLock, LockTypeOK, Stage, Commit
  <1>5. CASE EnterSection(r)
    BY <1>5 DEF EnterSection, TakeLock, GiveUpWaiting, LockUnavailable, LockTypeOK, Stage, Commit
  <1>6. CASE Check(r)
    <2>1. \/ Goto(r, "silent") /\ LeaveLock(r)
          \/ Goto(r, IF job[r].fresh # {} THEN "posting" ELSE "verdict") /\ UNCHANGED lockVars
      BY <1>6 DEF Check
    <2>2. pc[r] = "checking" /\ UNCHANGED <<head, reviews, job>>
      BY <1>6 DEF Check
    <2>3. CASE Goto(r, "silent") /\ LeaveLock(r)
      BY <2>2, <2>3 DEF LeaveLock, DropLock, LockTypeOK, Stage, Commit
    <2>4. CASE Goto(r, IF job[r].fresh # {} THEN "posting" ELSE "verdict") /\ UNCHANGED lockVars
      BY <2>2, <2>4 DEF lockVars, LockTypeOK, Commit
    <2> QED
      BY <2>1, <2>3, <2>4
  <1>7. CASE ReadFiles(r)
    <2>1. head \in 0..MaxCommit /\ job[r] \in Job
      BY MaxCommitAssumption DEF Commit
    <2> DEFINE new  == [job[r] EXCEPT !.code = head]
               late == [job[r] EXCEPT !.behind = TRUE]
    <2>2. new \in Job /\ new.head = job[r].head /\ late \in Job /\ late.head = job[r].head
      BY <2>1 DEF Job
    <2>3. job' = [job EXCEPT ![r] = new] \/ job' = [job EXCEPT ![r] = late]
      BY <1>7 DEF ReadFiles
    <2> HIDE DEF new, late
    <2>4. job' \in [Runs -> Job] /\ \A s \in Runs : job'[s].head = job[s].head
      BY <2>2, <2>3
    <2> QED
      BY <1>7, <2>4 DEF ReadFiles, lockVars, LockTypeOK, Commit
  <1>8. CASE ListCommits(r)
    <2>1. head \in 0..MaxCommit /\ job[r] \in Job
      BY MaxCommitAssumption DEF Commit
    <2> DEFINE new == [job[r] EXCEPT !.head = head]
    <2>2. new \in Job /\ new.head = head
      BY <2>1 DEF Job
    <2>3. job' = [job EXCEPT ![r] = new]
      BY <1>8 DEF ListCommits
    <2> HIDE DEF new
    <2> QED
      BY <1>8, <2>2, <2>3 DEF ListCommits, lockVars, LockTypeOK
  <1> QED
    BY <1>1, <1>2, <1>3, <1>4, <1>5, <1>6, <1>7, <1>8 DEF QuietStep

LEMMA BaseEnvironment ==
  ASSUME Base,
         \/ Push \/ Quiescent \/ UNCHANGED vars
         \/ \E i \in DOMAIN reviews : Dismiss(i)
         \/ \E r \in Runs : Cancel(r) \/ Die(r) \/ \E manual \in BOOLEAN : Begin(r, manual)
  PROVE  Base'
  <1> USE DEF Base, TypeOK, Coupling, Begun, Goto, Inside, Section, Posting, PC, lockVars
  <1>1. CASE Push
    BY <1>1, MaxCommitAssumption DEF Push, Commit, LockTypeOK
  <1>2. CASE Quiescent \/ UNCHANGED vars
    BY <1>2 DEF Quiescent, vars, LockTypeOK, Commit
  <1>3. ASSUME NEW i \in DOMAIN reviews, Dismiss(i)
        PROVE  Base'
    <2>1. reviews[i] \in Review
      OBVIOUS
    <2>2. [reviews[i] EXCEPT !.state = "DISMISSED"] \in Review
      BY <2>1 DEF Review, State
    <2>3. reviews' \in Seq(Review)
      BY <1>3, <2>2 DEF Dismiss
    <2> QED
      BY <1>3, <2>3 DEF Dismiss, LockTypeOK, Commit
  <1>4. ASSUME NEW r \in Runs, Cancel(r) \/ Die(r)
        PROVE  Base'
    <2>1. CASE Cancel(r)
      BY <2>1 DEF Cancel, LockTypeOK, Commit
    <2>2. CASE Die(r)
      <3>1. CASE stage[r] # "outside"
        BY <2>2, <3>1 DEF Die, DieInLock, DropLock, LockTypeOK, Stage, Ended, Commit
      <3>2. CASE stage[r] = "outside"
        BY <2>2, <3>2 DEF Die, LockTypeOK, Ended, Commit
      <3> QED
        BY <3>1, <3>2
    <2> QED
      BY <1>4, <2>1, <2>2
  <1>5. ASSUME NEW r \in Runs, NEW manual \in BOOLEAN, Begin(r, manual)
        PROVE  Base'
    <2>1. job' \in [Runs -> Job]
      <3>1. head \in 0..MaxCommit /\ job[r] \in Job
        BY MaxCommitAssumption DEF Commit
      <3>2. [job[r] EXCEPT !.manual = manual, !.code = head] \in Job
        BY <3>1 DEF Job
      <3>3. job' = [job EXCEPT ![r] = [job[r] EXCEPT !.manual = manual, !.code = head]]
        BY <1>5 DEF Begin
      <3> QED
        BY <3>2, <3>3
    <2>2. \A s \in Runs : job'[s].head = job[s].head
      BY <1>5 DEF Begin, Job
    <2> QED
      BY <1>5, <2>1, <2>2 DEF Begin, LockTypeOK, Commit
  <1> QED
    BY <1>1, <1>2, <1>3, <1>4, <1>5

LEMMA BaseNext == Base /\ [Next]_vars => Base'
  <1> SUFFICES ASSUME Base, [Next]_vars PROVE Base'
    OBVIOUS
  <1>1. CASE \E r \in Runs : RunStep(r)
    <2>1. PICK r \in Runs : RunStep(r)
      BY <1>1
    <2>2. QuietStep(r) \/ PostStep(r)
      BY <2>1 DEF RunStep, QuietStep, PostStep
    <2> QED
      BY <2>2, BaseQuiet, BasePost
  <1>2. CASE ~\E r \in Runs : RunStep(r)
    BY <1>2, BaseEnvironment DEF Next
  <1> QED
    BY <1>1, <1>2

(***************************************************************************)
(* Every variable keeps its type, whatever faults the environment produces.*)
(***************************************************************************)
THEOREM TypeCorrect == Spec => []TypeOK
  <1>1. Base => TypeOK
    BY DEF Base
  <1> QED
    BY BaseInit, BaseNext, <1>1, PTL DEF Spec

-----------------------------------------------------------------------------
(* What any step leaves alone.                                             *)
Environment ==
    \/ Push \/ Quiescent \/ UNCHANGED vars
    \/ \E r \in Runs : Cancel(r) \/ \E manual \in BOOLEAN : Begin(r, manual)

LEMMA StepCases ==
  ASSUME [Next]_vars
  PROVE  \/ Environment
         \/ \E i \in DOMAIN reviews : Dismiss(i)
         \/ \E r \in Runs : Die(r) \/ QuietStep(r) \/ PostStep(r)
  BY DEF Next, Environment, RunStep, QuietStep, PostStep

(* The log of reviews grows, one run past its check at a time; an entry    *)
(* that exists is never changed but for its dismissal.                     *)
LEMMA LogKeeps ==
  ASSUME Base, [Next]_vars
  PROVE  /\ \A i \in DOMAIN reviews :
              /\ i \in DOMAIN reviews'
              /\ reviews'[i].sha = reviews[i].sha
              /\ reviews'[i].run = reviews[i].run
              /\ reviews'[i].state \in {reviews[i].state, "DISMISSED"}
              /\ reviews'[i].inline = reviews[i].inline
              /\ reviews'[i].dropped = reviews[i].dropped
              /\ reviews'[i].body = reviews[i].body
         /\ \A i \in DOMAIN reviews' \ DOMAIN reviews :
              \E r \in Runs :
                 /\ PostStep(r)
                 /\ pc[r] \in Posting
                 /\ job' = job
                 /\ i = Len(reviews) + 1
                 /\ DOMAIN reviews' = 1..i
                 /\ reviews'[i].run = r
                 /\ reviews'[i].sha = job[r].head
                 /\ reviews'[i].state = VerdictEventToState[job[r].event]
  <1>0. reviews \in Seq(Review)
    BY DEF Base, TypeOK
  <1>1. CASE UNCHANGED reviews
    BY <1>0, <1>1
  <1>2. ASSUME NEW d \in DOMAIN reviews, Dismiss(d)
        PROVE  /\ DOMAIN reviews' = DOMAIN reviews
               /\ \A i \in DOMAIN reviews :
                    /\ reviews'[i].sha = reviews[i].sha
                    /\ reviews'[i].run = reviews[i].run
                    /\ reviews'[i].state \in {reviews[i].state, "DISMISSED"}
                    /\ reviews'[i].inline = reviews[i].inline
                    /\ reviews'[i].dropped = reviews[i].dropped
                    /\ reviews'[i].body = reviews[i].body
    <2>1. \A i \in DOMAIN reviews : reviews[i] \in Review
      BY <1>0
    <2>2. reviews' = [reviews EXCEPT ![d].state = "DISMISSED"]
      BY <1>2 DEF Dismiss
    <2>3. /\ DOMAIN reviews' = DOMAIN reviews
          /\ \A i \in DOMAIN reviews \ {d} : reviews'[i] = reviews[i]
          /\ reviews'[d] = [reviews[d] EXCEPT !.state = "DISMISSED"]
      BY <1>0, <2>2
    <2> QED
      BY <2>1, <2>3 DEF Review
  <1>3. ASSUME NEW r \in Runs, PostStep(r), ~UNCHANGED reviews
        PROVE  /\ pc[r] \in Posting
               /\ job' = job
               /\ DOMAIN reviews' = 1..(Len(reviews) + 1)
               /\ \A i \in DOMAIN reviews : reviews'[i] = reviews[i]
               /\ LET new == reviews'[Len(reviews) + 1]
                  IN  /\ new.run = r
                      /\ new.sha = job[r].head
                      /\ new.state = VerdictEventToState[job[r].event]
    <2>1. /\ pc[r] \in Posting
          /\ job' = job
          /\ \E inline, body \in SUBSET Findings : Store(r, inline, body)
      BY <1>3, PostShape DEF Base
    <2>2. PICK inline, body \in SUBSET Findings : Store(r, inline, body)
      BY <2>1
    <2>a. PICK dropped \in SUBSET inline :
            reviews' = Append(reviews,
              [sha |-> job[r].head, state |-> VerdictEventToState[job[r].event], run |-> r,
               inline |-> inline \ dropped, dropped |-> dropped, body |-> body])
      BY <2>2 DEF Store
    <2> DEFINE new == [sha |-> job[r].head, state |-> VerdictEventToState[job[r].event], run |-> r,
                       inline |-> inline \ dropped, dropped |-> dropped, body |-> body]
    <2>3. reviews' = Append(reviews, new)
      BY <2>a
    <2> HIDE DEF new
    <2>4. /\ DOMAIN reviews' = 1..(Len(reviews) + 1)
          /\ \A i \in DOMAIN reviews : reviews'[i] = reviews[i]
          /\ reviews'[Len(reviews) + 1] = new
      BY <1>0, <2>3
    <2> QED
      BY <2>1, <2>4 DEF new
  <1>4. CASE \E d \in DOMAIN reviews : Dismiss(d)
    BY <1>2, <1>4
  <1>5. CASE \E r \in Runs : PostStep(r) /\ ~UNCHANGED reviews
    <2>1. PICK r \in Runs : PostStep(r) /\ ~UNCHANGED reviews
      BY <1>5
    <2>2. DOMAIN reviews = 1..Len(reviews) /\ Len(reviews) \in Nat
      BY <1>0
    <2> QED
      BY <1>3, <2>1, <2>2
  <1>6. Environment => UNCHANGED reviews
    BY DEF Environment, Push, Quiescent, vars, Cancel, Begin
  <1>7. \A r \in Runs : Die(r) \/ QuietStep(r) => UNCHANGED reviews
    BY DEF Die, QuietStep, ListCommits, ReadFiles, Skip, TakeSnapshot, ThinkFails, Think, RefuseUnparsed, RequestLock,
           EnterSection, Check
  <1> QED
    BY StepCases, <1>1, <1>4, <1>5, <1>6, <1>7

(* A run that has its findings keeps them, and all its locals from when it *)
(* has asked for the lock.                                                 *)
Unthought == {"idle", "opening", "opened", "started", "thinking"}
Late == Posting \cup {"answered", "unsubmitted", "failed", "dead"}

LEMMA RunKeeps ==
  ASSUME Base, [Next]_vars, NEW r \in Runs
  PROVE  /\ pc[r] \notin Unthought =>
              SameRun(job[r], job'[r]) /\ SameFindings(job[r], job'[r])
         /\ pc[r] \notin Unthought \cup {"ready"} => job'[r] = job[r]
         /\ pc[r] \in Late => pc'[r] \in Late
         /\ pc'[r] = "silent" => pc[r] = "silent" \/ Check(r)
  <1> USE DEF Base, TypeOK, Goto, Unthought, Late, Posting, PC
  <1>1. CASE Environment
    BY <1>1 DEF Environment, Push, Quiescent, vars, Cancel, Begin, SameRun, SameFindings
  <1>2. CASE \E i \in DOMAIN reviews : Dismiss(i)
    BY <1>2 DEF Dismiss, SameRun, SameFindings
  <1>3. ASSUME NEW s \in Runs, Die(s)
        PROVE  job'[r] = job[r] /\ pc'[r] \in {pc[r], "dead"}
    BY <1>3 DEF Die
  <1>4. ASSUME NEW s \in Runs, QuietStep(s)
        PROVE  /\ pc[r] \notin Unthought =>
                    SameRun(job[r], job'[r]) /\ SameFindings(job[r], job'[r])
               /\ pc[r] \notin Unthought \cup {"ready"} => job'[r] = job[r]
               /\ pc[r] \in Late => pc'[r] = pc[r]
               /\ pc'[r] = "silent" => pc[r] = "silent" \/ Check(r)
    <2>1. CASE Check(s)
      BY <2>1 DEF Check, SameRun, SameFindings
    <2>2. CASE Skip(s) \/ ThinkFails(s) \/ RefuseUnparsed(s) \/ EnterSection(s)
      BY <2>2 DEF Skip, ThinkFails, RefuseUnparsed, EnterSection, SameRun, SameFindings
    <2>3. CASE ListCommits(s) \/ ReadFiles(s) \/ TakeSnapshot(s) \/ Think(s)
      BY <2>3 DEF ListCommits, ReadFiles, TakeSnapshot, Think, SameRun, SameFindings
    <2>4. CASE RequestLock(s)
      <3>1. job \in [Runs -> Job] /\ pc[s] = "ready" /\ pc' = [pc EXCEPT ![s] = "locking"]
        BY <2>4 DEF RequestLock
      <3>2. PICK k \in Job : /\ job' = [job EXCEPT ![s] = k]
                             /\ SameRun(job[s], k) /\ SameFindings(job[s], k)
        BY <2>4, <3>1, LockShape
      <3>3. CASE r = s
        BY <3>1, <3>2, <3>3
      <3>4. CASE r # s
        BY <3>1, <3>2, <3>4 DEF SameRun, SameFindings
      <3> QED
        BY <3>3, <3>4
    <2> QED
      BY <1>4, <2>1, <2>2, <2>3, <2>4 DEF QuietStep
  <1>5. ASSUME NEW s \in Runs, PostStep(s)
        PROVE  /\ job' = job
               /\ pc'[r] \in {pc[r]} \cup Posting \cup {"answered", "unsubmitted"}
    <2>1. /\ UNCHANGED job
          /\ \E to \in Posting \cup {"answered", "unsubmitted"} : Goto(s, to)
      BY <1>5, PostShape
    <2> QED
      BY <2>1
  <1>6. job'[r] = job[r] => SameRun(job[r], job'[r]) /\ SameFindings(job[r], job'[r])
    BY DEF SameRun, SameFindings
  <1> QED
    BY StepCases, <1>1, <1>2, <1>3, <1>4, <1>5, <1>6

-----------------------------------------------------------------------------
(* The invariant.                                                          *)
LEMMA OwnerHoldsNext ==
  ASSUME Base, OwnerHolds, [Next]_vars
  PROVE  OwnerHolds'
  <1> USE DEF Base, TypeOK, LockTypeOK, OwnerHolds, lockVars
  <1>1. CASE UNCHANGED lockVars
    BY <1>1
  <1>2. ASSUME NEW r \in Runs, LeaveLock(r) \/ DieInLock(r)
        PROVE  OwnerHolds'
    BY <1>2, NoRunAssumption DEF LeaveLock, DieInLock, DropLock
  <1>3. CASE Environment
    BY <1>3 DEF Environment, Push, Quiescent, vars, Cancel, Begin
  <1>4. CASE \E i \in DOMAIN reviews : Dismiss(i)
    BY <1>4 DEF Dismiss
  <1>5. ASSUME NEW r \in Runs, Die(r) \/ Check(r) \/ PostStep(r)
        PROVE  UNCHANGED lockVars \/ LeaveLock(r) \/ DieInLock(r)
    BY <1>5, PostShape DEF Die, Check
  <1>6. ASSUME NEW r \in Runs, EnterSection(r)
        PROVE  OwnerHolds'
    BY <1>6, NoRunAssumption DEF EnterSection, TakeLock, GiveUpWaiting, LockUnavailable, Inside
  <1>7. ASSUME NEW r \in Runs, RequestLock(r)
        PROVE  OwnerHolds'
    BY <1>7 DEF RequestLock, OpenLock
  <1>8. ASSUME NEW r \in Runs,
               \/ ListCommits(r) \/ ReadFiles(r) \/ Skip(r) \/ TakeSnapshot(r)
               \/ ThinkFails(r) \/ Think(r) \/ RefuseUnparsed(r)
        PROVE  UNCHANGED lockVars
    BY <1>8 DEF ListCommits, ReadFiles, Skip, TakeSnapshot, ThinkFails, Think, RefuseUnparsed
  <1> QED
    BY StepCases, <1>1, <1>2, <1>3, <1>4, <1>5, <1>6, <1>7, <1>8 DEF QuietStep

LEMMA DecidedNext ==
  ASSUME Base, Decided, [Next]_vars
  PROVE  Decided'
  <1> SUFFICES ASSUME NEW r \in Runs, pc'[r] \in HasFindings \ {"ready"}
               PROVE  job'[r].parsed /\ Settled(job'[r])
    BY DEF Decided
  <1>1. pc[r] \in HasFindings \ {"ready"} \/ RequestLock(r)
    <2> USE DEF Base, TypeOK, Goto, HasFindings, Section, Posting
    <2>1. CASE Environment
      BY <2>1 DEF Environment, Push, Quiescent, vars, Cancel, Begin
    <2>2. CASE \E i \in DOMAIN reviews : Dismiss(i)
      BY <2>2 DEF Dismiss
    <2>3. ASSUME NEW s \in Runs, Die(s)
          PROVE  pc'[r] \in {pc[r], "dead"}
      BY <2>3 DEF Die
    <2>4. ASSUME NEW s \in Runs, QuietStep(s)
          PROVE  pc[r] \in HasFindings \ {"ready"} \/ RequestLock(r)
      BY <2>4 DEF QuietStep, ListCommits, ReadFiles, Skip, TakeSnapshot, ThinkFails, Think,
                  RefuseUnparsed, RequestLock, EnterSection, Check
    <2>5. ASSUME NEW s \in Runs, PostStep(s)
          PROVE  pc'[r] = pc[r] \/ (r = s /\ pc[r] \in Posting)
      BY <2>5, PostShape
    <2> QED
      BY StepCases, <2>1, <2>2, <2>3, <2>4, <2>5
  <1>2. CASE pc[r] \in HasFindings \ {"ready"}
    <2>1. job'[r] = job[r]
      BY <1>2, RunKeeps DEF HasFindings, Section, Posting, Unthought
    <2> QED
      BY <1>2, <2>1 DEF Decided
  <1>3. CASE RequestLock(r)
    <2>1. job \in [Runs -> Job]
      BY DEF Base, TypeOK
    <2>2. PICK k \in Job : job' = [job EXCEPT ![r] = k] /\ k.parsed /\ Settled(k)
      BY <1>3, <2>1, LockShape
    <2> QED
      BY <2>1, <2>2
  <1> QED
    BY <1>1, <1>2, <1>3

LEMMA QuietMatchNext ==
  ASSUME Base, Decided, Quiet, Match, [Next]_vars
  PROVE  Quiet' /\ Match'
  <1> SUFFICES ASSUME NEW i \in DOMAIN reviews'
               PROVE  LET r == reviews'[i].run
                      IN  /\ pc'[r] \notin BeforeLock \cup {"locking", "checking", "silent", "skipped"}
                          /\ reviews'[i].sha = job'[r].head
                          /\ reviews'[i].state \in {VerdictEventToState[job'[r].event], "DISMISSED"}
                          /\ job'[r].parsed
                          /\ Settled(job'[r])
    BY DEF Quiet, Match
  <1> DEFINE r == reviews'[i].run
  <1>1. CASE i \in DOMAIN reviews
    <2>1. /\ reviews'[i].sha = reviews[i].sha
          /\ r = reviews[i].run
          /\ reviews'[i].state \in {reviews[i].state, "DISMISSED"}
      BY <1>1, LogKeeps
    <2>2. r \in Runs /\ pc[r] \in PC
      <3>1. reviews[i] \in Review
        BY <1>1 DEF Base, TypeOK
      <3>2. r \in Runs
        BY <2>1, <3>1 DEF Review
      <3> QED
        BY <3>2 DEF Base, TypeOK
    <2>3. pc[r] \in Late
      BY <1>1, <2>1, <2>2 DEF Quiet, PC, BeforeLock, Late, Posting
    <2>4. pc'[r] \in Late /\ job'[r] = job[r]
      BY <2>2, <2>3, RunKeeps DEF Late, Unthought, Posting
    <2> QED
      BY <1>1, <2>1, <2>4 DEF Match, Late, Posting, BeforeLock
  <1>2. CASE i \notin DOMAIN reviews
    <2>1. PICK s \in Runs :
            /\ PostStep(s)
            /\ pc[s] \in Posting
            /\ job' = job
            /\ r = s
            /\ reviews'[i].sha = job[s].head
            /\ reviews'[i].state = VerdictEventToState[job[s].event]
      BY <1>2, LogKeeps
    <2>2. pc'[s] \in Late
      BY <2>1, RunKeeps DEF Late
    <2>3. job[s].parsed /\ Settled(job[s])
      BY <2>1 DEF Decided, HasFindings, Section, Posting
    <2> QED
      BY <2>1, <2>2, <2>3 DEF Late, Posting, BeforeLock
  <1> QED
    BY <1>1, <1>2

LEMMA IInvInit == Init => IInv
  BY BaseInit, NoRunAssumption
  DEF Init, IInv, LockInit, OwnerHolds, Decided, HasFindings, Section, Posting, Quiet, Match

LEMMA IInvNext == IInv /\ [Next]_vars => IInv'
  BY BaseNext, OwnerHoldsNext, DecidedNext, QuietMatchNext DEF IInv

LEMMA EventStates ==
  ASSUME NEW found
  PROVE  /\ VerdictEventToState[EventOf(found)] = "APPROVED" => found = {}
         /\ found \cap Blocking # {} => VerdictEventToState[EventOf(found)] = "CHANGES_REQUESTED"
  <1>1. /\ VerdictEventToState["REQUEST_CHANGES"] = "CHANGES_REQUESTED"
        /\ VerdictEventToState["COMMENT"] = "COMMENTED"
    BY DEF VerdictEventToState
  <1> QED
    BY <1>1 DEF EventOf

(***************************************************************************)
(* A verdict is backed by the run that posted it, whatever fails: a review *)
(* whose output was not parsed or that found anything never approves, and  *)
(* one that found a blocker is at the least a comment.                     *)
(***************************************************************************)
THEOREM VerdictsAreBacked == Spec => []VerdictIsBacked
  <1>1. IInv => VerdictIsBacked
    <2> SUFFICES ASSUME IInv, NEW i \in DOMAIN reviews
                 PROVE  LET j == job[reviews[i].run]
                        IN  /\ j.parsed
                            /\ reviews[i].sha = j.head
                            /\ reviews[i].state = "APPROVED" => j.found = {}
                            /\ j.found \cap Blocking # {} =>
                                   \/ reviews[i].state \in {"CHANGES_REQUESTED", "DISMISSED"}
                                   \/ j.undecided /\ reviews[i].state = "COMMENTED"
      BY DEF VerdictIsBacked
    <2> DEFINE j == job[reviews[i].run]
    <2>1. /\ reviews[i].state \in {VerdictEventToState[j.event], "DISMISSED"}
          /\ reviews[i].sha = j.head
          /\ j.parsed
          /\ Settled(j)
      BY DEF IInv, Match
    <2> HIDE DEF j
    <2>2. ASSUME j.event = EventOf(j.found)
          PROVE  /\ reviews[i].state = "APPROVED" => j.found = {}
                 /\ j.found \cap Blocking # {} =>
                        reviews[i].state \in {"CHANGES_REQUESTED", "DISMISSED"}
      BY <2>1, <2>2, EventStates
    <2>3. ASSUME j.undecided /\ j.event = "COMMENT"
          PROVE  reviews[i].state \in {"COMMENTED", "DISMISSED"}
      BY <2>1, <2>3 DEF VerdictEventToState
    <2>4. /\ reviews[i].state = "APPROVED" => j.found = {}
          /\ j.found \cap Blocking # {} =>
                 \/ reviews[i].state \in {"CHANGES_REQUESTED", "DISMISSED"}
                 \/ j.undecided /\ reviews[i].state = "COMMENTED"
      BY <2>1, <2>2, <2>3 DEF Settled
    <2> QED
      BY <2>1, <2>4 DEF j
  <1> QED
    BY IInvInit, IInvNext, <1>1, PTL DEF Spec

-----------------------------------------------------------------------------
(* A finding that was carried over is on the pull request since an earlier *)
(* review, and one of a run that was answered is there in some form.       *)
Reached ==
    /\ \A r \in Runs : pc[r] \in HasFindings => \A f \in job[r].carried : IsShown(f)
    /\ FindingsReachThePullRequest

(* Nothing a review shows is taken away: a dismissal changes its state.    *)
LEMMA ShownStays ==
  ASSUME Base, [Next]_vars, NEW f, IsShown(f)
  PROVE  IsShown(f)'
  <1>1. PICK i \in DOMAIN reviews : \E g \in reviews[i].inline \cup reviews[i].body : Matches(f, g)
    BY DEF IsShown
  <1>2. /\ i \in DOMAIN reviews'
        /\ reviews'[i].inline = reviews[i].inline /\ reviews'[i].body = reviews[i].body
    BY <1>1, LogKeeps
  <1> QED
    BY <1>1, <1>2 DEF IsShown, Matches

LEMMA DroppedStays ==
  ASSUME Base, [Next]_vars, NEW r \in Runs, NEW f, WasDropped(r, f)
  PROVE  WasDropped(r, f)'
  BY LogKeeps DEF WasDropped

(* What is stored: the comments that are not dropped, and the whole text.  *)
LEMMA StoredEntry ==
  ASSUME Base, NEW r \in Runs, NEW inline, NEW body, Store(r, inline, body)
  PROVE  LET n == Len(reviews) + 1
         IN  /\ n \in DOMAIN reviews'
             /\ reviews'[n].run = r
             /\ reviews'[n].inline \subseteq inline
             /\ inline \subseteq reviews'[n].inline \cup reviews'[n].dropped
             /\ reviews'[n].body = body
  <1>1. PICK dropped \in SUBSET inline :
          reviews' = Append(reviews,
            [sha |-> job[r].head, state |-> VerdictEventToState[job[r].event], run |-> r,
             inline |-> inline \ dropped, dropped |-> dropped, body |-> body])
    BY DEF Store
  <1> DEFINE new == [sha |-> job[r].head, state |-> VerdictEventToState[job[r].event], run |-> r,
                     inline |-> inline \ dropped, dropped |-> dropped, body |-> body]
  <1>2. reviews \in Seq(Review) /\ reviews' = Append(reviews, new)
    BY <1>1 DEF Base, TypeOK
  <1>3. /\ new.run = r /\ new.inline = inline \ dropped
        /\ new.dropped = dropped /\ new.body = body
    OBVIOUS
  <1> HIDE DEF new
  <1>4. Len(reviews) + 1 \in DOMAIN reviews' /\ reviews'[Len(reviews) + 1] = new
    BY <1>2
  <1> QED
    BY <1>3, <1>4

(* The three ways to post differ in where they put a finding.              *)
LEMMA AnsweredShows ==
  ASSUME Base, NEW r \in Runs, PostStep(r), pc'[r] = "answered",
         NEW f \in job[r].found \ job[r].carried
  PROVE  IsShown(f)' \/ WasDropped(r, f)'
  <1>1. \E inline, body : Store(r, inline, body) /\ f \in inline \cup body
    <2>1. pc \in [Runs -> PC] /\ f \in Summary(r) \cup job[r].fresh
      BY DEF Base, TypeOK, Summary
    <2>2. CASE PostTogether(r)
      BY <2>1, <2>2 DEF PostTogether, CreateAnswers, Finish, Proceed, Goto
    <2>3. CASE PostVerified(r)
      <3>1. PICK verified \in SUBSET job[r].fresh :
              LET body == Summary(r) \cup (job[r].fresh \ verified)
              IN  \/ CreateAnswers(r, verified, body) /\ Finish(r, "answered")
                  \/ CreateRaises(r, verified, body) /\ Proceed(r, "verdict")
        BY <2>3 DEF PostVerified
      <3>2. CreateAnswers(r, verified, Summary(r) \cup (job[r].fresh \ verified))
        BY <2>1, <3>1 DEF Proceed, Goto
      <3>3. f \in verified \cup (Summary(r) \cup (job[r].fresh \ verified))
        BY <2>1
      <3> QED
        BY <3>2, <3>3 DEF CreateAnswers
    <2>4. CASE SubmitVerdict(r)
      BY <2>1, <2>4 DEF SubmitVerdict, CreateAnswers, Finish, Goto
    <2> QED
      BY <2>2, <2>3, <2>4 DEF PostStep
  <1>2. PICK inline, body : Store(r, inline, body) /\ f \in inline \cup body
    BY <1>1
  <1> DEFINE n == Len(reviews) + 1
  <1>3. /\ n \in DOMAIN reviews' /\ reviews'[n].run = r
        /\ f \in reviews'[n].inline \cup reviews'[n].body \cup reviews'[n].dropped
    BY <1>2, StoredEntry
  <1> HIDE DEF n
  <1>4. Matches(f, f)
    BY DEF Matches
  <1>5. CASE f \in reviews'[n].dropped
    BY <1>3, <1>5 DEF WasDropped
  <1>6. CASE f \in reviews'[n].inline \cup reviews'[n].body
    BY <1>3, <1>4, <1>6 DEF IsShown, Matches
  <1> QED
    BY <1>3, <1>5, <1>6

(* How thinking splits the findings that have a location.                  *)
LEMMA ThoughtSplits ==
  ASSUME Base, NEW r \in Runs, Think(r)
  PROVE  /\ \A f \in job'[r].carried : IsPosted(f)
         /\ DedupCarriedOver => \A f \in job'[r].fresh : ~IsPosted(f)
  <1>1. PICK parsed, listed \in BOOLEAN, found \in SUBSET Findings :
          job' = [job EXCEPT ![r] = Reviewed(job[r], parsed, found, listed)]
    BY DEF Think
  <1>2. job[r] \in Job /\ job'[r] = Reviewed(job[r], parsed, found, listed)
    BY <1>1 DEF Base, TypeOK
  <1> DEFINE anchored == IF listed THEN found \cap Anchored ELSE {}
             carried  == {f \in anchored : DedupCarriedOver /\ IsPosted(f)}
  <1>3. job'[r] = [job[r] EXCEPT !.parsed = parsed, !.found = found, !.carried = carried,
                                 !.fresh = anchored \ carried]
    BY <1>2 DEF Reviewed
  <1>4. /\ \A f \in carried : IsPosted(f)
        /\ DedupCarriedOver => \A f \in anchored \ carried : ~IsPosted(f)
    OBVIOUS
  <1> HIDE DEF anchored, carried
  <1>5. job'[r].carried = carried /\ job'[r].fresh = anchored \ carried
    BY <1>2, <1>3 DEF Job
  <1> QED
    BY <1>4, <1>5

(* What a run takes for carried over is an inline comment at that moment.  *)
LEMMA CarriedIsShown ==
  ASSUME Base, NEW r \in Runs, Think(r), NEW f \in job'[r].carried
  PROVE  IsShown(f)
  BY ThoughtSplits DEF IsPosted, Posted, IsShown

(* A run comes to its findings by thinking.                                *)
LEMMA FindingsFromThink ==
  ASSUME Base, [Next]_vars, NEW r \in Runs, pc'[r] \in HasFindings
  PROVE  pc[r] \in HasFindings \/ Think(r)
  <1> USE DEF Base, TypeOK, Goto, HasFindings, Section, Posting
  <1>1. CASE Environment
    BY <1>1 DEF Environment, Push, Quiescent, vars, Cancel, Begin
  <1>2. CASE \E i \in DOMAIN reviews : Dismiss(i)
    BY <1>2 DEF Dismiss
  <1>3. ASSUME NEW s \in Runs, Die(s)
        PROVE  pc'[r] \in {pc[r], "dead"}
    BY <1>3 DEF Die
  <1>4. ASSUME NEW s \in Runs, QuietStep(s)
        PROVE  pc'[r] \in HasFindings => pc[r] \in HasFindings \/ Think(r)
    BY <1>4 DEF QuietStep, ListCommits, ReadFiles, Skip, TakeSnapshot, ThinkFails, Think, RefuseUnparsed, RequestLock,
                EnterSection, Check
  <1>5. ASSUME NEW s \in Runs, PostStep(s)
        PROVE  pc'[r] = pc[r] \/ (r = s /\ pc[r] \in Posting)
    BY <1>5, PostShape
  <1> QED
    BY StepCases, <1>1, <1>2, <1>3, <1>4, <1>5

LEMMA VerdictFrom ==
  ASSUME Base, [Next]_vars, NEW r \in Runs, pc'[r] = "verdict"
  PROVE  pc[r] \in {"checking"} \cup Posting
  <1> USE DEF Base, TypeOK, Goto, Posting
  <1>1. CASE Environment
    BY <1>1 DEF Environment, Push, Quiescent, vars, Cancel, Begin
  <1>2. CASE \E i \in DOMAIN reviews : Dismiss(i)
    BY <1>2 DEF Dismiss
  <1>3. ASSUME NEW s \in Runs, Die(s) \/ QuietStep(s)
        PROVE  pc[r] \in {"checking"} \cup Posting
    BY <1>3 DEF Die, QuietStep, ListCommits, ReadFiles, Skip, TakeSnapshot, ThinkFails, Think, RefuseUnparsed,
                RequestLock, EnterSection, Check
  <1>4. ASSUME NEW s \in Runs, PostStep(s)
        PROVE  pc'[r] = pc[r] \/ pc[r] \in Posting
    BY <1>4, PostShape
  <1> QED
    BY StepCases, <1>1, <1>2, <1>3, <1>4

LEMMA PostingFrom ==
  ASSUME Base, [Next]_vars, NEW r \in Runs, pc'[r] \in {"posting", "verifying"}
  PROVE  pc[r] \in {"checking", "posting", "verifying"}
  <1> USE DEF Base, TypeOK, Goto, Posting
  <1>1. CASE Environment
    BY <1>1 DEF Environment, Push, Quiescent, vars, Cancel, Begin
  <1>2. CASE \E i \in DOMAIN reviews : Dismiss(i)
    BY <1>2 DEF Dismiss
  <1>3. ASSUME NEW s \in Runs, Die(s) \/ QuietStep(s)
        PROVE  pc[r] \in {"checking", "posting", "verifying"}
    BY <1>3 DEF Die, QuietStep, ListCommits, ReadFiles, Skip, TakeSnapshot, ThinkFails, Think, RefuseUnparsed,
                RequestLock, EnterSection, Check
  <1>4. ASSUME NEW s \in Runs, PostStep(s)
        PROVE  pc[r] \in {"checking", "posting", "verifying"}
    <2>1. CASE PostTogether(s)
      BY <1>4, <2>1 DEF PostTogether, Finish, Proceed
    <2>2. CASE PostVerified(s)
      BY <1>4, <2>2 DEF PostVerified, Finish, Proceed
    <2>3. CASE SubmitVerdict(s)
      BY <1>4, <2>3 DEF SubmitVerdict, Finish
    <2> QED
      BY <1>4, <2>1, <2>2, <2>3 DEF PostStep
  <1> QED
    BY StepCases, <1>1, <1>2, <1>3, <1>4

(* Only posting answers a run.                                             *)
LEMMA AnsweredBy ==
  ASSUME Base, [Next]_vars, NEW r \in Runs, pc'[r] = "answered"
  PROVE  pc[r] = "answered" \/ (PostStep(r) /\ pc[r] \in Posting)
  <1> USE DEF Base, TypeOK, Goto, Posting
  <1>1. CASE Environment
    BY <1>1 DEF Environment, Push, Quiescent, vars, Cancel, Begin
  <1>2. CASE \E i \in DOMAIN reviews : Dismiss(i)
    BY <1>2 DEF Dismiss
  <1>3. ASSUME NEW s \in Runs, Die(s)
        PROVE  pc'[r] \in {pc[r], "dead"}
    BY <1>3 DEF Die
  <1>4. ASSUME NEW s \in Runs, QuietStep(s)
        PROVE  pc[r] = "answered"
    BY <1>4 DEF QuietStep, ListCommits, ReadFiles, Skip, TakeSnapshot, ThinkFails, Think, RefuseUnparsed, RequestLock,
                EnterSection, Check
  <1>5. ASSUME NEW s \in Runs, PostStep(s)
        PROVE  pc'[r] = pc[r] \/ (r = s /\ pc[r] \in Posting)
    BY <1>5, PostShape
  <1> QED
    BY StepCases, <1>1, <1>2, <1>3, <1>4, <1>5

LEMMA ReachedNext ==
  ASSUME IInv, Reached, [Next]_vars
  PROVE  Reached'
  <1>0. Base
    BY DEF IInv
  <1> SUFFICES ASSUME NEW r \in Runs
               PROVE  /\ pc'[r] \in HasFindings => \A f \in job'[r].carried : IsShown(f)'
                      /\ pc'[r] = "answered" =>
                             \A f \in job'[r].found : IsShown(f)' \/ WasDropped(r, f)'
    BY DEF Reached, FindingsReachThePullRequest
  <1>1. pc[r] \in HasFindings \cup {"answered"} =>
            job'[r].carried = job[r].carried /\ job'[r].found = job[r].found
    BY <1>0, RunKeeps DEF HasFindings, Section, Posting, Unthought, SameFindings
  <1>2. pc'[r] \in HasFindings => pc[r] \in HasFindings \/ Think(r)
    BY <1>0, FindingsFromThink
  <1>3. pc'[r] = "answered" => pc[r] = "answered" \/ (PostStep(r) /\ pc[r] \in Posting)
    BY <1>0, AnsweredBy
  <1>4. ASSUME pc'[r] \in HasFindings, NEW f \in job'[r].carried
        PROVE  IsShown(f)'
    <2>1. CASE pc[r] \in HasFindings
      BY <1>0, <1>1, <1>4, <2>1, ShownStays DEF Reached
    <2>2. CASE Think(r)
      BY <1>0, <1>4, <2>2, CarriedIsShown, ShownStays
    <2> QED
      BY <1>2, <1>4, <2>1, <2>2
  <1>5. ASSUME pc'[r] = "answered", NEW f \in job'[r].found
        PROVE  IsShown(f)' \/ WasDropped(r, f)'
    <2>1. CASE pc[r] = "answered"
      <3>1. IsShown(f) \/ WasDropped(r, f)
        BY <1>1, <1>5, <2>1 DEF Reached, FindingsReachThePullRequest
      <3> QED
        BY <1>0, <3>1, ShownStays, DroppedStays
    <2>2. CASE PostStep(r) /\ pc[r] \in Posting
      <3>1. pc[r] \in HasFindings /\ job'[r].found = job[r].found
        BY <1>1, <2>2 DEF HasFindings, Section
      <3>2. CASE f \in job[r].carried
        BY <1>0, <3>1, <3>2, ShownStays DEF Reached
      <3>3. CASE f \notin job[r].carried
        BY <1>0, <1>5, <2>2, <3>1, <3>3, AnsweredShows
      <3> QED
        BY <3>2, <3>3
    <2> QED
      BY <1>3, <1>5, <2>1, <2>2
  <1> QED
    BY <1>4, <1>5

(***************************************************************************)
(* No finding is lost on the way, whatever GitHub refuses and whichever    *)
(* fallback posted: a finding of a run that was answered, or one it was    *)
(* taken for, is on the pull request, unless GitHub dropped its comment.   *)
(***************************************************************************)
THEOREM FindingsReach == Spec => []FindingsReachThePullRequest
  <1>1. Init => Reached
    BY DEF Init, Reached, HasFindings, Section, Posting, FindingsReachThePullRequest
  <1>2. Reached => FindingsReachThePullRequest
    BY DEF Reached
  <1> QED
    BY IInvInit, IInvNext, ReachedNext, <1>1, <1>2, PTL DEF Spec

-----------------------------------------------------------------------------
(* The commit that is named is known before the patches are read, so it is*)
(* never newer than they are, unless the files of an older one were used.  *)
Reading == {"idle", "opening", "opened", "dead"}

CommitRead ==
    \A r \in Runs :
        /\ job[r].head <= head
        /\ pc[r] \notin Reading => job[r].behind \/ job[r].head <= job[r].code

(* Only three steps touch the commits a run holds.                         *)
SameCommits(r) ==
    /\ job'[r].head = job[r].head /\ job'[r].code = job[r].code
    /\ job'[r].behind = job[r].behind
    /\ pc'[r] \notin Reading => pc[r] \notin Reading

LEMMA CommitsKeep ==
  ASSUME Base, [Next]_vars, NEW r \in Runs
  PROVE  \/ SameCommits(r)
         \/ pc'[r] \in Reading /\ job'[r].head \in {job[r].head, head}
         \/ /\ pc[r] = "opened" /\ job'[r].head = job[r].head
            /\ job'[r].behind \/ job'[r].code = head
  <1>0. pc \in [Runs -> PC] /\ job \in [Runs -> Job]
    BY DEF Base, TypeOK
  <1>1. CASE Push \/ Quiescent \/ UNCHANGED vars \/ \E i \in DOMAIN reviews : Dismiss(i)
    BY <1>1 DEF Push, Quiescent, vars, Dismiss, SameCommits
  <1>2. ASSUME NEW s \in Runs, Cancel(s) \/ Die(s)
        PROVE  SameCommits(r)
    BY <1>0, <1>2 DEF Cancel, Die, Goto, Reading, SameCommits
  <1>3. ASSUME NEW s \in Runs, NEW manual \in BOOLEAN, Begin(s, manual)
        PROVE  SameCommits(r) \/ (pc'[r] \in Reading /\ job'[r].head = job[r].head)
    BY <1>0, <1>3 DEF Begin, Goto, Reading, Job, SameCommits
  <1>9. ASSUME NEW s \in Runs, ListCommits(s)
        PROVE  SameCommits(r) \/ (pc'[r] \in Reading /\ job'[r].head = head)
    BY <1>0, <1>9 DEF ListCommits, Goto, Reading, Job, SameCommits
  <1>4. ASSUME NEW s \in Runs, ReadFiles(s)
        PROVE  \/ SameCommits(r)
               \/ /\ pc[r] = "opened" /\ job'[r].head = job[r].head
                  /\ job'[r].behind \/ job'[r].code = head
    BY <1>0, <1>4 DEF ReadFiles, Goto, Reading, Job, SameCommits
  <1>5. ASSUME NEW s \in Runs, TakeSnapshot(s)
        PROVE  SameCommits(r)
    BY <1>0, <1>5 DEF TakeSnapshot, Goto, Reading, Job, SameCommits
  <1>6. ASSUME NEW s \in Runs, Think(s)
        PROVE  SameCommits(r)
    <2>1. PICK parsed, listed \in BOOLEAN, found \in SUBSET Findings :
            job' = [job EXCEPT ![s] = Reviewed(job[s], parsed, found, listed)]
      BY <1>6 DEF Think
    <2>2. SameRun(job[s], Reviewed(job[s], parsed, found, listed))
      BY <1>0, ReviewedShape
    <2> QED
      BY <1>0, <1>6, <2>1, <2>2 DEF Think, Goto, Reading, SameRun, SameCommits
  <1>10. ASSUME NEW s \in Runs, RequestLock(s)
         PROVE  SameCommits(r)
    <2>1. PICK k \in Job : job' = [job EXCEPT ![s] = k] /\ SameRun(job[s], k)
      BY <1>0, <1>10, LockShape
    <2> QED
      BY <1>0, <1>10, <2>1 DEF RequestLock, Goto, Reading, SameRun, SameCommits
  <1>7. ASSUME NEW s \in Runs, Skip(s) \/ ThinkFails(s) \/ RefuseUnparsed(s)
                               \/ EnterSection(s) \/ Check(s)
        PROVE  SameCommits(r)
    BY <1>0, <1>7 DEF Skip, ThinkFails, RefuseUnparsed, EnterSection, Check, Goto, Reading,
                      SameCommits
  <1>8. ASSUME NEW s \in Runs, PostStep(s)
        PROVE  SameCommits(r)
    <2>1. /\ pc[s] \in Posting /\ UNCHANGED job
          /\ \E to \in Posting \cup {"answered", "unsubmitted"} : Goto(s, to)
      BY <1>8, PostShape DEF Base
    <2> QED
      BY <1>0, <2>1 DEF Goto, Posting, Reading, SameCommits
  <1> QED
    BY StepCases, <1>1, <1>2, <1>3, <1>4, <1>5, <1>6, <1>7, <1>8, <1>9, <1>10
    DEF Environment, QuietStep

LEMMA CommitReadNext ==
  ASSUME Base, CommitRead, [Next]_vars
  PROVE  CommitRead'
  <1> SUFFICES ASSUME NEW r \in Runs
               PROVE  /\ job'[r].head <= head'
                      /\ pc'[r] \notin Reading => job'[r].behind \/ job'[r].head <= job'[r].code
    BY DEF CommitRead
  <1>1. /\ head \in Nat /\ head' \in Nat /\ job[r].head \in Nat
        /\ head <= head'
    <2>1. head \in Nat /\ job[r].head \in Nat
      BY MaxCommitAssumption DEF Base, TypeOK, Commit, Job
    <2>2. head' \in {head, head + 1}
      <3>1. \A s \in Runs : PostStep(s) => UNCHANGED head
        BY PostShape DEF Base
      <3> QED
        BY StepCases, <3>1
        DEF Environment, Push, Quiescent, vars, Cancel, Begin, Dismiss, Die, QuietStep, ListCommits,
            ReadFiles, Skip, TakeSnapshot, ThinkFails, Think, RefuseUnparsed, RequestLock,
            EnterSection, Check
    <2> QED
      BY <2>1, <2>2
  <1>2. CASE SameCommits(r)
    BY <1>1, <1>2 DEF CommitRead, SameCommits
  <1>3. CASE pc'[r] \in Reading /\ job'[r].head \in {job[r].head, head}
    BY <1>1, <1>3 DEF CommitRead
  <1>4. CASE /\ pc[r] = "opened" /\ job'[r].head = job[r].head
             /\ job'[r].behind \/ job'[r].code = head
    BY <1>1, <1>4 DEF CommitRead
  <1> QED
    BY CommitsKeep, <1>2, <1>3, <1>4

LEMMA NamedCommitNext ==
  ASSUME IInv, CommitRead, NamedCommitWasRead, [Next]_vars
  PROVE  NamedCommitWasRead'
  <1> SUFFICES ASSUME NEW i \in DOMAIN reviews'
               PROVE  \/ job'[reviews'[i].run].behind
                      \/ reviews'[i].sha <= job'[reviews'[i].run].code
    BY DEF NamedCommitWasRead
  <1>1. CASE i \in DOMAIN reviews
    <2> DEFINE s == reviews[i].run
    <2>1. s \in Runs
      <3>1. reviews[i] \in Review
        BY <1>1 DEF IInv, Base, TypeOK
      <3> QED
        BY <3>1 DEF Review
    <2>2. pc[s] \notin Unthought \cup {"ready"}
      BY <1>1 DEF IInv, Quiet, Unthought, BeforeLock
    <2>3. job'[s] = job[s]
      BY <2>1, <2>2, RunKeeps DEF IInv
    <2>4. reviews'[i].sha = reviews[i].sha /\ reviews'[i].run = s
      BY <1>1, LogKeeps DEF IInv
    <2> QED
      BY <1>1, <2>3, <2>4 DEF NamedCommitWasRead
  <1>2. CASE i \notin DOMAIN reviews
    <2>1. PICK s \in Runs : /\ pc[s] \in Posting /\ job' = job
                            /\ reviews'[i].run = s /\ reviews'[i].sha = job[s].head
      BY <1>2, LogKeeps DEF IInv
    <2> QED
      BY <2>1 DEF CommitRead, Posting, Reading
  <1> QED
    BY <1>1, <1>2

(***************************************************************************)
(* Whatever is pushed while a run starts, its review names no commit newer *)
(* than the patches it was made of, unless GitHub omitted one of them and  *)
(* its file was taken from the pull request as fetched before.             *)
(***************************************************************************)
THEOREM NamedCommitsAreRead == Spec => []NamedCommitWasRead
  <1> DEFINE CInv == IInv /\ CommitRead /\ NamedCommitWasRead
  <1>1. Init => CInv
    BY IInvInit DEF Init, NoJob, CommitRead, Reading, NamedCommitWasRead
  <1>2. CInv /\ [Next]_vars => CInv'
    BY IInvNext, CommitReadNext, NamedCommitNext DEF IInv
  <1> QED
    BY <1>1, <1>2, PTL DEF Spec

-----------------------------------------------------------------------------
(* Inline comments are new to the pull request when they are chosen, and   *)
(* posted by one attempt: what a run knows of its snapshot it never posts  *)
(* again, and only an attempt that stored nothing is followed by another   *)
(* one with comments.                                                      *)
SnapBound == \A r \in Runs : job[r].snap.id <= Len(reviews)

Overlaps(r, i) == job[r].snap.armed => i > job[r].snap.id

FreshIsNew ==
    \A r \in Runs : pc[r] \in HasFindings /\ DedupCarriedOver =>
        \A i \in DOMAIN reviews :
            reviews[i].inline \cap job[r].fresh # {} => Overlaps(r, i)

Unposted ==
    \A r \in Runs : pc[r] \in {"posting", "verifying"} =>
        \A i \in DOMAIN reviews : reviews[i].run # r

InlineInv == SnapBound /\ FreshIsNew /\ Unposted

LEMMA PostInline ==
  ASSUME Base, NEW r \in Runs, PostStep(r), ~UNCHANGED reviews
  PROVE  /\ \E inline \in SUBSET job[r].fresh : \E body :
               Store(r, inline, body) /\ (pc[r] = "verdict" => inline = {})
         /\ pc'[r] \notin {"posting", "verifying"}
  <1>0. pc \in [Runs -> PC]
    BY DEF Base, TypeOK
  <1>1. CASE PostTogether(r)
    BY <1>0, <1>1 DEF PostTogether, CreateAnswers, CreateRaises, Finish, Proceed, Goto
  <1>2. CASE PostVerified(r)
    <2>1. PICK verified \in SUBSET job[r].fresh :
            LET body == Summary(r) \cup (job[r].fresh \ verified)
            IN  \/ CreateAnswers(r, verified, body) /\ Finish(r, "answered")
                \/ CreateRaises(r, verified, body) /\ Proceed(r, "verdict")
      BY <1>2 DEF PostVerified
    <2>2. pc[r] = "verifying"
      BY <1>2 DEF PostVerified
    <2> QED
      BY <1>0, <2>1, <2>2 DEF CreateAnswers, CreateRaises, Finish, Proceed, Goto
  <1>3. CASE SubmitVerdict(r)
    BY <1>0, <1>3 DEF SubmitVerdict, CreateAnswers, CreateRaises, Finish, Goto
  <1> QED
    BY <1>1, <1>2, <1>3 DEF PostStep

(* The entry a run adds.                                                   *)
LEMMA NewEntry ==
  ASSUME Base, [Next]_vars, NEW j \in DOMAIN reviews' \ DOMAIN reviews
  PROVE  \E r \in Runs :
            /\ pc[r] \in Posting
            /\ job' = job
            /\ reviews'[j].run = r
            /\ j = Len(reviews) + 1
            /\ reviews'[j].inline \subseteq job[r].fresh
            /\ pc[r] = "verdict" => reviews'[j].inline = {}
            /\ pc'[r] \notin {"posting", "verifying"}
  <1>1. PICK r \in Runs : /\ PostStep(r) /\ pc[r] \in Posting /\ job' = job
                          /\ reviews'[j].run = r /\ j = Len(reviews) + 1
    BY LogKeeps
  <1>2. ~UNCHANGED reviews
    OBVIOUS
  <1>3. PICK inline \in SUBSET job[r].fresh :
          \E body : Store(r, inline, body) /\ (pc[r] = "verdict" => inline = {})
    BY <1>1, <1>2, PostInline
  <1>4. reviews'[j].inline \subseteq inline
    BY <1>1, <1>3, StoredEntry
  <1> QED
    BY <1>1, <1>2, <1>3, <1>4, PostInline

(* The snapshot of a run is taken once.                                    *)
LEMMA SnapKeeps ==
  ASSUME Base, [Next]_vars, NEW r \in Runs
  PROVE  job'[r].snap = job[r].snap \/ TakeSnapshot(r)
  <1>0. job \in [Runs -> Job]
    BY DEF Base, TypeOK
  <1>1. CASE Push \/ Quiescent \/ UNCHANGED vars \/ \E i \in DOMAIN reviews : Dismiss(i)
    BY <1>1 DEF Push, Quiescent, vars, Dismiss
  <1>2. ASSUME NEW s \in Runs, Cancel(s) \/ Die(s) \/ PostStep(s)
        PROVE  job' = job
    BY <1>2, PostShape DEF Base, Cancel, Die
  <1>3. ASSUME NEW s \in Runs, NEW manual \in BOOLEAN, Begin(s, manual)
        PROVE  job'[r].snap = job[r].snap
    BY <1>0, <1>3 DEF Begin, Job
  <1>4. ASSUME NEW s \in Runs, ListCommits(s) \/ ReadFiles(s)
        PROVE  job'[r].snap = job[r].snap
    BY <1>0, <1>4 DEF ListCommits, ReadFiles, Job
  <1>5. ASSUME NEW s \in Runs, TakeSnapshot(s)
        PROVE  job'[r].snap = job[r].snap \/ TakeSnapshot(r)
    BY <1>0, <1>5 DEF TakeSnapshot, Job
  <1>6. ASSUME NEW s \in Runs, Think(s)
        PROVE  job'[r].snap = job[r].snap
    <2>1. PICK parsed, listed \in BOOLEAN, found \in SUBSET Findings :
            job' = [job EXCEPT ![s] = Reviewed(job[s], parsed, found, listed)]
      BY <1>6 DEF Think
    <2>2. SameRun(job[s], Reviewed(job[s], parsed, found, listed))
      BY <1>0, ReviewedShape
    <2> QED
      BY <1>0, <2>1, <2>2 DEF SameRun
  <1>7. ASSUME NEW s \in Runs, RequestLock(s)
        PROVE  job'[r].snap = job[r].snap
    <2>1. PICK k \in Job : job' = [job EXCEPT ![s] = k] /\ SameRun(job[s], k)
      BY <1>0, <1>7, LockShape
    <2> QED
      BY <1>0, <2>1 DEF SameRun
  <1>8. ASSUME NEW s \in Runs, Skip(s) \/ ThinkFails(s) \/ RefuseUnparsed(s)
                               \/ EnterSection(s) \/ Check(s)
        PROVE  job' = job
    BY <1>8 DEF Skip, ThinkFails, RefuseUnparsed, EnterSection, Check
  <1> QED
    BY StepCases, <1>1, <1>2, <1>3, <1>4, <1>5, <1>6, <1>7, <1>8 DEF Environment, QuietStep

LEMMA SnapBoundNext ==
  ASSUME Base, SnapBound, [Next]_vars
  PROVE  SnapBound'
  <1> SUFFICES ASSUME NEW r \in Runs PROVE job'[r].snap.id <= Len(reviews')
    BY DEF SnapBound
  <1>1. reviews \in Seq(Review) /\ reviews' \in Seq(Review) /\ Len(reviews) <= Len(reviews')
    <2>1. reviews \in Seq(Review) /\ reviews' \in Seq(Review)
      BY BaseNext DEF Base, TypeOK
    <2>2. \A i \in 1..Len(reviews) : i \in 1..Len(reviews')
      BY <2>1, LogKeeps
    <2> QED
      BY <2>1, <2>2
  <1>2. job[r].snap.id \in Nat
    BY DEF Base, TypeOK, Job, Snapshot
  <1>3. CASE job'[r].snap = job[r].snap
    BY <1>1, <1>2, <1>3 DEF SnapBound
  <1>4. CASE TakeSnapshot(r)
    <2>1. PICK standing \in StandingVerdicts :
            job' = [job EXCEPT ![r].snap = SnapshotOf(standing)]
      BY <1>4 DEF TakeSnapshot
    <2>2. standing.id \in 0..Len(reviews)
      <3>1. CASE standing = Unreadable
        BY <1>1, <3>1 DEF Unreadable, NoVerdict
      <3>2. CASE standing \in {VerdictAt(i) : i \in LatestLive}
        BY <1>1, <3>2 DEF VerdictAt, NoVerdict, LatestLive, Live
      <3> QED
        BY <3>1, <3>2 DEF StandingVerdicts
    <2>3. job'[r].snap = SnapshotOf(standing)
      BY <2>1 DEF Base, TypeOK, Job
    <2>4. job'[r].snap.id \in 0..Len(reviews)
      BY <1>1, <2>2, <2>3 DEF SnapshotOf, SnapshotUnset
    <2> QED
      BY <1>1, <2>4
  <1> QED
    BY SnapKeeps, <1>3, <1>4

(* What a run is about to post inline is on the pull request nowhere.      *)
LEMMA ThinkIsFresh ==
  ASSUME Base, NEW r \in Runs, Think(r), DedupCarriedOver, NEW i \in DOMAIN reviews
  PROVE  reviews[i].inline \cap job'[r].fresh = {}
  <1> SUFFICES ASSUME NEW f \in reviews[i].inline, f \in job'[r].fresh
               PROVE  FALSE
    OBVIOUS
  <1>1. ~IsPosted(f)
    BY ThoughtSplits
  <1>2. f \in Posted /\ Matches(f, f)
    BY DEF Posted, Matches
  <1> QED
    BY <1>1, <1>2 DEF IsPosted

LEMMA InlineInvNext ==
  ASSUME IInv, InlineInv, [Next]_vars
  PROVE  InlineInv'
  <1>0. Base /\ Quiet /\ pc \in [Runs -> PC] /\ reviews \in Seq(Review)
    BY DEF IInv, Base, TypeOK
  <1>1. SnapBound'
    BY <1>0, SnapBoundNext DEF InlineInv
  <1>2. ASSUME NEW r \in Runs, pc'[r] \in HasFindings, DedupCarriedOver,
               NEW i \in DOMAIN reviews', reviews'[i].inline \cap job'[r].fresh # {}
        PROVE  Overlaps(r, i)'
    <2>1. CASE i \notin DOMAIN reviews
      <3>1. i = Len(reviews) + 1 /\ job' = job
        BY <1>0, <2>1, NewEntry
      <3>2. job[r].snap.id <= Len(reviews) /\ job[r].snap.id \in Nat
        BY <1>0 DEF InlineInv, SnapBound, Base, TypeOK, Job, Snapshot
      <3> QED
        BY <1>0, <3>1, <3>2 DEF Overlaps
    <2>2. CASE i \in DOMAIN reviews /\ pc[r] \in HasFindings
      <3>1. job'[r].fresh = job[r].fresh /\ job'[r].snap = job[r].snap
        BY <1>0, <2>2, RunKeeps
        DEF HasFindings, Section, Posting, Unthought, SameRun, SameFindings
      <3>2. reviews'[i].inline = reviews[i].inline
        BY <1>0, <2>2, LogKeeps
      <3> QED
        BY <1>2, <2>2, <3>1, <3>2 DEF InlineInv, FreshIsNew, Overlaps
    <2>3. CASE i \in DOMAIN reviews /\ Think(r)
      <3>1. reviews'[i].inline = reviews[i].inline
        BY <1>0, <2>3, LogKeeps
      <3> QED
        BY <1>0, <1>2, <2>3, <3>1, ThinkIsFresh
    <2> QED
      BY <1>0, <1>2, <2>1, <2>2, <2>3, FindingsFromThink
  <1>3. ASSUME NEW r \in Runs, pc'[r] \in {"posting", "verifying"}, NEW i \in DOMAIN reviews'
        PROVE  reviews'[i].run # r
    <2>1. CASE i \notin DOMAIN reviews
      BY <1>0, <1>3, <2>1, NewEntry
    <2>2. CASE i \in DOMAIN reviews
      <3>1. pc[r] \in {"checking", "posting", "verifying"}
        BY <1>0, <1>3, PostingFrom
      <3> QED
        BY <1>0, <2>2, <3>1, LogKeeps DEF InlineInv, Unposted, Quiet
    <2> QED
      BY <2>1, <2>2
  <1> QED
    BY <1>1, <1>2, <1>3 DEF InlineInv, FreshIsNew, Unposted

LEMMA InlineOnceNext ==
  ASSUME IInv, InlineInv, InlineOnce, [Next]_vars
  PROVE  InlineOnce'
  <1> SUFFICES ASSUME DedupCarriedOver, NEW i \in DOMAIN reviews', NEW j \in DOMAIN reviews',
                      i < j, reviews'[i].inline \cap reviews'[j].inline # {}
               PROVE  reviews'[i].run # reviews'[j].run /\ Overlaps(reviews[j].run, i)'
    BY DEF InlineOnce, Overlaps
  <1>0. Base /\ Quiet /\ reviews \in Seq(Review)
    BY DEF IInv, Base, TypeOK
  <1>1. CASE j \in DOMAIN reviews
    <2> DEFINE r == reviews[j].run
    <2>1. r \in Runs
      <3>1. reviews[j] \in Review
        BY <1>0, <1>1
      <3> QED
        BY <3>1 DEF Review
    <2>2. job'[r] = job[r]
      <3>1. pc[r] \notin Unthought \cup {"ready"}
        BY <1>0, <1>1 DEF Quiet, Unthought, BeforeLock
      <3> QED
        BY <1>0, <2>1, <3>1, RunKeeps
    <2>3. i \in DOMAIN reviews
      <3>1. CASE i \notin DOMAIN reviews
        BY <1>0, <1>1, <3>1, LogKeeps
      <3> QED
        BY <3>1
    <2>4. /\ reviews'[j].run = r /\ reviews'[i].run = reviews[i].run
          /\ reviews'[j].inline = reviews[j].inline /\ reviews'[i].inline = reviews[i].inline
      BY <1>0, <1>1, <2>3, LogKeeps
    <2> QED
      BY <1>1, <2>2, <2>3, <2>4 DEF InlineOnce, Overlaps
  <1>2. CASE j \notin DOMAIN reviews
    <2>1. PICK r \in Runs :
            /\ pc[r] \in Posting
            /\ job' = job
            /\ reviews'[j].run = r
            /\ j = Len(reviews) + 1
            /\ reviews'[j].inline \subseteq job[r].fresh
            /\ pc[r] = "verdict" => reviews'[j].inline = {}
      BY <1>0, <1>2, NewEntry
    <2>2. pc[r] \in {"posting", "verifying"} /\ pc[r] \in HasFindings
      BY <2>1 DEF Posting, HasFindings, Section
    <2>3. i \in DOMAIN reviews
      <3>1. CASE i \notin DOMAIN reviews
        BY <1>0, <2>1, <3>1, NewEntry
      <3> QED
        BY <3>1
    <2>4. reviews'[i].run = reviews[i].run /\ reviews'[i].inline = reviews[i].inline
      BY <1>0, <2>3, LogKeeps
    <2>5. reviews[i].inline \cap job[r].fresh # {}
      BY <2>1, <2>4
    <2> QED
      BY <2>1, <2>2, <2>3, <2>4, <2>5 DEF InlineInv, FreshIsNew, Unposted, Overlaps
  <1> QED
    BY <1>1, <1>2

(***************************************************************************)
(* Findings do not pile up, whatever answers are lost: a second inline     *)
(* comment on a finding comes from a run that overlapped with the first.   *)
(***************************************************************************)
THEOREM InlinePostedOnce == Spec => []InlineOnce
  <1> DEFINE Inv == IInv /\ InlineInv /\ InlineOnce
  <1>1. Init => Inv
    BY IInvInit
    DEF Init, InlineInv, SnapBound, FreshIsNew, Unposted, HasFindings, Section, Posting,
        InlineOnce, NoJob, SnapshotUnset
  <1>2. Inv /\ [Next]_vars => Inv'
    BY IInvNext, InlineInvNext, InlineOnceNext
  <1> QED
    BY <1>1, <1>2, PTL DEF Spec

-----------------------------------------------------------------------------
(* The section is exclusive when the lock works: nobody enters it unlocked.*)
LockWorks == "timeout" \notin Faults /\ "unavailable" \notin Faults
Locked == \A r \in Runs : stage[r] # "unlocked"

LEMMA LockedNext ==
  ASSUME LockWorks, IInv, Locked, [Next]_vars
  PROVE  Locked'
  <1> USE DEF IInv, Base, TypeOK, LockTypeOK, lockVars
  <1>1. CASE UNCHANGED lockVars
    BY <1>1 DEF Locked
  <1>2. ASSUME NEW r \in Runs, LeaveLock(r) \/ DieInLock(r)
        PROVE  Locked'
    BY <1>2 DEF Locked, LeaveLock, DieInLock, DropLock
  <1>3. Environment \/ (\E i \in DOMAIN reviews : Dismiss(i)) => UNCHANGED lockVars
    BY DEF Environment, Push, Quiescent, vars, Cancel, Begin, Dismiss
  <1>4. ASSUME NEW r \in Runs, Die(r) \/ Check(r) \/ PostStep(r)
        PROVE  UNCHANGED lockVars \/ LeaveLock(r) \/ DieInLock(r)
    BY <1>4, PostShape DEF Die, Check
  <1>5. ASSUME NEW r \in Runs, EnterSection(r) \/ RequestLock(r)
        PROVE  Locked'
    BY <1>5 DEF Locked, LockWorks, EnterSection, TakeLock, GiveUpWaiting, LockUnavailable,
                RequestLock, OpenLock
  <1>6. ASSUME NEW r \in Runs,
               \/ ListCommits(r) \/ ReadFiles(r) \/ Skip(r) \/ TakeSnapshot(r)
               \/ ThinkFails(r) \/ Think(r) \/ RefuseUnparsed(r)
        PROVE  UNCHANGED lockVars
    BY <1>6 DEF ListCommits, ReadFiles, Skip, TakeSnapshot, ThinkFails, Think, RefuseUnparsed
  <1> QED
    BY StepCases, <1>1, <1>2, <1>3, <1>4, <1>5, <1>6 DEF QuietStep

LEMMA LockedExcludes == IInv /\ Locked => OneInSection
  <1> SUFFICES ASSUME IInv, Locked, NEW r \in Runs, NEW s \in Runs,
                      pc[r] \in Section, pc[s] \in Section
               PROVE  r = s
    BY DEF OneInSection, Section, Posting
  <1>1. stage[r] = "held" /\ stage[s] = "held"
    BY DEF IInv, Base, Coupling, Inside, Locked
  <1> QED
    BY <1>1 DEF IInv, OwnerHolds

(***************************************************************************)
(* Mutual exclusion of the section, when the lock works and nobody waits   *)
(* past the deadline.                                                      *)
(***************************************************************************)
THEOREM SectionIsExclusive ==
  ASSUME LockWorks
  PROVE  Spec => []OneInSection
  <1>1. Init => Locked
    BY DEF Init, LockInit, Locked
  <1>2. IInv /\ Locked /\ [Next]_vars => Locked'
    BY LockedNext
  <1> QED
    BY IInvInit, IInvNext, <1>1, <1>2, LockedExcludes, PTL DEF Spec

-----------------------------------------------------------------------------
(* Silence.                                                                *)
LEMMA EventsDiffer ==
  \A d, e \in Event : VerdictEventToState[d] = VerdictEventToState[e] => d = e
  BY DEF Event, VerdictEventToState

(* What a run that goes silent has just read.                              *)
LEMMA SilentRead ==
  ASSUME IInv, NEW r \in Runs, pc[r] = "checking",
         NEW standing \in StandingVerdicts, StaysSilent(r, standing)
  PROVE  \E i \in DOMAIN reviews : Answering(r, i)
  <1>0. /\ job[r] \in Job /\ job[r].head \in Commit
        /\ job[r].snap.id \in Nat
    BY DEF IInv, Base, TypeOK, Begun, Job, Snapshot
  <1>1. VerdictEventToState[job[r].event] \in State \ {"DISMISSED"}
    BY <1>0, StateType DEF Job
  <1>2. standing.sha = job[r].head \/ standing.state = VerdictEventToState[job[r].event]
    BY DEF StaysSilent, AnsweredByAnother, NothingNew
  <1>3. PICK i \in DOMAIN reviews :
          /\ i \in Nat \ {0}
          /\ standing.id = i
          /\ standing.sha = reviews[i].sha
          /\ standing.state = reviews[i].state
    <2>1. standing # Unreadable /\ standing # NoVerdict
      BY <1>0, <1>1, <1>2 DEF Unreadable, NoVerdict, Commit, State
    <2>2. PICK i \in LatestLive : standing = VerdictAt(i)
      BY <2>1 DEF StandingVerdicts
    <2>3. i # 0
      BY <2>1, <2>2 DEF VerdictAt
    <2>4. i \in DOMAIN reviews
      BY <2>3 DEF LatestLive, Live
    <2>5. i \in Nat \ {0}
      BY <2>4 DEF IInv, Base, TypeOK
    <2> QED
      BY <2>2, <2>3, <2>4, <2>5 DEF VerdictAt
  <1>4. reviews[i].run # r
    BY DEF IInv, Quiet
  <1>5. CASE AnsweredByAnother(r, standing)
    <2>1. /\ standing.sha = job[r].head /\ job[r].snap.armed
          /\ VerdictIsNewer(standing, job[r].snap)
      BY <1>5 DEF AnsweredByAnother
    <2>2. i > job[r].snap.id
      <3>1. CASE job[r].snap.id = 0
        BY <1>3, <3>1
      <3>2. CASE job[r].snap.id # 0
        BY <1>3, <2>1, <3>2 DEF VerdictIsNewer
      <3> QED
        BY <3>1, <3>2
    <2>3. reviews[i].sha = job[r].head
      BY <1>3, <2>1
    <2> QED
      BY <1>4, <2>1, <2>2, <2>3 DEF Answering
  <1>6. CASE ~job[r].manual /\ standing.sha = job[r].head
    BY <1>3, <1>4, <1>6 DEF Answering
  <1>7. CASE /\ ~job[r].manual /\ job[r].fresh = {}
             /\ standing.state = VerdictEventToState[job[r].event]
    <2> DEFINE s == reviews[i].run
    <2>1. s \in Runs
      <3>1. reviews[i] \in Review
        BY DEF IInv, Base, TypeOK
      <3> QED
        BY <3>1 DEF Review
    <2>2. job[s].event \in Event /\ job[r].event \in Event
      BY <1>0, <2>1 DEF IInv, Base, TypeOK, Job
    <2>3. VerdictEventToState[job[s].event] = VerdictEventToState[job[r].event]
      BY <1>1, <1>3, <1>7 DEF IInv, Match
    <2>4. job[s].event = job[r].event
      BY <2>2, <2>3, EventsDiffer
    <2> QED
      BY <1>4, <1>7, <2>4 DEF Answering
  <1> QED
    BY <1>5, <1>6, <1>7 DEF StaysSilent, NothingNew

(***************************************************************************)
(* Nobody is silenced without evidence, whatever fails: not by a read that *)
(* fails, nor by a lock that does not hold.                                *)
(***************************************************************************)
THEOREM SilenceIsAnswered == Spec => []SilenceHasAnAnswer
  <1>1. Init => SilenceHasAnAnswer
    BY DEF Init, SilenceHasAnAnswer
  <1>2. IInv /\ SilenceHasAnAnswer /\ [Next]_vars => SilenceHasAnAnswer'
    <2> SUFFICES ASSUME IInv, SilenceHasAnAnswer, [Next]_vars,
                        NEW r \in Runs, pc'[r] = "silent"
                 PROVE  (\E i \in DOMAIN reviews : Answering(r, i))'
      BY DEF SilenceHasAnAnswer
    <2>1. pc[r] = "silent" \/ Check(r)
      BY RunKeeps DEF IInv
    <2>2. PICK i \in DOMAIN reviews : Answering(r, i)
      <3>1. CASE pc[r] = "silent"
        BY <3>1 DEF SilenceHasAnAnswer
      <3>2. CASE Check(r)
        <4>1. pc[r] = "checking" /\ pc \in [Runs -> PC]
          BY <3>2 DEF Check, IInv, Base, TypeOK
        <4>2. PICK standing \in StandingVerdicts :
                IF StaysSilent(r, standing)
                THEN Goto(r, "silent") /\ LeaveLock(r)
                ELSE /\ Goto(r, IF job[r].fresh # {} THEN "posting" ELSE "verdict")
                     /\ UNCHANGED lockVars
          BY <3>2 DEF Check
        <4>3. StaysSilent(r, standing)
          BY <4>1, <4>2 DEF Goto
        <4> QED
          BY <4>1, <4>3, SilentRead
      <3> QED
        BY <2>1, <3>1, <3>2
    <2>3. pc[r] \notin Unthought \cup {"ready"}
      BY <2>1 DEF Check, Unthought
    <2>4. job'[r] = job[r]
      BY <2>3, RunKeeps DEF IInv
    <2> DEFINE s == reviews[i].run
    <2>5. s \in Runs /\ pc[s] \in PC
      <3>1. reviews[i] \in Review
        BY DEF IInv, Base, TypeOK
      <3>2. s \in Runs
        BY <3>1 DEF Review
      <3> QED
        BY <3>2 DEF IInv, Base, TypeOK
    <2>6. job'[s] = job[s]
      <3>1. pc[s] \notin Unthought \cup {"ready"}
        BY <2>5 DEF IInv, Quiet, Unthought, BeforeLock
      <3> QED
        BY <2>5, <3>1, RunKeeps DEF IInv
    <2>7. i \in DOMAIN reviews' /\ reviews'[i].sha = reviews[i].sha /\ reviews'[i].run = s
      BY LogKeeps DEF IInv
    <2> QED
      BY <2>2, <2>4, <2>6, <2>7 DEF Answering
  <1> QED
    BY IInvInit, IInvNext, <1>1, <1>2, PTL DEF Spec

-----------------------------------------------------------------------------
(* Repetition.  A snapshot without a review names no commit, and a run that*)
(* has checked and means to post knows of every live review of its commit, *)
(* or another commit's review hides it.                                    *)
SnapShape == \A r \in Runs : job[r].snap.id = 0 => job[r].snap.sha = 0

Rival(r, i) ==
    /\ reviews[i].run # r
    /\ reviews[i].sha = job[r].head
    /\ reviews[i].state # "DISMISSED"

Excused(r, i) ==
    \/ \E k \in DOMAIN reviews : i < k /\ reviews[k].sha # job[r].head
    \/ job[r].manual /\ KnewOf(r, i)

SectionFree ==
    \A r \in Runs : pc[r] \in Posting => \A i \in DOMAIN reviews : Rival(r, i) => Excused(r, i)

LEMMA SnapShapeNext ==
  ASSUME IInv, SnapShape, [Next]_vars
  PROVE  SnapShape'
  <1> SUFFICES ASSUME NEW r \in Runs
               PROVE  job'[r].snap.id = 0 => job'[r].snap.sha = 0
    BY DEF SnapShape
  <1>1. CASE job'[r].snap = job[r].snap
    BY <1>1 DEF SnapShape
  <1>2. CASE TakeSnapshot(r)
    <2>1. PICK standing \in StandingVerdicts :
            job' = [job EXCEPT ![r].snap = SnapshotOf(standing)]
      BY <1>2 DEF TakeSnapshot
    <2>2. SnapshotOf(standing).id = 0 => SnapshotOf(standing).sha = 0
      <3>1. CASE standing = Unreadable
        BY <3>1 DEF SnapshotOf, SnapshotUnset, Unreadable, NoVerdict
      <3>2. CASE standing \in {VerdictAt(i) : i \in LatestLive}
        <4>1. PICK i \in LatestLive : standing = VerdictAt(i)
          BY <3>2
        <4>2. i = 0 \/ standing.id # 0
          BY <4>1 DEF VerdictAt
        <4>3. i = 0 => SnapshotOf(standing).sha = 0
          BY <4>1 DEF SnapshotOf, SnapshotUnset, VerdictAt, NoVerdict
        <4>4. i # 0 => SnapshotOf(standing).id # 0
          BY <4>1 DEF SnapshotOf, VerdictAt
        <4> QED
          BY <4>3, <4>4
      <3> QED
        BY <3>1, <3>2 DEF StandingVerdicts
    <2>3. job'[r].snap = SnapshotOf(standing)
      BY <2>1 DEF IInv, Base, TypeOK, Job
    <2> QED
      BY <2>2, <2>3
  <1> QED
    BY SnapKeeps, <1>1, <1>2 DEF IInv

(* The check itself: a run that goes on to post is excused.                *)
LEMMA CheckExcuses ==
  ASSUME IInv, SnapShape, "read" \notin Faults, NEW r \in Runs,
         NEW standing \in StandingVerdicts, ~StaysSilent(r, standing),
         NEW i \in DOMAIN reviews, Rival(r, i), pc[r] = "checking"
  PROVE  Excused(r, i)
  <1>1. DOMAIN reviews \subseteq Nat \ {0}
    BY DEF IInv, Base, TypeOK
  <1>2. PICK m \in LatestLive : standing = VerdictAt(m)
    BY DEF StandingVerdicts
  <1>3. /\ m \in DOMAIN reviews /\ i <= m
        /\ standing.id = m /\ standing.sha = reviews[m].sha
    <2>1. i \in Live
      BY DEF Live, Rival
    <2>2. m \in Live /\ i <= m
      BY <2>1 DEF LatestLive
    <2> QED
      BY <1>1, <1>2, <2>2 DEF Live, VerdictAt
  <1>4. CASE reviews[m].sha # job[r].head
    <2>1. m # i
      BY <1>4 DEF Rival
    <2>2. i < m
      BY <1>1, <1>3, <2>1
    <2> QED
      BY <1>3, <1>4, <2>2 DEF Excused
  <1>5. CASE reviews[m].sha = job[r].head
    <2>1. job[r].manual
      BY <1>3, <1>5 DEF StaysSilent, NothingNew
    <2>2. ~job[r].snap.armed \/ ~VerdictIsNewer(standing, job[r].snap)
      BY <1>3, <1>5 DEF StaysSilent, AnsweredByAnother
    <2>3. ASSUME ~VerdictIsNewer(standing, job[r].snap)
          PROVE  i <= job[r].snap.id
      <3>1. job[r].head # 0 /\ job[r].snap.id \in Nat
        <4>1. job[r].head \in Commit
          BY DEF IInv, Base, Begun
        <4>2. job[r].snap.id \in Nat
          BY DEF IInv, Base, TypeOK, Job, Snapshot
        <4> QED
          BY <4>1, <4>2 DEF Commit
      <3>2. job[r].snap.id # 0
        BY <1>1, <1>3, <1>5, <2>3, <3>1 DEF VerdictIsNewer, SnapShape
      <3>3. ~(m > job[r].snap.id)
        BY <1>1, <1>3, <2>3, <3>2 DEF VerdictIsNewer
      <3> QED
        BY <1>1, <1>3, <3>1, <3>3
    <2> QED
      BY <2>1, <2>2, <2>3 DEF Excused, KnewOf
  <1> QED
    BY <1>4, <1>5

LEMMA SectionFreeNext ==
  ASSUME IInv, SnapShape, OneInSection, SectionFree, "read" \notin Faults, [Next]_vars
  PROVE  SectionFree'
  <1> SUFFICES ASSUME NEW r \in Runs, pc'[r] \in Posting,
                      NEW i \in DOMAIN reviews', Rival(r, i)'
               PROVE  Excused(r, i)'
    BY DEF SectionFree
  <1>0. pc \in [Runs -> PC]
    BY DEF IInv, Base, TypeOK
  <1>1. pc[r] \in Posting \/ Check(r)
    <2> USE <1>0 DEF Goto, Posting
    <2>1. CASE Environment \/ \E d \in DOMAIN reviews : Dismiss(d)
      BY <2>1 DEF Environment, Push, Quiescent, vars, Cancel, Begin, Dismiss
    <2>2. ASSUME NEW s \in Runs, Die(s) \/ QuietStep(s), ~Check(s)
          PROVE  pc[r] \in Posting
      BY <2>2 DEF Die, QuietStep, ListCommits, ReadFiles, Skip, TakeSnapshot, ThinkFails, Think, RefuseUnparsed,
                  RequestLock, EnterSection
    <2>3. ASSUME NEW s \in Runs, Check(s), s # r
          PROVE  pc[r] \in Posting
      BY <2>3 DEF Check
    <2>4. ASSUME NEW s \in Runs, PostStep(s)
          PROVE  pc[r] \in Posting
      <3>1. pc[s] \in Posting /\ \E to \in Posting \cup {"answered", "unsubmitted"} : Goto(s, to)
        BY <2>4, PostShape DEF IInv, Base
      <3> QED
        BY <3>1
    <2> QED
      BY StepCases, <2>1, <2>2, <2>3, <2>4
  <1>2. job'[r] = job[r]
    BY <1>1, RunKeeps DEF IInv, Check, Posting, Unthought
  <1>3. i \in DOMAIN reviews
    <2> SUFFICES ASSUME i \notin DOMAIN reviews PROVE FALSE
      OBVIOUS
    <2>1. PICK s \in Runs : PostStep(s) /\ pc[s] \in Posting /\ reviews'[i].run = s
      BY LogKeeps DEF IInv
    <2>2. pc[r] \in Section
      BY <1>1 DEF Section, Check
    <2>3. r = s
      BY <2>1, <2>2 DEF OneInSection, Section, Posting
    <2> QED
      BY <2>1, <2>3 DEF Rival
  <1>4. Rival(r, i)
    BY <1>2, <1>3, LogKeeps DEF IInv, Rival
  <1>5. Excused(r, i)
    <2>1. CASE pc[r] \in Posting
      BY <1>3, <1>4, <2>1 DEF SectionFree
    <2>2. CASE Check(r)
      <3>1. PICK standing \in StandingVerdicts :
              IF StaysSilent(r, standing)
              THEN Goto(r, "silent") /\ LeaveLock(r)
              ELSE /\ Goto(r, IF job[r].fresh # {} THEN "posting" ELSE "verdict")
                   /\ UNCHANGED lockVars
        BY <2>2 DEF Check
      <3>2. ~StaysSilent(r, standing)
        BY <1>0, <3>1 DEF Goto, Posting
      <3> QED
        BY <1>3, <1>4, <2>2, <3>2, CheckExcuses DEF Check
    <2> QED
      BY <1>1, <2>1, <2>2
  <1> QED
    BY <1>2, <1>5, LogKeeps DEF IInv, Excused, KnewOf

LEMMA RepeatsNext ==
  ASSUME IInv, SectionFree, RepeatsAreExplained, [Next]_vars
  PROVE  RepeatsAreExplained'
  <1> SUFFICES ASSUME NEW i \in DOMAIN reviews', NEW j \in DOMAIN reviews', Repeats(i, j)'
               PROVE  OtherCommitBetween(i, j)' \/ AskedAgain(i, j)'
    BY DEF RepeatsAreExplained
  <1>0. reviews \in Seq(Review)
    BY DEF IInv, Base, TypeOK
  <1>1. CASE j \in DOMAIN reviews
    <2> DEFINE r == reviews[j].run
    <2>1. i \in DOMAIN reviews /\ i < j
      <3>1. i < j
        BY DEF Repeats
      <3>2. i \in DOMAIN reviews
        <4>1. CASE i \notin DOMAIN reviews
          BY <1>0, <1>1, <3>1, <4>1, LogKeeps DEF IInv
        <4> QED
          BY <4>1
      <3> QED
        BY <3>1, <3>2
    <2>2. Repeats(i, j)
      BY <1>1, <2>1, LogKeeps DEF IInv, Repeats
    <2>3. r \in Runs /\ job'[r] = job[r] /\ reviews'[j].run = r
      <3>1. reviews[j] \in Review
        BY <1>0, <1>1
      <3>2. r \in Runs
        BY <3>1 DEF Review
      <3>3. pc[r] \notin Unthought \cup {"ready"}
        BY <1>1 DEF IInv, Quiet, Unthought, BeforeLock
      <3> QED
        BY <1>1, <3>2, <3>3, RunKeeps, LogKeeps DEF IInv
    <2>4. OtherCommitBetween(i, j) => OtherCommitBetween(i, j)'
      BY <1>1, LogKeeps DEF IInv, OtherCommitBetween
    <2>5. AskedAgain(i, j) => AskedAgain(i, j)'
      BY <2>3 DEF AskedAgain, KnewOf
    <2> QED
      BY <1>1, <2>1, <2>2, <2>3, <2>4, <2>5 DEF RepeatsAreExplained
  <1>2. CASE j \notin DOMAIN reviews
    <2>1. PICK s \in Runs :
            /\ pc[s] \in Posting
            /\ job' = job
            /\ j = Len(reviews) + 1
            /\ DOMAIN reviews' = 1..j
            /\ reviews'[j].run = s
            /\ reviews'[j].sha = job[s].head
      BY <1>2, LogKeeps DEF IInv
    <2>2. i \in DOMAIN reviews
      BY <1>0, <2>1 DEF Repeats
    <2>3. Rival(s, i)
      BY <2>1, <2>2, LogKeeps DEF IInv, Rival, Repeats
    <2>4. Excused(s, i)
      BY <2>1, <2>2, <2>3 DEF SectionFree
    <2>5. CASE \E k \in DOMAIN reviews : i < k /\ reviews[k].sha # job[s].head
      <3>1. PICK k \in DOMAIN reviews : i < k /\ reviews[k].sha # job[s].head
        BY <2>5
      <3>2. k < j /\ k \in DOMAIN reviews'
        BY <1>0, <2>1, <3>1
      <3>3. reviews'[k].sha = reviews[k].sha
        BY <3>1, LogKeeps DEF IInv
      <3> QED
        BY <2>1, <3>1, <3>2, <3>3 DEF OtherCommitBetween
    <2>6. CASE job[s].manual /\ KnewOf(s, i)
      BY <2>1, <2>6 DEF AskedAgain, KnewOf
    <2> QED
      BY <2>4, <2>5, <2>6 DEF Excused
  <1> QED
    BY <1>1, <1>2

(***************************************************************************)
(* With a working lock and readable verdicts, runs that overlap on one     *)
(* commit answer it once, whatever else fails: calls refused, answers lost,*)
(* workers dying between two steps.                                        *)
(***************************************************************************)
THEOREM RepeatsExplained ==
  ASSUME LockWorks, "read" \notin Faults
  PROVE  Spec => []RepeatsAreExplained
  <1> DEFINE RInv == IInv /\ Locked /\ SnapShape /\ SectionFree /\ RepeatsAreExplained
  <1>1. Init => RInv
    BY IInvInit
    DEF Init, LockInit, Locked, SnapShape, NoJob, SnapshotUnset, SectionFree, Posting,
        RepeatsAreExplained
  <1>2. RInv /\ [Next]_vars => RInv'
    BY IInvNext, LockedNext, LockedExcludes, SnapShapeNext, SectionFreeNext, RepeatsNext
  <1>3. RInv => RepeatsAreExplained
    OBVIOUS
  <1> QED
    BY <1>1, <1>2, <1>3, PTL DEF Spec

-----------------------------------------------------------------------------
(* The lock is let go.                                                     *)

(***************************************************************************)
(* Whoever owns the lock is a live run inside the section: the lock is     *)
(* released on every way out of it, by the finally clause or by the kernel *)
(* when the process dies, whatever fails in between (publish_lock.py).  A  *)
(* waiter therefore waits for a run that is still on its way, which is what*)
(* RunsEnd needs beside the fairness of the runs.                          *)
(***************************************************************************)
THEOREM LockIsHeldInside == Spec => [](owner # NoRun => pc[owner] \in Section)
  <1>1. IInv => (owner # NoRun => pc[owner] \in Section)
    BY DEF IInv, Base, TypeOK, LockTypeOK, OwnerHolds, Coupling, Inside
  <1> QED
    BY IInvInit, IInvNext, <1>1, PTL DEF Spec

(* How far a run has come.                                                 *)
Position ==
    [p \in PC |->
        CASE p = "idle" -> 0 [] p = "opening" -> 1 [] p = "opened" -> 2
          [] p = "started" -> 3 [] p = "thinking" -> 4 [] p = "ready" -> 5
          [] p = "locking" -> 6 [] p = "checking" -> 7 [] p = "posting" -> 8
          [] p = "verifying" -> 9 [] p = "verdict" -> 10 [] OTHER -> 11]

Advances(r) == pc'[r] = pc[r] \/ Position[pc[r]] < Position[pc'[r]]

LEMMA Positions ==
  /\ Position["idle"] = 0 /\ Position["opening"] = 1 /\ Position["opened"] = 2
  /\ Position["started"] = 3 /\ Position["thinking"] = 4 /\ Position["ready"] = 5
  /\ Position["locking"] = 6 /\ Position["checking"] = 7 /\ Position["posting"] = 8
  /\ Position["verifying"] = 9 /\ Position["verdict"] = 10 /\ \A p \in Ended : Position[p] = 11
  BY DEF Position, PC, Ended

LEMMA StepAdvances ==
  ASSUME Base, [Next]_vars, NEW r \in Runs
  PROVE  Advances(r)
  <1> USE Positions DEF Base, TypeOK, Goto, Advances, Ended
  <1> HIDE DEF PC
  <1>0. pc \in [Runs -> PC]
    OBVIOUS
  <1>1. CASE Push \/ Quiescent \/ UNCHANGED vars \/ \E i \in DOMAIN reviews : Dismiss(i)
    BY <1>1 DEF Push, Quiescent, vars, Dismiss
  <1>2. ASSUME NEW s \in Runs, NEW manual \in BOOLEAN, Begin(s, manual)
        PROVE  Advances(r)
    BY <1>2 DEF Begin
  <1>3. ASSUME NEW s \in Runs, Cancel(s)
        PROVE  Advances(r)
    BY <1>3 DEF Cancel
  <1>4. ASSUME NEW s \in Runs, Die(s)
        PROVE  Advances(r)
    <2>1. pc[s] \in PC /\ pc[s] \notin Ended \cup {"idle"}
      BY <1>4 DEF Die
    <2>2. Position[pc[s]] < 11
      BY <2>1 DEF PC
    <2> QED
      BY <1>4, <2>2 DEF Die
  <1>5. ASSUME NEW s \in Runs, ListCommits(s) \/ ReadFiles(s) \/ Skip(s) \/ TakeSnapshot(s)
        PROVE  Advances(r)
    BY <1>5 DEF ListCommits, ReadFiles, Skip, TakeSnapshot
  <1>6. ASSUME NEW s \in Runs, ThinkFails(s) \/ Think(s)
        PROVE  Advances(r)
    BY <1>6 DEF ThinkFails, Think
  <1>7. ASSUME NEW s \in Runs, RefuseUnparsed(s) \/ RequestLock(s) \/ EnterSection(s)
        PROVE  Advances(r)
    BY <1>7 DEF RefuseUnparsed, RequestLock, EnterSection
  <1>8. ASSUME NEW s \in Runs, Check(s)
        PROVE  Advances(r)
    BY <1>8 DEF Check
  <1>9. ASSUME NEW s \in Runs, PostTogether(s)
        PROVE  Advances(r)
    BY <1>9 DEF PostTogether, Finish, Proceed
  <1>10. ASSUME NEW s \in Runs, PostVerified(s)
         PROVE  Advances(r)
    BY <1>10 DEF PostVerified, Finish, Proceed
  <1>11. ASSUME NEW s \in Runs, SubmitVerdict(s)
         PROVE  Advances(r)
    BY <1>11 DEF SubmitVerdict, Finish
  <1> QED
    BY StepCases, <1>1, <1>2, <1>3, <1>4, <1>5, <1>6, <1>7, <1>8, <1>9, <1>10, <1>11
    DEF Environment, QuietStep, PostStep

(***************************************************************************)
(* A run never goes back, whatever fails: a retry is a further attempt of  *)
(* its own, with less to lose, and what has ended has ended.  So a run     *)
(* takes at most eleven steps, and RunsEnd asks of the schedule only that  *)
(* they are taken.  (The fallbacks of _publish_single_review_locked.)      *)
(***************************************************************************)
THEOREM RunsOnlyAdvance == Spec => [][\A r \in Runs : Advances(r)]_vars
  <1>1. Base /\ [Next]_vars => [\A r \in Runs : Advances(r)]_vars
    BY StepAdvances
  <1> QED
    BY BaseInit, BaseNext, <1>1, PTL DEF Spec

-----------------------------------------------------------------------------
(* What a run that has ended leaves behind.                                *)
ByRun(r) == {i \in DOMAIN reviews : reviews[i].run = r}

Delivered == \A r \in Runs : pc[r] = "answered" => ByRun(r) # {}

LEMMA AnsweringStores ==
  ASSUME Base, NEW r \in Runs, PostStep(r), pc'[r] = "answered"
  PROVE  \E inline, body : Store(r, inline, body)
  <1>0. pc \in [Runs -> PC]
    BY DEF Base, TypeOK
  <1>1. CASE PostTogether(r)
    BY <1>0, <1>1 DEF PostTogether, CreateAnswers, Finish, Proceed, Goto
  <1>2. CASE PostVerified(r)
    <2>1. PICK verified \in SUBSET job[r].fresh :
            LET body == Summary(r) \cup (job[r].fresh \ verified)
            IN  \/ CreateAnswers(r, verified, body) /\ Finish(r, "answered")
                \/ CreateRaises(r, verified, body) /\ Proceed(r, "verdict")
      BY <1>2 DEF PostVerified
    <2>2. CreateAnswers(r, verified, Summary(r) \cup (job[r].fresh \ verified))
      BY <1>0, <2>1 DEF Proceed, Goto
    <2> QED
      BY <2>2 DEF CreateAnswers
  <1>3. CASE SubmitVerdict(r)
    BY <1>0, <1>3 DEF SubmitVerdict, CreateAnswers, Finish, Goto
  <1> QED
    BY <1>1, <1>2, <1>3 DEF PostStep

LEMMA StoredIsThere ==
  ASSUME Base, NEW r \in Runs, NEW inline, NEW body, Store(r, inline, body)
  PROVE  ByRun(r)' # {}
  BY StoredEntry DEF ByRun

LEMMA DeliveredNext ==
  ASSUME Base, Delivered, [Next]_vars
  PROVE  Delivered'
  <1> SUFFICES ASSUME NEW r \in Runs, pc'[r] = "answered" PROVE ByRun(r)' # {}
    BY DEF Delivered
  <1>1. CASE pc[r] = "answered"
    BY <1>1, LogKeeps DEF Delivered, ByRun
  <1>2. CASE PostStep(r)
    BY <1>2, AnsweringStores, StoredIsThere
  <1> QED
    BY <1>1, <1>2, AnsweredBy

(***************************************************************************)
(* A run that says it was answered has its own review on the pull request, *)
(* for the commit it names; one that stays silent leaves another run's, for*)
(* that commit, unless it is automatic and has no finding that is not there*)
(* already.  Nothing that fails changes that: CheckedCommitIsReviewed is   *)
(* left with the ending of the runs.                                       *)
(***************************************************************************)
EndedIsAccountedFor ==
    \A r \in Runs :
        /\ pc[r] = "answered" => \E i \in ByRun(r) : reviews[i].sha = job[r].head
        /\ pc[r] = "silent" =>
               \/ \E i \in DOMAIN reviews \ ByRun(r) : reviews[i].sha = job[r].head
               \/ ~job[r].manual /\ job[r].fresh = {}

THEOREM EndedRunsAreAccountedFor == Spec => []EndedIsAccountedFor
  <1>1. Init => Delivered
    BY DEF Init, Delivered
  <1>2. IInv /\ Delivered /\ SilenceHasAnAnswer => EndedIsAccountedFor
    BY DEF IInv, Match, Delivered, SilenceHasAnAnswer, Answering, ByRun, EndedIsAccountedFor
  <1>3. IInv => Base
    BY DEF IInv
  <1> QED
    BY IInvInit, IInvNext, DeliveredNext, SilenceIsAnswered, <1>1, <1>2, <1>3, PTL DEF Spec

-----------------------------------------------------------------------------
(* Attempts to post.                                                       *)
OneAttempt == \A r \in Runs : pc[r] = "verdict" => \A i, j \in ByRun(r) : i = j

(***************************************************************************)
(* A run that could not tell whether its review was stored tries once more *)
(* and without comments: it leaves two reviews at most, the second of which*)
(* has none.  (pr_reviewer.py, submit_review_verdict after an attempt that *)
(* raised; github_provider.py, the fallback of publish_inline_comments.)   *)
(***************************************************************************)
RetryIsBare ==
    \A i, j \in DOMAIN reviews :
        i < j /\ reviews[i].run = reviews[j].run =>
            /\ reviews[j].inline = {}
            /\ ByRun(reviews[i].run) = {i, j}

(* The last attempt ends the run.                                          *)
LEMMA LastAttempt ==
  ASSUME Base, NEW r \in Runs, PostStep(r), pc[r] = "verdict"
  PROVE  pc'[r] \in {"answered", "unsubmitted"}
  BY DEF Base, TypeOK, PostStep, PostTogether, PostVerified, SubmitVerdict, Finish, Goto

(* An entry is added by a run that has none, or by its last attempt.       *)
LEMMA AttemptEntry ==
  ASSUME IInv, Unposted, [Next]_vars, NEW n \in DOMAIN reviews' \ DOMAIN reviews
  PROVE  \E r \in Runs :
            /\ n = Len(reviews) + 1
            /\ reviews'[n].run = r
            /\ \/ ByRun(r) = {} /\ pc[r] \in {"posting", "verifying"}
               \/ /\ pc[r] = "verdict" /\ reviews'[n].inline = {}
                  /\ pc'[r] \in {"answered", "unsubmitted"}
  <1>0. Base
    BY DEF IInv
  <1>1. PICK r \in Runs : PostStep(r) /\ reviews'[n].run = r /\ n = Len(reviews) + 1
    BY <1>0, LogKeeps
  <1>2. PICK s \in Runs : /\ pc[s] \in Posting /\ reviews'[n].run = s
                          /\ pc[s] = "verdict" => reviews'[n].inline = {}
    BY <1>0, NewEntry
  <1>3. CASE pc[r] = "verdict"
    BY <1>0, <1>1, <1>2, <1>3, LastAttempt
  <1>4. CASE pc[r] \in {"posting", "verifying"}
    BY <1>1, <1>4 DEF Unposted, ByRun
  <1> QED
    BY <1>1, <1>2, <1>3, <1>4 DEF Posting

(* Entries that existed keep their place.                                  *)
LEMMA EntriesStay ==
  ASSUME Base, [Next]_vars, NEW j \in DOMAIN reviews, NEW i \in DOMAIN reviews', i < j
  PROVE  i \in DOMAIN reviews
  <1>1. reviews \in Seq(Review)
    BY DEF Base, TypeOK
  <1>2. ASSUME i \notin DOMAIN reviews PROVE FALSE
    <2>1. i = Len(reviews) + 1
      BY <1>2, LogKeeps
    <2> QED
      BY <1>1, <2>1
  <1> QED
    BY <1>2

LEMMA OneAttemptNext ==
  ASSUME IInv, InlineInv, OneAttempt, [Next]_vars
  PROVE  OneAttempt'
  <1> SUFFICES ASSUME NEW r \in Runs, pc'[r] = "verdict",
                      NEW i \in DOMAIN reviews', NEW j \in DOMAIN reviews',
                      reviews'[i].run = r, reviews'[j].run = r
               PROVE  i = j
    BY DEF OneAttempt, ByRun
  <1>0. Base /\ Quiet /\ Unposted
    BY DEF IInv, InlineInv
  <1>1. pc[r] \in {"checking"} \cup Posting
    BY <1>0, VerdictFrom
  <1>2. CASE i \in DOMAIN reviews /\ j \in DOMAIN reviews
    <2>1. reviews[i].run = r /\ reviews[j].run = r
      BY <1>0, <1>2, LogKeeps
    <2> QED
      BY <1>0, <1>1, <1>2, <2>1 DEF Quiet, Unposted, OneAttempt, ByRun, Posting
  <1>3. ASSUME NEW n \in DOMAIN reviews' \ DOMAIN reviews, reviews'[n].run = r
        PROVE  n = Len(reviews) + 1 /\ ByRun(r) = {}
    BY <1>0, <1>3, AttemptEntry
  <1>4. CASE i \notin DOMAIN reviews \/ j \notin DOMAIN reviews
    <2>1. ByRun(r) = {}
      BY <1>3, <1>4
    <2>2. i \notin DOMAIN reviews /\ j \notin DOMAIN reviews
      BY <1>0, <2>1, LogKeeps DEF ByRun
    <2> QED
      BY <1>3, <2>2
  <1> QED
    BY <1>2, <1>4

LEMMA RetryIsBareNext ==
  ASSUME IInv, InlineInv, OneAttempt, RetryIsBare, [Next]_vars
  PROVE  RetryIsBare'
  <1> SUFFICES ASSUME NEW i \in DOMAIN reviews', NEW j \in DOMAIN reviews', i < j,
                      reviews'[i].run = reviews'[j].run
               PROVE  /\ reviews'[j].inline = {}
                      /\ \A k \in DOMAIN reviews' :
                            reviews'[k].run = reviews'[i].run => k \in {i, j}
    BY DEF RetryIsBare, ByRun
  <1>0. Base /\ Unposted /\ reviews \in Seq(Review)
    BY DEF IInv, InlineInv, Base, TypeOK
  <1> DEFINE r == reviews'[i].run
  <1>1. CASE j \in DOMAIN reviews
    <2>1. i \in DOMAIN reviews
      BY <1>0, <1>1, EntriesStay
    <2>2. /\ reviews[i].run = r /\ reviews[j].run = r
          /\ reviews'[j].inline = reviews[j].inline
      BY <1>0, <1>1, <2>1, LogKeeps
    <2>3. reviews[j].inline = {} /\ ByRun(r) = {i, j}
      BY <1>1, <2>1, <2>2 DEF RetryIsBare
    <2>4. ASSUME NEW k \in DOMAIN reviews', reviews'[k].run = r
          PROVE  k \in {i, j}
      <3>1. CASE k \in DOMAIN reviews
        BY <1>0, <2>3, <2>4, <3>1, LogKeeps DEF ByRun
      <3>2. CASE k \notin DOMAIN reviews
        <4>1. r \in Runs /\ pc[r] = "verdict"
          BY <2>3, <2>4, <3>2, <1>0, AttemptEntry
        <4>2. i = j
          BY <2>3, <4>1 DEF OneAttempt
        <4>3. i \in Nat /\ j \in Nat
          BY <1>0, <1>1, <2>1
        <4> QED
          BY <4>2, <4>3
      <3> QED
        BY <3>1, <3>2
    <2> QED
      BY <2>2, <2>3, <2>4
  <1>2. CASE j \notin DOMAIN reviews
    <2>1. /\ j = Len(reviews) + 1 /\ r \in Runs
          /\ \/ ByRun(r) = {}
             \/ pc[r] = "verdict" /\ reviews'[j].inline = {}
      BY <1>0, <1>2, AttemptEntry
    <2>2. i \in DOMAIN reviews
      <3>1. CASE i \notin DOMAIN reviews
        BY <1>0, <2>1, <3>1, AttemptEntry
      <3> QED
        BY <3>1
    <2>3. i \in ByRun(r)
      BY <1>0, <2>2, LogKeeps DEF ByRun
    <2>4. pc[r] = "verdict" /\ reviews'[j].inline = {}
      BY <2>1, <2>3
    <2>5. ASSUME NEW k \in DOMAIN reviews', reviews'[k].run = r
          PROVE  k \in {i, j}
      <3>1. CASE k \in DOMAIN reviews
        <4>1. k \in ByRun(r)
          BY <1>0, <2>5, <3>1, LogKeeps DEF ByRun
        <4> QED
          BY <2>1, <2>3, <2>4, <4>1 DEF OneAttempt
      <3>2. CASE k \notin DOMAIN reviews
        BY <1>0, <2>1, <3>2, AttemptEntry
      <3> QED
        BY <3>1, <3>2
    <2> QED
      BY <2>4, <2>5
  <1> QED
    BY <1>1, <1>2

THEOREM RetriesAreBare == Spec => []RetryIsBare
  <1> DEFINE AInv == IInv /\ InlineInv /\ OneAttempt /\ RetryIsBare
  <1>1. Init => AInv
    BY IInvInit
    DEF Init, InlineInv, SnapBound, FreshIsNew, Unposted, HasFindings, Section, Posting,
        NoJob, SnapshotUnset, OneAttempt, RetryIsBare
  <1>2. AInv /\ [Next]_vars => AInv'
    BY IInvNext, InlineInvNext, OneAttemptNext, RetryIsBareNext
  <1> QED
    BY <1>1, <1>2, PTL DEF Spec

=============================================================================
