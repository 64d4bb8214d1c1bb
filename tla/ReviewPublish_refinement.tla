---------------------- MODULE ReviewPublish_refinement ----------------------
(***************************************************************************)
(* ReviewPublish implements VerdictLog: for any set of runs, commits and   *)
(* findings, when the lock works, the standing verdict can be read and no  *)
(* answer of GitHub is lost.  Runs may still be cancelled, die, be refused *)
(* or be left without inline comments, and reviews may be dismissed.       *)
(*                                                                         *)
(* The step that answers is the one that stores the review.  It is not     *)
(* redundant because the section excludes other runs since the check       *)
(* (SectionFree) and because a run that has not been answered has stored   *)
(* nothing (NoneStored).                                                   *)
(***************************************************************************)
EXTENDS ReviewPublish_proofs

Atomic == LockWorks /\ "read" \notin Faults /\ "lost" \notin Faults

NoneStored ==
    \A r \in Runs : pc[r] \in Posting => \A i \in DOMAIN reviews : reviews[i].run # r

OpenAt == {"thinking"} \cup HasFindings
Armed == \A r \in Runs : pc[r] \in OpenAt => job[r].snap.armed

RefInv == /\ IInv /\ Locked /\ SnapShape /\ SectionFree
          /\ SnapBound /\ NoneStored /\ Armed

-----------------------------------------------------------------------------
(* An attempt to post ends in one of three ways.                           *)
LEMMA PostOutcome ==
  ASSUME Base, "lost" \notin Faults, NEW r \in Runs, PostStep(r)
  PROVE  \/ /\ \E inline, body : Store(r, inline, body)
            /\ pc'[r] = "answered"
         \/ /\ UNCHANGED reviews
            /\ pc'[r] \in Posting \cup {"unsubmitted"}
  <1>0. pc \in [Runs -> PC]
    BY DEF Base, TypeOK
  <1>1. CASE PostTogether(r)
    BY <1>0, <1>1 DEF PostTogether, CreateAnswers, CreateRaises, Finish, Proceed, Goto, Posting
  <1>2. CASE PostVerified(r)
    <2>1. PICK verified \in SUBSET job[r].fresh :
            LET body == Summary(r) \cup (job[r].fresh \ verified)
            IN  \/ CreateAnswers(r, verified, body) /\ Finish(r, "answered")
                \/ CreateRaises(r, verified, body) /\ Proceed(r, "verdict")
      BY <1>2 DEF PostVerified
    <2> QED
      BY <1>0, <2>1 DEF CreateAnswers, CreateRaises, Finish, Proceed, Goto, Posting
  <1>3. CASE SubmitVerdict(r)
    BY <1>0, <1>3 DEF SubmitVerdict, CreateAnswers, CreateRaises, Finish, Goto, Posting
  <1> QED
    BY <1>1, <1>2, <1>3 DEF PostStep

(* Where a run can have come from.                                         *)
LEMMA CameFrom ==
  ASSUME Base, [Next]_vars, NEW r \in Runs
  PROVE  /\ pc'[r] \in Posting => pc[r] \in {"checking"} \cup Posting
         /\ pc'[r] \in OpenAt => pc[r] \in OpenAt \/ TakeSnapshot(r)
  <1> USE DEF Base, TypeOK, Goto, OpenAt, HasFindings, Section, Posting
  <1>1. CASE Environment
    BY <1>1 DEF Environment, Push, Quiescent, vars, Cancel, Begin
  <1>2. CASE \E i \in DOMAIN reviews : Dismiss(i)
    BY <1>2 DEF Dismiss
  <1>3. ASSUME NEW s \in Runs, Die(s)
        PROVE  pc'[r] \in {pc[r], "dead"}
    BY <1>3 DEF Die
  <1>4. ASSUME NEW s \in Runs, QuietStep(s)
        PROVE  /\ pc'[r] \in Posting => pc[r] \in {"checking"} \cup Posting
               /\ pc'[r] \in OpenAt => pc[r] \in OpenAt \/ TakeSnapshot(r)
    BY <1>4 DEF QuietStep, ListCommits, ReadFiles, Skip, TakeSnapshot, ThinkFails, Think,
                RefuseUnparsed, RequestLock, EnterSection, Check
  <1>5. ASSUME NEW s \in Runs, PostStep(s)
        PROVE  pc'[r] = pc[r] \/ (r = s /\ pc[r] \in Posting)
    BY <1>5, PostShape
  <1> QED
    BY StepCases, <1>1, <1>2, <1>3, <1>4, <1>5

LEMMA NoneStoredNext ==
  ASSUME IInv, NoneStored, "lost" \notin Faults, [Next]_vars
  PROVE  NoneStored'
  <1> SUFFICES ASSUME NEW r \in Runs, pc'[r] \in Posting, NEW i \in DOMAIN reviews'
               PROVE  reviews'[i].run # r
    BY DEF NoneStored
  <1>0. Base /\ Quiet
    BY DEF IInv
  <1>1. CASE i \in DOMAIN reviews
    <2>1. reviews'[i].run = reviews[i].run
      BY <1>0, <1>1, LogKeeps
    <2>2. pc[r] \in {"checking"} \cup Posting
      BY <1>0, CameFrom
    <2> QED
      BY <1>0, <1>1, <2>1, <2>2 DEF NoneStored, Quiet
  <1>2. CASE i \notin DOMAIN reviews
    <2>1. PICK s \in Runs : PostStep(s) /\ reviews'[i].run = s
      BY <1>0, <1>2, LogKeeps
    <2>2. pc'[s] = "answered"
      <3>1. ~UNCHANGED reviews
        BY <1>2
      <3> QED
        BY <1>0, <2>1, <3>1, PostOutcome
    <2> QED
      BY <2>1, <2>2 DEF Posting
  <1> QED
    BY <1>1, <1>2

LEMMA ArmedNext ==
  ASSUME Base, Armed, "read" \notin Faults, [Next]_vars
  PROVE  Armed'
  <1> SUFFICES ASSUME NEW r \in Runs, pc'[r] \in OpenAt PROVE job'[r].snap.armed
    BY DEF Armed
  <1>1. CASE TakeSnapshot(r)
    <2>1. PICK standing \in StandingVerdicts :
            job' = [job EXCEPT ![r].snap = SnapshotOf(standing)]
      BY <1>1 DEF TakeSnapshot
    <2>2. standing.ok
      BY DEF StandingVerdicts, VerdictAt, NoVerdict
    <2>3. job'[r].snap = SnapshotOf(standing)
      BY <2>1 DEF Base, TypeOK, Job
    <2> QED
      BY <2>2, <2>3 DEF SnapshotOf
  <1>2. CASE ~TakeSnapshot(r)
    BY <1>2, CameFrom, SnapKeeps DEF Armed
  <1> QED
    BY <1>1, <1>2

LEMMA RefInvInit == Init => RefInv
  BY IInvInit
  DEF Init, LockInit, RefInv, Locked, SnapShape, NoJob, SnapshotUnset, SectionFree, Posting,
      SnapBound, NoneStored, Armed, OpenAt, HasFindings, Section

LEMMA RefInvNext ==
  ASSUME Atomic, RefInv, [Next]_vars
  PROVE  RefInv'
  <1>1. IInv' /\ Locked' /\ SnapShape'
    BY IInvNext, LockedNext, SnapShapeNext DEF Atomic, RefInv
  <1>2. SectionFree'
    BY LockedExcludes, SectionFreeNext DEF Atomic, RefInv
  <1>3. SnapBound' /\ NoneStored' /\ Armed'
    BY SnapBoundNext, NoneStoredNext, ArmedNext DEF Atomic, RefInv, IInv
  <1> QED
    BY <1>1, <1>2, <1>3 DEF RefInv

-----------------------------------------------------------------------------
(* The mapping, by where the run is.                                       *)
NotTaken == {"idle", "opening", "opened", "started"}
Gone == {"unsubmitted", "skipped", "failed", "dead"}

Asked(j, status) ==
    [status |-> status, manual |-> j.manual, sha |-> j.head, seen |-> j.snap.id]

LEMMA RequestCases ==
  ASSUME NEW r \in Runs
  PROVE  /\ pc[r] \in NotTaken => RequestOf(r) = NoRequestWith("none")
         /\ pc[r] \in Gone => RequestOf(r) = NoRequestWith("gaveup")
         /\ pc[r] \in {"answered", "silent"} => RequestOf(r) = Asked(job[r], pc[r])
         /\ pc[r] \in OpenAt => RequestOf(r) = Asked(job[r], "open")
  BY DEF RequestOf, NotTaken, Gone, OpenAt, HasFindings, Section, Posting, Asked

LEMMA RequestCasesNext ==
  ASSUME NEW r \in Runs
  PROVE  /\ pc'[r] \in NotTaken => RequestOf(r)' = NoRequestWith("none")
         /\ pc'[r] \in Gone => RequestOf(r)' = NoRequestWith("gaveup")
         /\ pc'[r] \in {"answered", "silent"} => RequestOf(r)' = Asked(job'[r], pc'[r])
         /\ pc'[r] \in OpenAt => RequestOf(r)' = Asked(job'[r], "open")
  BY DEF RequestOf, NoRequestWith, NotTaken, Gone, OpenAt, HasFindings, Section, Posting, Asked

(* Updates of one field.                                                   *)
LEMMA SetStatus ==
  \A s, m, c, k, to :
      [[status |-> s, manual |-> m, sha |-> c, seen |-> k] EXCEPT !.status = to]
          = [status |-> to, manual |-> m, sha |-> c, seen |-> k]
  OBVIOUS

LEMMA SetDismissed ==
  \A c, r, v, d, to :
      [[sha |-> c, run |-> r, verdict |-> v, dismissed |-> d] EXCEPT !.dismissed = to]
          = [sha |-> c, run |-> r, verdict |-> v, dismissed |-> to]
  OBVIOUS

(* A step of one run moves one request.                                    *)
Alone(r) == \A s \in Runs \ {r} : pc'[s] = pc[s] /\ job'[s] = job[s]

LEMMA RequestMoves ==
  ASSUME NEW r \in Runs, Alone(r)
  PROVE  Requests' = [Requests EXCEPT ![r] = RequestOf(r)']
  <1>1. \A s \in Runs \ {r} : RequestOf(s)' = RequestOf(s)
    BY DEF Alone, RequestOf, NoRequestWith
  <1> QED
    BY <1>1 DEF Requests

LEMMA StepsAreAlone ==
  ASSUME Base, NEW r \in Runs,
         \/ Cancel(r) \/ Die(r) \/ QuietStep(r) \/ PostStep(r)
         \/ \E manual \in BOOLEAN : Begin(r, manual)
  PROVE  Alone(r)
  <1> USE DEF Base, TypeOK, Goto, Alone
  <1>1. CASE Cancel(r) \/ Die(r)
    BY <1>1 DEF Cancel, Die
  <1>2. CASE QuietStep(r)
    BY <1>2 DEF QuietStep, ListCommits, ReadFiles, Skip, TakeSnapshot, ThinkFails, Think, RefuseUnparsed,
                RequestLock, EnterSection, Check
  <1>3. CASE PostStep(r)
    <2>1. UNCHANGED job /\ \E to \in Posting \cup {"answered", "unsubmitted"} : Goto(r, to)
      BY <1>3, PostShape
    <2> QED
      BY <2>1
  <1>4. CASE \E manual \in BOOLEAN : Begin(r, manual)
    BY <1>4 DEF Begin
  <1> QED
    BY <1>1, <1>2, <1>3, <1>4

(* An entry of the log says what its run decided, which is settled.        *)
LEMMA WritersKeep ==
  ASSUME IInv, [Next]_vars, NEW i \in DOMAIN reviews
  PROVE  job'[reviews[i].run] = job[reviews[i].run]
  <1>1. reviews[i].run \in Runs
    <2>1. reviews[i] \in Review
      BY DEF IInv, Base, TypeOK
    <2> QED
      BY <2>1 DEF Review
  <1>2. pc[reviews[i].run] \notin Unthought \cup {"ready"}
    BY DEF IInv, Quiet, Unthought, BeforeLock
  <1> QED
    BY <1>1, <1>2, RunKeeps DEF IInv

LEMMA LogStays ==
  ASSUME IInv, [Next]_vars, UNCHANGED reviews
  PROVE  Log' = Log
  <1>1. \A i \in DOMAIN reviews : job'[reviews[i].run] = job[reviews[i].run]
    BY WritersKeep
  <1> QED
    BY <1>1 DEF Log

LEMMA LogType ==
  ASSUME Base
  PROVE  /\ DOMAIN Log = DOMAIN reviews /\ DOMAIN Log = 1..Len(reviews)
         /\ Len(reviews) \in Nat
         /\ Len(Log) = Len(reviews)
         /\ \A i \in DOMAIN Log :
              /\ Log[i].sha = reviews[i].sha
              /\ Log[i].dismissed = (reviews[i].state = "DISMISSED")
  <1>1. reviews \in Seq(Review)
    BY DEF Base, TypeOK
  <1>2. DOMAIN Log = 1..Len(reviews)
    BY <1>1 DEF Log
  <1>3. Len(Log) = Len(reviews)
    BY <1>1, <1>2, LenProperties
  <1>4. ASSUME NEW i \in DOMAIN Log
        PROVE  /\ Log[i].sha = reviews[i].sha
               /\ Log[i].dismissed = (reviews[i].state = "DISMISSED")
    <2>1. Log[i] = [sha |-> reviews[i].sha, run |-> reviews[i].run,
                    verdict |-> job[reviews[i].run].event,
                    dismissed |-> reviews[i].state = "DISMISSED"]
      BY Zenon DEF Log
    <2> QED
      BY <2>1
  <1>5. DOMAIN Log = DOMAIN reviews
    BY DEF Log
  <1> QED
    BY <1>1, <1>2, <1>3, <1>4, <1>5

-----------------------------------------------------------------------------
(* The steps.                                                              *)
LEMMA Stutters ==
  ASSUME NEW r \in Runs, Alone(r), Log' = Log,
         \/ pc[r] \in NotTaken /\ pc'[r] \in NotTaken
         \/ pc[r] \in OpenAt /\ pc'[r] \in OpenAt /\ SameRun(job[r], job'[r])
  PROVE  UNCHANGED Abstract!logVars
  <1>1. RequestOf(r)' = RequestOf(r)
    BY RequestCases, RequestCasesNext DEF SameRun, Asked
  <1>2. Requests' = Requests
    <2>1. Requests' = [Requests EXCEPT ![r] = RequestOf(r)]
      BY <1>1, RequestMoves
    <2> QED
      BY <2>1 DEF Requests
  <1> QED
    BY <1>2 DEF Abstract!logVars

LEMMA GivesUp ==
  ASSUME NEW r \in Runs, Alone(r), Log' = Log,
         pc[r] \in NotTaken \cup OpenAt, pc'[r] \in Gone
  PROVE  Abstract!GiveUp(r)
  <1>1. Requests[r].status \in {"none", "open"}
    BY RequestCases DEF Requests, NoRequestWith, Asked
  <1>2. RequestOf(r)' = [Abstract!NoRequest EXCEPT !.status = "gaveup"]
    <2>1. RequestOf(r)' = NoRequestWith("gaveup")
      BY RequestCasesNext
    <2>2. NoRequestWith("gaveup") = [Abstract!NoRequest EXCEPT !.status = "gaveup"]
      <3>1. Abstract!NoRequest = [status |-> "none", manual |-> FALSE, sha |-> 0, seen |-> 0]
        BY Zenon DEF Abstract!NoRequest
      <3>2. NoRequestWith("gaveup") = [status |-> "gaveup", manual |-> FALSE, sha |-> 0, seen |-> 0]
        BY DEF NoRequestWith
      <3> QED
        <4>1. PICK no : no = FALSE
          OBVIOUS
        <4>2. [[status |-> "none", manual |-> no, sha |-> 0, seen |-> 0] EXCEPT !.status = "gaveup"]
                = [status |-> "gaveup", manual |-> no, sha |-> 0, seen |-> 0]
          BY SetStatus
        <4> QED
          BY <3>1, <3>2, <4>1, <4>2
    <2> QED
      BY <2>1, <2>2
  <1>3. Requests' = [Requests EXCEPT ![r] = RequestOf(r)']
    BY RequestMoves
  <1> QED
    BY <1>1, <1>2, <1>3 DEF Abstract!GiveUp

LEMMA TakesUp ==
  ASSUME IInv, SnapBound, [Next]_vars, NEW r \in Runs, TakeSnapshot(r)
  PROVE  Abstract!Next
  <1> DEFINE manual == job[r].manual
             sha    == job[r].head
             seen   == job'[r].snap.id
  <1>0. Base
    BY DEF IInv
  <1>1. /\ manual \in BOOLEAN /\ sha \in Commit
        /\ job'[r].manual = manual /\ job'[r].head = sha
        /\ job'[r].snap.id \in Nat
    <2>1. job[r] \in Job /\ job'[r] \in Job /\ pc[r] = "started"
      BY <1>0, BaseNext DEF Base, TypeOK, TakeSnapshot
    <2>2. \E snap : job'[r] = [job[r] EXCEPT !.snap = snap]
      BY <1>0 DEF TakeSnapshot, Base, TypeOK
    <2>3. job[r].head \in Commit
      BY <1>0, <2>1 DEF Base, Begun
    <2> QED
      BY <2>1, <2>2, <2>3 DEF Job, Snapshot
  <1>2. seen \in 0..Len(Log) /\ Log' = Log
    <2>1. UNCHANGED reviews
      BY DEF TakeSnapshot
    <2>2. job'[r].snap.id <= Len(reviews)
      BY <1>0, <2>1, SnapBoundNext DEF SnapBound
    <2> QED
      BY <1>0, <1>1, <2>1, <2>2, LogStays, LogType
  <1>3. RequestOf(r) = NoRequestWith("none") /\ RequestOf(r)' = Asked(job'[r], "open")
    <2>1. pc[r] \in NotTaken /\ pc'[r] \in OpenAt
      BY <1>0 DEF TakeSnapshot, Goto, NotTaken, OpenAt, Base, TypeOK
    <2> QED
      BY <2>1, RequestCases, RequestCasesNext
  <1>4. Requests' = [Requests EXCEPT ![r] = RequestOf(r)']
    BY <1>0, StepsAreAlone, RequestMoves DEF QuietStep
  <1>5. Abstract!TakeUp(r, manual, sha, seen)
    BY <1>1, <1>2, <1>3, <1>4 DEF Abstract!TakeUp, Requests, NoRequestWith, Asked
  <1> HIDE DEF manual, sha, seen
  <1> QED
    BY <1>1, <1>2, <1>5 DEF Abstract!Next

LEMMA FallsSilent ==
  ASSUME IInv, [Next]_vars, NEW r \in Runs, pc[r] = "checking", UNCHANGED <<reviews, job>>,
         Goto(r, "silent"), NEW standing \in StandingVerdicts, StaysSilent(r, standing)
  PROVE  Abstract!Silence(r)
  <1>0. Base
    BY DEF IInv
  <1>1. Alone(r) /\ pc'[r] = "silent"
    BY <1>0 DEF Base, TypeOK, Goto, Alone
  <1>2. /\ RequestOf(r) = Asked(job[r], "open") /\ RequestOf(r)' = Asked(job[r], "silent")
        /\ Requests[r] = RequestOf(r)
    <2>1. pc[r] \in OpenAt
      BY DEF OpenAt, HasFindings, Section
    <2> QED
      BY <1>1, <2>1, RequestCases, RequestCasesNext DEF Requests
  <1>3. \E i \in DOMAIN Log :
          \/ Log[i].sha = job[r].head /\ (job[r].manual => i > job[r].snap.id)
          \/ ~job[r].manual
    <2>1. PICK i \in DOMAIN reviews : Answering(r, i)
      BY SilentRead
    <2> QED
      BY <1>0, <2>1, LogType DEF Answering
  <1>4. Requests' = [Requests EXCEPT ![r] = RequestOf(r)']
    BY <1>1, RequestMoves
  <1>5. [Requests[r] EXCEPT !.status = "silent"] = RequestOf(r)'
    BY <1>2 DEF Asked
  <1>6. Abstract!Close(r, "silent")
    BY <1>4, <1>5 DEF Abstract!Close
  <1> QED
    BY <1>2, <1>3, <1>6, LogStays DEF Abstract!Silence, Asked

(* What the section guarantees to the step that stores.                    *)
LEMMA PostedIsNew ==
  ASSUME RefInv, NEW r \in Runs, pc[r] \in Posting
  PROVE  ~Abstract!Redundant(r)
  <1> SUFFICES ASSUME NEW i \in DOMAIN Log, ~Log[i].dismissed,
                      \A k \in DOMAIN Log : k >= i => Log[k].sha = Requests[r].sha,
                      Requests[r].manual => i > Requests[r].seen
               PROVE  FALSE
    BY DEF Abstract!Redundant
  <1>0. Base
    BY DEF RefInv, IInv
  <1>1. pc[r] \in OpenAt
    BY DEF OpenAt, HasFindings, Section
  <1>2. Requests[r] = Asked(job[r], "open")
    BY <1>1, RequestCases DEF Requests
  <1>d. reviews[i].state # "DISMISSED"
    BY <1>0, LogType, Zenon
  <1>3. /\ i \in DOMAIN reviews /\ i \in Nat
        /\ \A k \in DOMAIN reviews : k >= i => reviews[k].sha = job[r].head
        /\ job[r].manual => i > job[r].snap.id
    BY <1>0, <1>2, LogType DEF Asked
  <1>4. Rival(r, i)
    BY <1>3, <1>d DEF RefInv, NoneStored, Rival
  <1>5. Excused(r, i)
    BY <1>3, <1>4 DEF RefInv, SectionFree
  <1>6. job[r].snap.armed /\ job[r].snap.id \in Nat
    BY <1>0, <1>1 DEF RefInv, Armed, Base, TypeOK, Job, Snapshot
  <1>7. DOMAIN reviews \subseteq Nat
    BY <1>0, LogType
  <1> QED
    BY <1>3, <1>5, <1>6, <1>7 DEF Excused, KnewOf

LEMMA LogGrows ==
  ASSUME IInv, [Next]_vars, NEW r \in Runs, UNCHANGED job, NEW inline, NEW body,
         Store(r, inline, body), pc[r] \in Posting
  PROVE  Log' = Append(Log, [sha |-> job[r].head, run |-> r, verdict |-> job[r].event,
                             dismissed |-> FALSE])
  <1> DEFINE n   == Len(reviews)
             e   == [sha |-> job[r].head, run |-> r, verdict |-> job[r].event,
                     dismissed |-> FALSE]
             S   == [sha : Commit, run : Runs, verdict : Event, dismissed : BOOLEAN]
  <1>0. Base /\ reviews \in Seq(Review) /\ n \in Nat
    BY DEF IInv, Base, TypeOK
  <1>1. job[r].head \in Commit /\ job[r].event \in Event
    BY <1>0 DEF Base, Begun, TypeOK, Job, Posting
  <1>2. PICK dropped \in SUBSET inline :
          reviews' = Append(reviews,
            [sha |-> job[r].head, state |-> VerdictEventToState[job[r].event], run |-> r,
             inline |-> inline \ dropped, dropped |-> dropped, body |-> body])
    BY DEF Store
  <1> DEFINE new == [sha |-> job[r].head, state |-> VerdictEventToState[job[r].event], run |-> r,
                     inline |-> inline \ dropped, dropped |-> dropped, body |-> body]
  <1>a. reviews' = Append(reviews, new)
    BY <1>2
  <1>3. new.sha = job[r].head /\ new.run = r /\ new.state # "DISMISSED"
    BY <1>1, StateType
  <1> HIDE DEF new
  <1>4. /\ DOMAIN reviews' = 1..(n + 1)
        /\ \A i \in 1..n : reviews'[i] = reviews[i]
        /\ reviews'[n + 1] = new
    BY <1>0, <1>a
  <1>5. /\ DOMAIN Log' = 1..(n + 1)
        /\ \A i \in 1..n : Log'[i] = Log[i]
        /\ Log'[n + 1] = e
    <2>1. DOMAIN reviews = 1..n
      BY <1>0
    <2>2. DOMAIN Log' = 1..(n + 1) /\ Log'[n + 1] = e
      <3>1. n + 1 \in DOMAIN reviews' /\ DOMAIN Log' = DOMAIN reviews'
        BY <1>0, <1>4 DEF Log
      <3>2. Log'[n + 1] = [sha |-> new.sha, run |-> new.run, verdict |-> job'[new.run].event,
                           dismissed |-> new.state = "DISMISSED"]
        BY <1>4, <3>1, Zenon DEF Log
      <3>3. (new.state = "DISMISSED") = FALSE /\ job' = job
        BY <1>3
      <3> QED
        BY <1>3, <1>4, <3>1, <3>2, <3>3, Zenon
    <2>3. ASSUME NEW i \in 1..n PROVE Log'[i] = Log[i]
      BY <1>0, <1>4, <2>1, <2>3 DEF Log
    <2> QED
      BY <2>2, <2>3
  <1>6. Log \in Seq(S) /\ e \in S
    <2>1. \A i \in 1..n : Log[i] \in S
      <3> SUFFICES ASSUME NEW i \in 1..n PROVE Log[i] \in S
        OBVIOUS
      <3>1. i \in DOMAIN reviews /\ reviews[i] \in Review
        BY <1>0
      <3>2. job[reviews[i].run].event \in Event
        BY <1>0, <3>1 DEF Review, Base, TypeOK, Job
      <3> QED
        BY <3>1, <3>2 DEF Log, Review
    <2>2. Log = [i \in 1..n |-> Log[i]]
      BY <1>0 DEF Log
    <2> QED
      BY <1>0, <1>1, <2>1, <2>2
  <1> HIDE DEF e, S
  <1>7. Log' = [i \in 1..(n + 1) |-> Log'[i]]
    <2>1. Log' = [i \in DOMAIN Log' |-> Log'[i]]
      BY DEF Log
    <2> QED
      BY <1>5, <2>1
  <1>8. Log' \in Seq(S)
    BY <1>0, <1>5, <1>6, <1>7, LogType
  <1>9. Log' = Append(Log, e)
    <2>1. Len(Log) = n /\ Len(Log') = n + 1
      BY <1>0, <1>5, <1>8, LogType
    <2>2. /\ Append(Log, e) \in Seq(S) /\ Len(Append(Log, e)) = n + 1
          /\ \A i \in 1..n : Append(Log, e)[i] = Log[i]
          /\ Append(Log, e)[n + 1] = e
      BY <1>6, <2>1, AppendProperties
    <2>3. \A i \in 1..(n + 1) : Log'[i] = Append(Log, e)[i]
      BY <1>0, <1>5, <2>2
    <2> QED
      BY <1>8, <2>1, <2>2, <2>3, SeqEqual
  <1> QED
    BY <1>9 DEF e

LEMMA Answers ==
  ASSUME RefInv, [Next]_vars, NEW r \in Runs, PostStep(r), pc'[r] = "answered",
         NEW inline, NEW body, Store(r, inline, body)
  PROVE  Abstract!Answer(r, job[r].event)
  <1>0. Base /\ IInv
    BY DEF RefInv, IInv
  <1>1. pc[r] \in Posting /\ UNCHANGED job /\ Alone(r)
    BY <1>0, PostShape, StepsAreAlone DEF Base
  <1>2. pc[r] \in OpenAt
    BY <1>1 DEF OpenAt, HasFindings, Section
  <1>3. /\ Requests[r] = Asked(job[r], "open") /\ RequestOf(r)' = Asked(job[r], "answered")
    BY <1>1, <1>2, RequestCases, RequestCasesNext DEF Requests
  <1>4. Requests' = [Requests EXCEPT ![r] = RequestOf(r)']
    BY <1>1, RequestMoves
  <1>5. [Requests[r] EXCEPT !.status = "answered"] = RequestOf(r)'
    BY <1>3 DEF Asked
  <1>6. Abstract!Close(r, "answered")
    BY <1>4, <1>5 DEF Abstract!Close
  <1>7. Log' = Append(Log, [sha |-> job[r].head, run |-> r, verdict |-> job[r].event,
                            dismissed |-> FALSE])
    BY <1>0, <1>1, LogGrows
  <1>8. ~Abstract!Redundant(r)
    BY <1>1, PostedIsNew
  <1>9. Requests[r].status = "open" /\ Requests[r].sha = job[r].head
    BY <1>3 DEF Asked
  <1> QED
    BY <1>6, <1>7, <1>8, <1>9 DEF Abstract!Answer

LEMMA Dismisses ==
  ASSUME IInv, [Next]_vars, NEW d \in DOMAIN reviews, Dismiss(d)
  PROVE  Abstract!Dismiss(d)
  <1>0. Base /\ reviews \in Seq(Review)
    BY DEF IInv, Base, TypeOK
  <1>1. UNCHANGED <<pc, job>> /\ reviews' = [reviews EXCEPT ![d].state = "DISMISSED"]
    BY DEF Dismiss
  <1>2. Requests' = Requests
    BY <1>1 DEF Requests, RequestOf, NoRequestWith
  <1>3. /\ DOMAIN reviews' = DOMAIN reviews
        /\ \A i \in DOMAIN reviews \ {d} : reviews'[i] = reviews[i]
        /\ reviews'[d].sha = reviews[d].sha /\ reviews'[d].run = reviews[d].run
        /\ reviews'[d].state = "DISMISSED"
    <2>1. reviews[d] \in Review
      BY <1>0
    <2> QED
      BY <1>0, <1>1, <2>1 DEF Review
  <1> DEFINE next == [Log EXCEPT ![d].dismissed = TRUE]
  <1>4. Log' = next
    <2>1. DOMAIN Log' = DOMAIN Log /\ DOMAIN next = DOMAIN Log /\ DOMAIN Log = DOMAIN reviews
      BY <1>3 DEF Log
    <2>2. ASSUME NEW i \in DOMAIN Log PROVE Log'[i] = next[i]
      <3>1. /\ i \in DOMAIN reviews /\ i \in DOMAIN reviews'
            /\ reviews'[i].sha = reviews[i].sha /\ reviews'[i].run = reviews[i].run
            /\ reviews'[i].state = IF i = d THEN "DISMISSED" ELSE reviews[i].state
        BY <1>3, <2>1, <2>2
      <3>2. Log[i] = [sha |-> reviews[i].sha, run |-> reviews[i].run,
                      verdict |-> job[reviews[i].run].event,
                      dismissed |-> reviews[i].state = "DISMISSED"]
        BY <3>1, Zenon DEF Log
      <3>3. Log'[i] = [sha |-> reviews[i].sha, run |-> reviews[i].run,
                       verdict |-> job[reviews[i].run].event,
                       dismissed |-> reviews'[i].state = "DISMISSED"]
        BY <1>1, <3>1 DEF Log
      <3>4. CASE i # d
        BY <3>1, <3>2, <3>3, <3>4
      <3>5. CASE i = d
        <4>1. next[i] = [Log[i] EXCEPT !.dismissed = TRUE]
          BY <2>2, <3>5
        <4>2. Log'[i] = [sha |-> reviews[i].sha, run |-> reviews[i].run,
                         verdict |-> job[reviews[i].run].event, dismissed |-> TRUE]
          BY <3>1, <3>3, <3>5
        <4> HIDE DEF next
        <4> QED
          <5>1. PICK yes, was : yes = TRUE /\ was = (reviews[i].state = "DISMISSED")
            OBVIOUS
          <5>2. Log[i] = [sha |-> reviews[i].sha, run |-> reviews[i].run,
                          verdict |-> job[reviews[i].run].event, dismissed |-> was]
            BY <3>2, <5>1, Zenon
          <5>3. [Log[i] EXCEPT !.dismissed = yes]
                  = [sha |-> reviews[i].sha, run |-> reviews[i].run,
                     verdict |-> job[reviews[i].run].event, dismissed |-> yes]
            BY <5>2, SetDismissed
          <5> QED
            BY <4>1, <4>2, <5>1, <5>3, Zenon
      <3> QED
        BY <3>4, <3>5
    <2>3. Log' = [i \in DOMAIN Log' |-> Log'[i]] /\ next = [i \in DOMAIN next |-> next[i]]
      BY DEF Log
    <2> HIDE DEF next
    <2> QED
      BY <2>1, <2>2, <2>3
  <1> QED
    BY <1>2, <1>4 DEF Abstract!Dismiss

LEMMA StepRefines ==
  ASSUME Atomic, RefInv, [Next]_vars
  PROVE  [Abstract!Next]_(Abstract!logVars)
  <1>0. IInv /\ Base /\ SnapBound /\ pc \in [Runs -> PC] /\ job \in [Runs -> Job]
    BY DEF RefInv, IInv, Base, TypeOK
  <1>1. CASE Push \/ Quiescent \/ UNCHANGED vars
    <2>1. UNCHANGED <<reviews, pc, job>>
      BY <1>1 DEF Push, Quiescent, vars
    <2>2. Requests' = Requests /\ Log' = Log
      BY <2>1 DEF Requests, RequestOf, NoRequestWith, Log
    <2> QED
      BY <2>2 DEF Abstract!logVars
  <1>2. ASSUME NEW d \in DOMAIN reviews, Dismiss(d)
        PROVE  Abstract!Next
    <2>1. Abstract!Dismiss(d) /\ d \in DOMAIN Log
      BY <1>0, <1>2, Dismisses, LogType
    <2> QED
      BY <2>1 DEF Abstract!Next
  <1>3. ASSUME NEW r \in Runs, Cancel(r) \/ Die(r) \/ Skip(r) \/ ThinkFails(r) \/ RefuseUnparsed(r)
        PROVE  Abstract!Next
    <2>1. Alone(r) /\ UNCHANGED reviews
      BY <1>0, <1>3, StepsAreAlone DEF QuietStep, Cancel, Die, Skip, ThinkFails, RefuseUnparsed
    <2>2. pc[r] \in NotTaken \cup OpenAt /\ pc'[r] \in Gone
      BY <1>0, <1>3 DEF Cancel, Die, Skip, ThinkFails, RefuseUnparsed, Goto, PC, Ended, NotTaken,
                        OpenAt, HasFindings, Section, Posting, Gone
    <2>3. Abstract!GiveUp(r)
      BY <1>0, <2>1, <2>2, LogStays, GivesUp
    <2> QED
      BY <2>3 DEF Abstract!Next
  <1>4. ASSUME NEW r \in Runs,
               ListCommits(r) \/ ReadFiles(r) \/ \E manual \in BOOLEAN : Begin(r, manual)
        PROVE  UNCHANGED Abstract!logVars
    <2>1. Alone(r) /\ UNCHANGED reviews
      BY <1>0, <1>4, StepsAreAlone DEF QuietStep, ListCommits, ReadFiles, Begin
    <2>2. pc[r] \in NotTaken /\ pc'[r] \in NotTaken
      BY <1>0, <1>4 DEF ListCommits, ReadFiles, Begin, Goto, NotTaken
    <2> QED
      BY <1>0, <2>1, <2>2, LogStays, Stutters
  <1>5. ASSUME NEW r \in Runs, TakeSnapshot(r)
        PROVE  Abstract!Next
    BY <1>0, <1>5, TakesUp
  <1>6. ASSUME NEW r \in Runs, Think(r) \/ RequestLock(r) \/ EnterSection(r)
        PROVE  UNCHANGED Abstract!logVars
    <2>1. Alone(r) /\ UNCHANGED reviews
      BY <1>0, <1>6, StepsAreAlone DEF QuietStep, Think, RequestLock, EnterSection
    <2>2. pc[r] \in OpenAt /\ pc'[r] \in OpenAt
      BY <1>0, <1>6 DEF Think, RequestLock, EnterSection, Goto, OpenAt, HasFindings, Section
    <2>3. SameRun(job[r], job'[r])
      <3>1. CASE Think(r)
        <4>1. PICK parsed, listed \in BOOLEAN, found \in SUBSET Findings :
                job' = [job EXCEPT ![r] = Reviewed(job[r], parsed, found, listed)]
          BY <3>1 DEF Think
        <4>2. SameRun(job[r], Reviewed(job[r], parsed, found, listed))
          BY <1>0, ReviewedShape
        <4> QED
          BY <1>0, <4>1, <4>2
      <3>2. CASE RequestLock(r)
        <4>1. PICK k \in Job : job' = [job EXCEPT ![r] = k] /\ SameRun(job[r], k)
          BY <1>0, <3>2, LockShape
        <4> QED
          BY <1>0, <4>1
      <3>3. CASE EnterSection(r)
        BY <3>3 DEF EnterSection, SameRun
      <3> QED
        BY <1>6, <3>1, <3>2, <3>3
    <2> QED
      BY <1>0, <2>1, <2>2, <2>3, LogStays, Stutters
  <1>7. ASSUME NEW r \in Runs, Check(r)
        PROVE  [Abstract!Next]_(Abstract!logVars)
    <2>1. pc[r] = "checking" /\ UNCHANGED <<reviews, job>> /\ Alone(r)
      BY <1>0, <1>7, StepsAreAlone DEF Check, QuietStep
    <2>2. PICK standing \in StandingVerdicts :
            IF StaysSilent(r, standing)
            THEN Goto(r, "silent") /\ LeaveLock(r)
            ELSE /\ Goto(r, IF job[r].fresh # {} THEN "posting" ELSE "verdict")
                 /\ UNCHANGED lockVars
      BY <1>7 DEF Check
    <2>3. CASE StaysSilent(r, standing)
      <3>1. Abstract!Silence(r)
        BY <1>0, <2>1, <2>2, <2>3, FallsSilent
      <3> QED
        BY <3>1 DEF Abstract!Next
    <2>4. CASE ~StaysSilent(r, standing)
      <3>1. pc[r] \in OpenAt /\ pc'[r] \in OpenAt
        BY <1>0, <2>1, <2>2, <2>4 DEF Goto, OpenAt, HasFindings, Section, Posting
      <3>2. SameRun(job[r], job'[r])
        BY <2>1 DEF SameRun
      <3> QED
        BY <1>0, <2>1, <3>1, <3>2, LogStays, Stutters
    <2> QED
      BY <2>3, <2>4
  <1>8. ASSUME NEW r \in Runs, PostStep(r)
        PROVE  [Abstract!Next]_(Abstract!logVars)
    <2>1. pc[r] \in Posting /\ UNCHANGED job /\ Alone(r)
      BY <1>0, <1>8, PostShape, StepsAreAlone DEF Base
    <2>2. pc[r] \in OpenAt
      BY <2>1 DEF OpenAt, HasFindings, Section
    <2>3. CASE (\E inline, body : Store(r, inline, body)) /\ pc'[r] = "answered"
      <3>1. Abstract!Answer(r, job[r].event)
        BY <1>8, <2>3, Answers
      <3>2. job[r].event \in Event
        BY <1>0 DEF Job
      <3> QED
        BY <3>1, <3>2 DEF Abstract!Next
    <2>4. CASE UNCHANGED reviews /\ pc'[r] = "unsubmitted"
      <3>1. Abstract!GiveUp(r)
        BY <1>0, <2>1, <2>2, <2>4, LogStays, GivesUp DEF Gone
      <3> QED
        BY <3>1 DEF Abstract!Next
    <2>5. CASE UNCHANGED reviews /\ pc'[r] \in Posting
      <3>1. pc'[r] \in OpenAt /\ SameRun(job[r], job'[r])
        BY <2>1, <2>5 DEF OpenAt, HasFindings, Section, SameRun
      <3> QED
        BY <1>0, <2>1, <2>2, <2>5, <3>1, LogStays, Stutters
    <2> QED
      BY <1>0, <1>8, <2>3, <2>4, <2>5, PostOutcome DEF Atomic
  <1> QED
    BY StepCases, <1>0, <1>1, <1>2, <1>3, <1>4, <1>5, <1>6, <1>7, <1>8
    DEF Environment, QuietStep

LEMMA AbstractInit == Init => Abstract!Init
  <1> SUFFICES ASSUME Init PROVE Abstract!Init
    OBVIOUS
  <1>1. Log = <<>>
    BY DEF Init, Log
  <1>2. Requests = [r \in Runs |-> Abstract!NoRequest]
    BY DEF Init, Requests, RequestOf, NoRequestWith, Abstract!NoRequest
  <1> QED
    BY <1>1, <1>2 DEF Abstract!Init

(***************************************************************************)
(* Seen from outside, a review is published, withheld or given up in one   *)
(* step, and a published one is not redundant at the moment it appears: the*)
(* check and the publication under the lock are atomic.                    *)
(***************************************************************************)
THEOREM Implementation ==
  ASSUME Atomic
  PROVE  Spec => ImplementsVerdictLog
  BY RefInvInit, RefInvNext, StepRefines, AbstractInit, PTL
  DEF Spec, ImplementsVerdictLog, Abstract!Spec

-----------------------------------------------------------------------------
(* While GitHub's answers arrive, a stored review is an answered run.      *)
OnlyAnswered == \A i \in DOMAIN reviews : pc[reviews[i].run] = "answered"
OnlyOnce == \A i, j \in DOMAIN reviews : reviews[i].run = reviews[j].run => i = j

LEMMA AnsweredStays ==
  ASSUME Base, [Next]_vars, NEW r \in Runs, pc[r] = "answered"
  PROVE  pc'[r] = "answered"
  <1>1. pc'[r] \in PC
    BY BaseNext DEF Base, TypeOK
  <1>2. \A p \in PC : Position[p] <= 11
    BY Positions DEF PC, Ended
  <1>3. Position[pc[r]] = 11 /\ Position[pc'[r]] \in Nat
    BY <1>1, Positions DEF Ended, PC
  <1> QED
    BY <1>1, <1>2, <1>3, StepAdvances DEF Advances

LEMMA OnlyAnsweredNext ==
  ASSUME IInv, OnlyAnswered, OnlyOnce, "lost" \notin Faults, [Next]_vars
  PROVE  OnlyAnswered' /\ OnlyOnce'
  <1>0. Base /\ reviews \in Seq(Review)
    BY DEF IInv, Base, TypeOK
  <1>1. ASSUME NEW i \in DOMAIN reviews
        PROVE  reviews'[i].run = reviews[i].run /\ pc'[reviews'[i].run] = "answered"
    <2>1. reviews[i] \in Review
      BY <1>0
    <2>2. reviews[i].run \in Runs /\ pc[reviews[i].run] = "answered"
      BY <2>1 DEF Review, OnlyAnswered
    <2> QED
      BY <1>0, <1>1, <2>2, LogKeeps, AnsweredStays
  <1>2. ASSUME NEW i \in DOMAIN reviews' \ DOMAIN reviews
        PROVE  /\ i = Len(reviews) + 1
               /\ pc[reviews'[i].run] # "answered" /\ pc'[reviews'[i].run] = "answered"
    <2>1. PICK r \in Runs : PostStep(r) /\ pc[r] \in Posting /\ reviews'[i].run = r
                            /\ i = Len(reviews) + 1
      BY <1>0, LogKeeps
    <2>2. ~UNCHANGED reviews
      BY <1>2
    <2> QED
      BY <1>0, <2>1, <2>2, PostOutcome DEF Posting
  <1>3. OnlyAnswered'
    BY <1>1, <1>2 DEF OnlyAnswered
  <1>4. ASSUME NEW i \in DOMAIN reviews', NEW j \in DOMAIN reviews',
               reviews'[i].run = reviews'[j].run
        PROVE  i = j
    <2>1. CASE i \in DOMAIN reviews /\ j \in DOMAIN reviews
      BY <1>1, <1>4, <2>1 DEF OnlyOnce
    <2>2. CASE i \notin DOMAIN reviews /\ j \notin DOMAIN reviews
      BY <1>2, <2>2
    <2>3. ASSUME NEW k \in DOMAIN reviews, NEW n \in DOMAIN reviews' \ DOMAIN reviews
          PROVE  reviews'[k].run # reviews'[n].run
      BY <1>1, <1>2 DEF OnlyAnswered
    <2> QED
      BY <1>4, <2>1, <2>2, <2>3
  <1> QED
    BY <1>3, <1>4 DEF OnlyOnce

(***************************************************************************)
(* As long as no answer of GitHub is lost, a run and its review go         *)
(* together: an answered run has exactly one, any other run has none, also *)
(* one that died, was cancelled or gave up on the submission.              *)
(* (pr_reviewer.py, _publish_single_review_locked.)                        *)
(***************************************************************************)
AnswersAreReviews ==
    \A r \in Runs :
        /\ pc[r] = "answered" <=> ByRun(r) # {}
        /\ \A i, j \in ByRun(r) : i = j

THEOREM ReviewsAreAnswers ==
  ASSUME "lost" \notin Faults
  PROVE  Spec => []AnswersAreReviews
  <1> DEFINE Once == IInv /\ Delivered /\ OnlyAnswered /\ OnlyOnce
  <1>1. Init => Once
    BY IInvInit DEF Init, Delivered, OnlyAnswered, OnlyOnce
  <1>2. Once /\ [Next]_vars => Once'
    BY IInvNext, DeliveredNext, OnlyAnsweredNext DEF IInv
  <1>3. Once => AnswersAreReviews
    BY DEF Delivered, OnlyAnswered, OnlyOnce, ByRun, AnswersAreReviews
  <1> QED
    BY <1>1, <1>2, <1>3, PTL DEF Spec

=============================================================================
