------------------------- MODULE ReviewAudit_proofs -------------------------
(***************************************************************************)
(* Proofs about ReviewAudit: the record has its type, a closing write that *)
(* got through leaves no RUNNING row, and the specification implements     *)
(* AuditRecord, all for any set of faults.  The inductive invariant says   *)
(* how far the opening and the closing work may have come when the row and *)
(* the stream are what they are, and that only one outcome is ever chosen. *)
(* What AuditRecord promises is proved of it and carried over by the       *)
(* refinement: the record tells the truth, and what it said stays.         *)
(***************************************************************************)
EXTENDS ReviewAudit, SequenceTheorems, TLAPS

Unannounced == stream \in {<<>>, <<"REQUESTED">>}

(* The opening work precedes what is seen of the record.                   *)
Opening ==
    /\ start = "none" <=> pc = "idle"
    /\ start \in {"none", "queued"} => row = "none" /\ stream = <<>>
    /\ start = "inserted" => row # "none" /\ stream = <<>>
    /\ start = "done" => row # "none"

(* The closing work comes after it and announces last.                     *)
Closing ==
    /\ term.stage \in {"writing", "announcing", "closed"} => start \in {"done", "settled"}
    /\ term.claimed => row # "none" /\ start \in {"done", "settled"}
    /\ term.stage = "announcing" => row \in Terminal
    /\ term.stage = "closed" => row # "RUNNING"
    /\ term.stage # "closed" => Unannounced

(* One outcome is chosen, it is true, and the row knows no other.          *)
Outcome ==
    /\ pc \in {"idle", "starting", "reviewing"} => delivery = "none" /\ term.stage = "none"
    /\ pc = "publishing" => term.stage = "none"
    /\ term.to = "COMPLETED" => delivery \in {"done", "refused"}
    /\ term.to = "SKIPPED" => delivery = "none" /\ pc \in {"closing", "ended", "dead"}
    /\ row \in {"COMPLETED", "SKIPPED"} => term.stage # "none" /\ row = term.to

IInv == TypeOK /\ Opening /\ Closing /\ Outcome

LEMMA InitIInv == Init => IInv
  <1> SUFFICES ASSUME Init PROVE IInv
    OBVIOUS
  <1>1. stream \in Seq({"REQUESTED"} \cup Terminal) /\ Len(stream) <= 2
    BY DEF Init
  <1>2. TypeOK
    BY <1>1 DEF Init, TypeOK, NoTerm, Terminal
  <1>3. Opening /\ Closing /\ Outcome
    BY DEF Init, Opening, Closing, Outcome, Unannounced, NoTerm
  <1> QED
    BY <1>2, <1>3 DEF IInv

(***************************************************************************)
(* Appending to a stream that has announced no end.                        *)
(***************************************************************************)
LEMMA StreamGrows ==
  ASSUME Unannounced, NEW e \in {"REQUESTED"} \cup Terminal
  PROVE  /\ Append(stream, e) \in Seq({"REQUESTED"} \cup Terminal)
         /\ Len(Append(stream, e)) <= 2
  <1> DEFINE S == {"REQUESTED"} \cup Terminal
  <1>1. stream \in Seq(S) /\ (Len(stream) = 0 \/ Len(stream) = 1)
    <2>1. CASE stream = <<>>
      BY <2>1
    <2>2. CASE stream = <<"REQUESTED">>
      BY <2>2
    <2> QED
      BY <2>1, <2>2 DEF Unannounced
  <1>2. Append(stream, e) \in Seq(S) /\ Len(Append(stream, e)) = Len(stream) + 1
    BY <1>1, AppendProperties
  <1>3. CASE Len(stream) = 0
    <2>1. Len(Append(stream, e)) = 1
      BY <1>2, <1>3
    <2> QED
      BY <1>2, <2>1
  <1>4. CASE Len(stream) = 1
    <2>1. Len(Append(stream, e)) = 2
      BY <1>2, <1>4
    <2> QED
      BY <1>2, <2>1
  <1> QED
    BY <1>1, <1>3, <1>4

(***************************************************************************)
(* Concluding chooses the one outcome: none has been chosen before.        *)
(***************************************************************************)
LEMMA ConcludeKeeps ==
  ASSUME IInv, pc \in {"reviewing", "publishing"}, NEW o \in Terminal, Conclude(o),
         o = "COMPLETED" => delivery \in {"done", "refused"}, o = "SKIPPED" => delivery = "none",
         UNCHANGED <<known, start, delivery, row, columns, stream>>,
         beat' \in {"off", "asleep", "asking"}
  PROVE  IInv'
  <1>1. /\ term.stage = "none" /\ pc' = "closing"
        /\ term'.to = o /\ term'.stage \in {"waiting", "void"} /\ term'.claimed = FALSE
    BY DEF IInv, Outcome, Conclude
  <1>2. TypeOK'
    BY <1>1 DEF IInv, TypeOK, Conclude, columns, Terminal
  <1>3. Opening' /\ Closing'
    BY <1>1 DEF IInv, Opening, Closing, Unannounced, Terminal
  <1>4. Outcome'
    BY <1>1 DEF IInv, Outcome
  <1> QED
    BY <1>2, <1>3, <1>4 DEF IInv

LEMMA CancelledKeeps ==
  ASSUME IInv, Cancelled, UNCHANGED <<known, start, delivery, row, columns, stream>>,
         beat' \in {"off", "asleep", "asking"}
  PROVE  IInv'
  <1>1. CASE pc \in {"reviewing", "publishing"} /\ Conclude("FAILED")
    BY <1>1, ConcludeKeeps DEF Terminal
  <1>2. CASE pc = "closing" /\ pc' = "ended" /\ UNCHANGED term
    BY <1>2 DEF IInv, TypeOK, Opening, Closing, Outcome, Unannounced, columns
  <1> QED
    BY <1>1, <1>2 DEF Cancelled

LEMMA StepIInv == IInv /\ [Next]_vars => IInv'
  <1> SUFFICES ASSUME IInv, [Next]_vars PROVE IInv'
    OBVIOUS
  <1> USE DEF run, columns
  <1>1. CASE Begin
    BY <1>1 DEF Begin, IInv, TypeOK, Opening, Closing, Outcome, Unannounced
  <1>2. CASE Started \/ StartDeadline \/ SettleStart
    <2>1. CASE Started
      <3>1. known' \in BOOLEAN /\ flag' \in BOOLEAN /\ stale' \in BOOLEAN
        BY <2>1, Zenon DEF Started, EnterReview, IInv, TypeOK
      <3>2. TypeOK'
        BY <2>1, <3>1 DEF Started, EnterReview, IInv, TypeOK
      <3>3. Opening' /\ Closing' /\ Outcome'
        BY <2>1 DEF Started, EnterReview, IInv, Opening, Closing, Outcome, Unannounced
      <3> QED
        BY <3>2, <3>3 DEF IInv
    <2>2. CASE StartDeadline
      BY <2>2 DEF StartDeadline, EnterReview, IInv, TypeOK, Opening, Closing, Outcome, Unannounced
    <2>3. CASE SettleStart
      BY <2>3 DEF SettleStart, IInv, TypeOK, Opening, Closing, Outcome, Unannounced
    <2> QED
      BY <1>2, <2>1, <2>2, <2>3
  <1>3. CASE Skip
    BY <1>3, ConcludeKeeps DEF Skip, Terminal, IInv, TypeOK, Outcome
  <1>4. CASE ReviewFails
    BY <1>4, ConcludeKeeps DEF ReviewFails, Terminal, IInv, TypeOK
  <1>5. CASE Publish
    BY <1>5 DEF Publish, IInv, TypeOK, Opening, Closing, Outcome, Unannounced
  <1>6. CASE DeliveryEnds
    BY <1>6 DEF DeliveryEnds, IInv, TypeOK, Opening, Closing, Outcome, Unannounced
  <1>7. CASE Published
    BY <1>7, ConcludeKeeps DEF Published, Terminal, IInv, TypeOK
  <1>8. CASE Leave
    BY <1>8 DEF Leave, IInv, TypeOK, Opening, Closing, Outcome, Unannounced
  <1>9. CASE Insert
    <2>1. TypeOK'
      <3>1. known' \in BOOLEAN /\ flag' \in BOOLEAN /\ stale' \in BOOLEAN
        BY <1>9, Zenon DEF Insert, IInv, TypeOK
      <3> QED
        BY <1>9, <3>1 DEF Insert, IInv, TypeOK
    <2>2. Opening' /\ Closing' /\ Outcome'
      BY <1>9 DEF Insert, IInv, TypeOK, Opening, Closing, Outcome, Unannounced
    <2> QED
      BY <2>1, <2>2 DEF IInv
  <1>10. CASE AnnounceRequest
    <2>1. Unannounced /\ start = "inserted" /\ start' = "done" /\ stream = <<>>
      BY <1>10 DEF AnnounceRequest, IInv, Opening, Unannounced
    <2>2. stream' \in {<<>>, <<"REQUESTED">>}
      BY <2>1, <1>10 DEF AnnounceRequest
    <2>3. TypeOK'
      <3>1. stream' \in Seq({"REQUESTED"} \cup Terminal) /\ Len(stream') <= 2
        BY <2>1, <1>10, StreamGrows DEF AnnounceRequest, IInv, TypeOK
      <3> QED
        BY <2>1, <3>1, <1>10 DEF AnnounceRequest, IInv, TypeOK
    <2>4. Opening' /\ Closing' /\ Outcome'
      BY <2>1, <2>2, <1>10 DEF AnnounceRequest, IInv, Opening, Closing, Outcome, Unannounced
    <2> QED
      BY <2>3, <2>4 DEF IInv
  <1>11. CASE Touch
    <2>1. TypeOK'
      <3>1. known' \in BOOLEAN /\ flag' \in BOOLEAN /\ stale' \in BOOLEAN
        BY <1>11, Zenon DEF Touch, IInv, TypeOK
      <3> QED
        BY <1>11, <3>1 DEF Touch, IInv, TypeOK
    <2>2. Opening' /\ Closing' /\ Outcome'
      BY <1>11 DEF Touch, IInv, TypeOK, Opening, Closing, Outcome, Unannounced
    <2> QED
      BY <2>1, <2>2 DEF IInv
  <1>12. CASE Ask
    <2>1. CASE beat' = "off" /\ Cancelled
      BY <2>1, <1>12, CancelledKeeps DEF Ask
    <2>2. CASE beat' = "asleep" /\ UNCHANGED <<pc, term>>
      BY <2>2, <1>12 DEF Ask, IInv, TypeOK, Opening, Closing, Outcome, Unannounced
    <2> QED
      BY <1>12, <2>1, <2>2 DEF Ask
  <1>13. CASE AwaitStart
    BY <1>13 DEF AwaitStart, IInv, TypeOK, Opening, Closing, Outcome, Unannounced, Terminal
  <1>14. CASE Write
    <2>1. /\ term.stage = "writing" /\ term'.stage \in {"announcing", "closed", "writing", "lost"}
          /\ term'.to = term.to /\ (term'.claimed => term.claimed \/ row = "RUNNING")
          /\ term' \in [stage: {"writing", "announcing", "closed", "lost"},
                                             to: Terminal, claimed: BOOLEAN]
      BY <1>14 DEF Write, IInv, TypeOK
    <2>2. row' \in {row, term.to} /\ (row # "RUNNING" => row' = row)
      BY <1>14 DEF Write, UpdateRow
    <2>3. /\ term'.stage \in {"announcing", "closed"} => row' = IF row = "RUNNING" THEN term.to ELSE row
          /\ term'.stage = "announcing" => row # "none"
      BY <1>14, <2>1 DEF Write, UpdateRow, Transitioned, IInv, TypeOK, Closing
    <2>4. TypeOK'
      BY <1>14, <2>1, <2>2 DEF Write, IInv, TypeOK
    <2>5. Opening' /\ Outcome'
      BY <1>14, <2>1, <2>2 DEF Write, IInv, TypeOK, Opening, Closing, Outcome, Terminal
    <2>6. Closing'
      BY <1>14, <2>1, <2>2, <2>3 DEF Write, IInv, TypeOK, Opening, Closing, Unannounced, Terminal
    <2> QED
      BY <2>4, <2>5, <2>6 DEF IInv
  <1>15. CASE AnnounceEnd
    <2>1. Unannounced /\ term.to \in Terminal /\ term'.stage = "closed" /\ term'.to = term.to /\ term'.claimed = term.claimed
      BY <1>15 DEF AnnounceEnd, IInv, TypeOK, Closing
    <2>2. TypeOK'
      BY <2>1, <1>15, StreamGrows DEF AnnounceEnd, IInv, TypeOK
    <2>3. Opening' /\ Closing' /\ Outcome'
      BY <2>1, <1>15 DEF AnnounceEnd, IInv, TypeOK, Opening, Closing, Outcome, Terminal
    <2> QED
      BY <2>2, <2>3 DEF IInv
  <1>16. CASE CancelStart
    <2>1. /\ term.stage = "none" /\ pc = "starting" /\ pc' = "ended"
          /\ term' = [stage |-> "waiting", to |-> "FAILED", claimed |-> FALSE]
          /\ UNCHANGED <<known, beat, start, delivery, row, columns, stream>>
      BY <1>16 DEF CancelStart, NoTerm, IInv, Outcome
    <2>2. TypeOK'
      BY <2>1 DEF IInv, TypeOK, Terminal
    <2>3. Opening' /\ Closing'
      BY <2>1 DEF IInv, Opening, Closing, Unannounced
    <2>4. Outcome'
      BY <2>1 DEF IInv, Outcome
    <2> QED
      BY <2>2, <2>3, <2>4 DEF IInv
  <1>17. CASE Cancel
    BY <1>17, CancelledKeeps DEF Cancel, IInv, TypeOK
  <1>18. CASE Crash
    BY <1>18 DEF Crash, IInv, TypeOK, Opening, Closing, Outcome, Unannounced, Terminal
  <1>19. CASE RequestCancel \/ GoStale \/ MissBeats
    <2>1. TypeOK'
      <3>1. known' \in BOOLEAN /\ flag' \in BOOLEAN /\ stale' \in BOOLEAN
        BY <1>19, Zenon DEF RequestCancel, GoStale, MissBeats, IInv, TypeOK
      <3> QED
        BY <1>19, <3>1 DEF RequestCancel, GoStale, MissBeats, IInv, TypeOK
    <2>2. Opening' /\ Closing' /\ Outcome'
      BY <1>19 DEF RequestCancel, GoStale, MissBeats, IInv, TypeOK, Opening, Closing, Outcome, Unannounced
    <2> QED
      BY <2>1, <2>2 DEF IInv
  <1>20. CASE Reconcile
    BY <1>20 DEF Reconcile, IInv, TypeOK, Opening, Closing, Outcome, Unannounced, Terminal
  <1>21. CASE UNCHANGED vars
    BY <1>21 DEF vars, IInv, TypeOK, Opening, Closing, Outcome, Unannounced
  <1> QED
    BY <1>1, <1>2, <1>3, <1>4, <1>5, <1>6, <1>7, <1>8, <1>9, <1>10, <1>11, <1>12, <1>13,
       <1>14, <1>15, <1>16, <1>17, <1>18, <1>19, <1>20, <1>21
       DEF Next, RunStep, StorageStep, Quiescent

LEMMA AlwaysIInv == Spec => []IInv
  BY InitIInv, StepIInv, PTL DEF Spec

(***************************************************************************)
(* The record has its type: at most two events are announced for one run,  *)
(* whatever fails (audit.py, review_started and the terminal hooks).       *)
(***************************************************************************)
THEOREM AuditTypes == Spec => []TypeOK
  BY AlwaysIInv, PTL DEF IInv

(***************************************************************************)
(* A closing write that got through leaves no RUNNING row: it never ran    *)
(* before the insert it is serialized behind (pr_reviewer.py:147-178).     *)
(***************************************************************************)
THEOREM LateInsertsAreClosed == Spec => []LateInsertIsClosed
  <1>1. IInv => LateInsertIsClosed
    BY DEF IInv, Closing, LateInsertIsClosed, Terminal
  <1> QED
    BY AlwaysIInv, <1>1, PTL

-----------------------------------------------------------------------------
(***************************************************************************)
(* The heartbeat belongs to a run that is at work and knows its row.       *)
(***************************************************************************)
Beating == beat # "off" => pc \in {"reviewing", "publishing", "closing"} /\ known

LEMMA BeatingStep == TypeOK /\ Beating /\ [Next]_vars => Beating'
  <1> SUFFICES ASSUME TypeOK, Beating, [Next]_vars PROVE Beating'
    OBVIOUS
  <1> USE DEF run, columns, Beating
  <1>1. CASE Begin \/ Insert \/ AnnounceRequest \/ SettleStart \/ DeliveryEnds \/ AwaitStart
             \/ Write \/ AnnounceEnd
    BY <1>1 DEF Begin, Insert, AnnounceRequest, SettleStart, DeliveryEnds, AwaitStart, Write,
       AnnounceEnd
  <1>2. CASE Started \/ StartDeadline
    BY <1>2 DEF Started, StartDeadline, EnterReview
  <1>3. CASE Skip \/ ReviewFails \/ Publish \/ Published
    BY <1>3 DEF Skip, ReviewFails, Publish, Published, Conclude
  <1>4. CASE Leave \/ Crash
    BY <1>4 DEF Leave, Crash
  <1>5. CASE Touch
    BY <1>5 DEF Touch
  <1>6. CASE Ask
    BY <1>6 DEF Ask
  <1>7. CASE CancelStart
    BY <1>7 DEF CancelStart
  <1>8. CASE Cancel
    BY <1>8 DEF Cancel, Cancelled, Conclude
  <1>9. CASE RequestCancel \/ GoStale \/ MissBeats \/ Reconcile \/ UNCHANGED vars
    BY <1>9 DEF RequestCancel, GoStale, MissBeats, Reconcile, vars
  <1> QED
    BY <1>1, <1>2, <1>3, <1>4, <1>5, <1>6, <1>7, <1>8, <1>9
       DEF Next, RunStep, StorageStep, Quiescent

(***************************************************************************)
(* Nobody keeps the row of a run alive that has ended or died: no heartbeat*)
(* outlives the coroutine, and none beats without the id of the row, so    *)
(* that a row left RUNNING goes stale and is failed by whoever looks next. *)
(* (pr_reviewer.py, the finally clause of run.)  What is left of           *)
(* RunningIsClosed to TLC is that time passes and somebody looks.          *)
(***************************************************************************)
THEOREM NoBeatOutlivesItsRun == Spec => [](beat # "off" => pc \notin {"ended", "dead"} /\ known)
  <1>1. Init => Beating
    BY DEF Init, Beating
  <1>2. Beating => (beat # "off" => pc \notin {"ended", "dead"} /\ known)
    BY DEF Beating
  <1>3. IInv => TypeOK
    BY DEF IInv
  <1> QED
    BY <1>1, <1>2, <1>3, AlwaysIInv, BeatingStep, PTL DEF Spec

-----------------------------------------------------------------------------
(***************************************************************************)
(* What AuditRecord says of every record, and of everything that keeps its *)
(* promises: the stream announces the end that the row names and nothing   *)
(* after it, and the row tells how the run that wrote it had ended.        *)
(***************************************************************************)
Truthful ==
    /\ \/ stream \in {<<>>, <<"REQUESTED">>}
       \/ row \in Terminal /\ stream \in {<<row>>, <<"REQUESTED", row>>}
    /\ row = "COMPLETED" => Report \in {"delivered", "refused"}
    /\ row = "SKIPPED" => Report = "none"

LEMMA AppendToOne ==
  ASSUME NEW a \in {"REQUESTED"} \cup Terminal, NEW e \in {"REQUESTED"} \cup Terminal
  PROVE  Append(<<a>>, e) = <<a, e>>
  <1> DEFINE S == {"REQUESTED"} \cup Terminal
             one == <<a>>
             two == <<a, e>>
             appended == Append(one, e)
  <1> HIDE DEF S
  <1>1. one \in Seq(S) /\ Len(one) = 1 /\ one[1] = a
    BY DEF S
  <1>2. two \in Seq(S) /\ Len(two) = 2 /\ two[1] = a /\ two[2] = e
    BY DEF S
  <1> HIDE DEF one, two
  <1>3. e \in S
    BY DEF S
  <1>4. /\ appended \in Seq(S) /\ Len(appended) = 2
        /\ appended[1] = one[1] /\ appended[2] = e
    <2>1. appended \in Seq(S) /\ Len(appended) = Len(one) + 1
      BY <1>1, <1>3, AppendProperties
    <2>2. 1 \in 1..Len(one)
      BY <1>1
    <2>3. appended[1] = one[1]
      BY <1>1, <1>3, <2>2, AppendProperties
    <2>4. appended[Len(one) + 1] = e
      BY <1>1, <1>3, AppendProperties
    <2> QED
      BY <1>1, <2>1, <2>3, <2>4
  <1> HIDE DEF appended
  <1>5. \A i \in 1..2 : appended[i] = two[i]
    BY <1>1, <1>2, <1>4
  <1>6. appended = two
    BY <1>2, <1>4, <1>5, SeqEqual
  <1> QED
    BY <1>6 DEF appended, one, two

LEMMA AbstractTellsTheTruth == Abstract!Spec => []Truthful
  <1> USE DEF Terminal, Abstract!Terminal
  <1>1. Abstract!Init => Truthful
    BY DEF Abstract!Init, Truthful
  <1>2. Truthful /\ [Abstract!Next]_(Abstract!recordVars) => Truthful'
    <2> SUFFICES ASSUME Truthful, [Abstract!Next]_(Abstract!recordVars) PROVE Truthful'
      OBVIOUS
    <2>1. ASSUME NEW answer \in {"delivered", "refused"}, Abstract!HandOver(answer)
          PROVE  Truthful'
      BY <2>1 DEF Abstract!HandOver, Truthful
    <2>2. CASE Abstract!Open
      BY <2>2 DEF Abstract!Open, Truthful
    <2>3. ASSUME NEW outcome \in Terminal, Abstract!Close(outcome) PROVE Truthful'
      <3>1. Report \in {"none", "delivered", "refused"}
        BY DEF Report
      <3> QED
        BY <2>3, <3>1 DEF Abstract!Close, Truthful
    <2>4. CASE Abstract!AnnounceRequest
      BY <2>4 DEF Abstract!AnnounceRequest, Truthful
    <2>5. CASE Abstract!AnnounceEnd
      <3>1. stream' = Append(stream, row) /\ row' = row /\ row \in {"COMPLETED", "FAILED", "SKIPPED"}
        BY <2>5 DEF Abstract!AnnounceEnd
      <3>2. CASE stream = <<>>
        <4>1. stream' = <<row>>
          BY <3>1, <3>2
        <4> QED
          BY <2>5, <3>1, <4>1 DEF Abstract!AnnounceEnd, Truthful
      <3>3. CASE stream = <<"REQUESTED">>
        <4>1. stream' = <<"REQUESTED", row>>
          BY <3>1, <3>3, AppendToOne DEF Terminal
        <4> QED
          BY <2>5, <3>1, <4>1 DEF Abstract!AnnounceEnd, Truthful
      <3> QED
        BY <2>5, <3>2, <3>3 DEF Abstract!AnnounceEnd
    <2>6. CASE UNCHANGED Abstract!recordVars
      BY <2>6 DEF Abstract!recordVars, Truthful
    <2> QED
      BY <2>1, <2>2, <2>3, <2>4, <2>5, <2>6 DEF Abstract!Next
  <1> QED
    BY <1>1, <1>2, PTL DEF Abstract!Spec

(***************************************************************************)
(* What a step of AuditRecord may never do: take a row back, reopen or     *)
(* relabel a closed one, or change what was announced.                     *)
(***************************************************************************)
Kept ==
    /\ row # "none" => row' # "none"
    /\ row \in Terminal => row' = row
    /\ stream' # stream => \E e \in {"REQUESTED"} \cup Terminal : stream' = Append(stream, e)
    /\ stream' # stream => row' = row /\ row # "none"

LEMMA AbstractKeepsWhatItSaid ==
  ASSUME [Abstract!Next]_(Abstract!recordVars) PROVE Kept
  <1> USE DEF Terminal, Abstract!Terminal
  <1>1. ASSUME NEW answer \in {"delivered", "refused"}, Abstract!HandOver(answer) PROVE Kept
    BY <1>1 DEF Abstract!HandOver, Kept
  <1>2. CASE Abstract!Open
    BY <1>2 DEF Abstract!Open, Kept
  <1>3. ASSUME NEW outcome \in Terminal, Abstract!Close(outcome) PROVE Kept
    BY <1>3 DEF Abstract!Close, Kept
  <1>4. CASE Abstract!AnnounceRequest
    <2>1. stream' = Append(stream, "REQUESTED")
      BY <1>4 DEF Abstract!AnnounceRequest
    <2> QED
      BY <1>4, <2>1 DEF Abstract!AnnounceRequest, Kept
  <1>5. CASE Abstract!AnnounceEnd
    BY <1>5 DEF Abstract!AnnounceEnd, Kept
  <1>6. CASE UNCHANGED Abstract!recordVars
    BY <1>6 DEF Abstract!recordVars, Kept
  <1> QED
    BY <1>1, <1>2, <1>3, <1>4, <1>5, <1>6 DEF Abstract!Next

-----------------------------------------------------------------------------
(* What the run thinks of its report changes only with its publication.    *)
LEMMA ReportStays == UNCHANGED delivery => UNCHANGED Report
  BY DEF Report

LEMMA StepRefines == IInv /\ [Next]_vars => [Abstract!Next]_(Abstract!recordVars)
  <1> SUFFICES ASSUME IInv, Next PROVE Abstract!Next \/ UNCHANGED Abstract!recordVars
    BY ReportStays DEF vars, run, Abstract!recordVars
  <1> USE ReportStays DEF run, columns, Abstract!recordVars
  <1>1. CASE Begin \/ CancelStart \/ SettleStart \/ Touch \/ Ask \/ AwaitStart \/ RequestCancel \/ GoStale \/ MissBeats
    BY <1>1 DEF Begin, CancelStart, SettleStart, Touch, Ask, AwaitStart, RequestCancel, GoStale, MissBeats
  <1>2. CASE Started \/ StartDeadline \/ Skip \/ ReviewFails \/ Published \/ Leave \/ Cancel
    BY <1>2 DEF Started, StartDeadline, EnterReview, Skip, ReviewFails, Published, Leave, Cancel
  <1>3. CASE Publish
    BY <1>3 DEF Publish, IInv, Outcome, Report
  <1>4. CASE DeliveryEnds
    <2>1. row \in {"none", "RUNNING", "FAILED"}
      BY <1>4 DEF DeliveryEnds, IInv, TypeOK, Outcome, Terminal
    <2>2. ASSUME NEW answer \in {"delivered", "refused"}, Report = "none", Report' = answer
          PROVE  Abstract!Next
      <3>1. Abstract!HandOver(answer)
        BY <2>1, <2>2, <1>4 DEF DeliveryEnds, Abstract!HandOver
      <3> QED
        BY <2>2, <3>1 DEF Abstract!Next
    <2>3. CASE delivery' = "raised"
      BY <2>3, <1>4 DEF DeliveryEnds, Report
    <2>4. CASE delivery' \in {"done", "refused"}
      <3>1. Report = "none" /\ Report' \in {"delivered", "refused"}
        BY <1>4, <2>4 DEF DeliveryEnds, Report
      <3> QED
        BY <2>2, <3>1
    <2> QED
      BY <1>4, <2>3, <2>4 DEF DeliveryEnds
  <1>5. CASE Insert
    BY <1>5 DEF Insert, IInv, Opening, Abstract!Next, Abstract!Open
  <1>6. CASE AnnounceRequest
    <2>1. row # "none" /\ stream = <<>>
      BY <1>6 DEF AnnounceRequest, IInv, Opening
    <2>2. Append(stream, "REQUESTED") = <<"REQUESTED">>
      BY <2>1
    <2> QED
      BY <1>6, <2>1, <2>2 DEF AnnounceRequest, Abstract!Next, Abstract!AnnounceRequest
  <1>7. CASE Write
    <2>1. CASE row = "RUNNING" /\ row' = term.to
      <3>1. term.to \in Terminal
        BY DEF IInv, TypeOK
      <3>2. Abstract!Close(term.to)
        BY <2>1, <1>7 DEF Write, IInv, Outcome, Report, Abstract!Close
      <3> QED
        BY <3>1, <3>2 DEF Abstract!Next, Abstract!Terminal, Terminal
    <2>2. CASE UNCHANGED row
      BY <2>2, <1>7 DEF Write
    <2> QED
      BY <1>7, <2>1, <2>2 DEF Write, UpdateRow
  <1>8. CASE AnnounceEnd
    <2>1. row \in Terminal /\ Unannounced
      BY <1>8 DEF AnnounceEnd, IInv, Closing
    <2>2. CASE row = term.to /\ stream' = Append(stream, term.to)
      BY <2>1, <2>2, <1>8
         DEF AnnounceEnd, Unannounced, Abstract!Next, Abstract!AnnounceEnd, Abstract!Terminal, Terminal
    <2>3. CASE UNCHANGED stream
      BY <2>3, <1>8 DEF AnnounceEnd
    <2> QED
      BY <1>8, <2>2, <2>3 DEF AnnounceEnd
  <1>9. CASE Reconcile
    <2>1. Abstract!Close("FAILED")
      BY <1>9 DEF Reconcile, Abstract!Close
    <2> QED
      BY <2>1 DEF Abstract!Next, Abstract!Terminal
  <1>10. CASE Crash
    BY <1>10 DEF Crash, Report
  <1>11. CASE Quiescent
    BY <1>11 DEF Quiescent, vars
  <1> QED
    BY <1>1, <1>2, <1>3, <1>4, <1>5, <1>6, <1>7, <1>8, <1>9, <1>10, <1>11
       DEF Next, RunStep, StorageStep

(***************************************************************************)
(* The record keeps AuditRecord's promises under every fault: it is closed *)
(* once, COMPLETED only after the report was handed over to the end        *)
(* (delivered, or refused with nothing but a line in the log), SKIPPED only*)
(* when it never will be, and announced only as what it is.  (dashboard/   *)
(* audit.py, _record_terminal_event; storage.py, WHERE status='RUNNING';   *)
(* pr_reviewer.py:763.)                                                    *)
(***************************************************************************)
THEOREM RecordIsImplemented == Spec => ImplementsAuditRecord
  <1>1. Init => Abstract!Init
    BY DEF Init, Report, Abstract!Init
  <1> QED
    BY <1>1, AlwaysIInv, StepRefines, PTL DEF Spec, ImplementsAuditRecord, Abstract!Spec

(***************************************************************************)
(* The record tells the truth, whatever fails and whoever closes it: the   *)
(* coroutine, its detached writes or a reconciling worker.  The report of a*)
(* COMPLETED row was handed over and not broken off, though GitHub may have*)
(* refused it; that of a SKIPPED one never is.  The stream announces no end*)
(* but the one the row names, once and last.  (audit.py,                   *)
(* _record_terminal_event; pr_reviewer.py, _persist_terminal.)             *)
(***************************************************************************)
THEOREM RecordTellsTheTruth == Spec => []Truthful
  BY RecordIsImplemented, AbstractTellsTheTruth, PTL DEF ImplementsAuditRecord

(***************************************************************************)
(* An outcome is final and an announcement is not taken back: a manual     *)
(* stop, a late write tried again and the reconciliation race for the row, *)
(* and the first that finds it RUNNING decides.  (storage.py, every UPDATE *)
(* has WHERE status='RUNNING'.)                                            *)
(***************************************************************************)
THEOREM OutcomeIsFinal == Spec => [][Kept]_vars
  <1>1. Abstract!Spec => [][Kept]_(Abstract!recordVars)
    BY AbstractKeepsWhatItSaid, PTL DEF Abstract!Spec
  <1>2. IInv /\ [Next]_vars => [Kept]_vars
    BY StepRefines, AbstractKeepsWhatItSaid
  <1> QED
    BY <1>2, AlwaysIInv, PTL DEF Spec

=============================================================================
