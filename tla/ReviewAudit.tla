---------------------------- MODULE ReviewAudit ----------------------------
(***************************************************************************)
(* The audit record of one review run (tools/pr_reviewer.py, dashboard/    *)
(* audit.py, dashboard/storage.py).  The run's coroutine opens the record, *)
(* reviews, delivers the report in a thread and closes the record; every   *)
(* write is a thread of the audit pool that the coroutine waits for only   *)
(* until a deadline and then leaves to itself.  A heartbeat keeps the row  *)
(* alive and looks for a manual stop; any worker fails rows that nobody    *)
(* keeps alive.  Rows of different runs share nothing but the storage: all *)
(* statements name one request, so one run is modelled, on a storage that  *)
(* may answer at any time or never.                                        *)
(***************************************************************************)
EXTENDS Naturals, Sequences

CONSTANT Faults      \* which faults the environment may produce, a set of names

VARIABLES
    pc,              \* where the coroutine of PRReviewer.run is
    known,           \* audit_request_id is not ""
    beat,            \* the heartbeat task
    start,           \* the work that opens the record, on the audit pool
    delivery,        \* the thread that publishes the report
    term,            \* the task that closes the record
    row,             \* the status column, "none" before the insert
    flag,            \* the cancel_requested column
    stale,           \* heartbeat_at is older than STALE_REVIEW_SECONDS
    stream           \* this run's dashboard_events

run == <<pc, known, beat, delivery>>
columns == <<flag, stale>>
vars == <<run, start, term, row, columns, stream>>

Terminal == {"COMPLETED", "FAILED", "SKIPPED"}
NoTerm == [stage |-> "none", to |-> "FAILED", claimed |-> FALSE]

TypeOK ==
    /\ pc \in {"idle", "starting", "reviewing", "publishing", "closing", "ended", "dead"}
    /\ known \in BOOLEAN
    /\ beat \in {"off", "asleep", "asking"}
    /\ start \in {"none", "queued", "inserted", "done", "failed", "settled"}
    /\ delivery \in {"none", "running", "done", "refused", "raised", "cut"}
    /\ term \in [stage: {"none", "waiting", "writing", "announcing", "closed", "void", "lost"},
                 to: Terminal, claimed: BOOLEAN]
    /\ row \in {"none", "RUNNING"} \cup Terminal
    /\ flag \in BOOLEAN
    /\ stale \in BOOLEAN
    /\ stream \in Seq({"REQUESTED"} \cup Terminal) /\ Len(stream) <= 2

Init ==
    /\ pc = "idle" /\ known = FALSE /\ beat = "off" /\ delivery = "none"
    /\ start = "none" /\ term = NoTerm
    /\ row = "none" /\ flag = FALSE /\ stale = FALSE
    /\ stream = <<>>

-----------------------------------------------------------------------------
(* Opening the record.                                                     *)

Begin ==
    /\ pc = "idle"
    /\ pc' = "starting"
    /\ start' = "queued"
    /\ UNCHANGED <<known, beat, delivery, term, row, columns, stream>>

(* create_review: the insert commits; or nothing is written (audit disabled*)
(* or storage unavailable); or it commits and restoring the file modes     *)
(* raises, which is reported as a failure all the same.                    *)
Insert ==
    /\ start = "queued"
    /\ \/ row' = "RUNNING" /\ stale' = FALSE /\ start' = "inserted"
       \/ "permissions" \in Faults /\ row' = "RUNNING" /\ stale' = FALSE /\ start' = "failed"
       \/ "unavailable" \in Faults /\ UNCHANGED <<row, stale>> /\ start' = "failed"
    /\ UNCHANGED <<run, term, flag, stream>>

AnnounceRequest ==
    /\ start = "inserted"
    /\ start' = "done"
    /\ \/ stream' = Append(stream, "REQUESTED")
       \/ "events" \in Faults /\ UNCHANGED stream
    /\ UNCHANGED <<run, term, row, columns>>

EnterReview(id) ==
    /\ pc' = "reviewing"
    /\ known' = id
    /\ beat' = IF id THEN "asleep" ELSE "off"
    /\ UNCHANGED <<delivery, term, row, columns, stream>>

(* The id is known to be good, or that there is none; the opening work is  *)
(* settled and leaves _AUDIT_START_TASKS.                                  *)
Started ==
    /\ pc = "starting"
    /\ start \in {"done", "failed"}
    /\ start' = "settled"
    /\ EnterReview(start = "done")

(* The insert is still pending at the deadline: the review goes on, and    *)
(* the work stays registered for the writes to come.                       *)
StartDeadline ==
    /\ pc = "starting"
    /\ start \in {"queued", "inserted"}
    /\ UNCHANGED start
    /\ EnterReview(TRUE)

(* Cancelled before the id is known: a task of its own will wait for the   *)
(* insert and fail it.                                                     *)
CancelStart ==
    /\ "cancel" \in Faults
    /\ pc = "starting"
    /\ pc' = "ended"
    /\ term' = [NoTerm EXCEPT !.stage = "waiting"]
    /\ UNCHANGED <<known, beat, start, delivery, row, columns, stream>>

-----------------------------------------------------------------------------
(* The review.                                                             *)

(* _audit_metadata waits for late opening work, within a deadline of its   *)
(* own, and settles what it saw end.  What it writes is not modelled.      *)
SettleStart ==
    /\ pc = "reviewing"
    /\ start \in {"done", "failed"}
    /\ start' = "settled"
    /\ UNCHANGED <<run, term, row, columns, stream>>

(* _persist_terminal: from here on no other outcome is recorded.           *)
Conclude(outcome) ==
    /\ pc' = "closing"
    /\ term' = [stage |-> IF known THEN "waiting" ELSE "void", to |-> outcome, claimed |-> FALSE]

(* No files, a closed incremental gate, no new files, no prediction.       *)
Skip ==
    /\ pc = "reviewing"
    /\ Conclude("SKIPPED")
    /\ UNCHANGED <<known, beat, start, delivery, row, columns, stream>>

ReviewFails ==
    /\ pc = "reviewing"
    /\ Conclude("FAILED")
    /\ UNCHANGED <<known, beat, start, delivery, row, columns, stream>>

Publish ==
    /\ pc = "reviewing"
    /\ pc' = "publishing"
    /\ delivery' = "running"
    /\ UNCHANGED <<known, beat, start, term, row, columns, stream>>

(* The thread goes on to its end even if nobody waits for it any more: the *)
(* report is on the pull request, or one that makes it unnecessary; GitHub *)
(* refused the review and its verdict, which is only logged; or it raises. *)
DeliveryEnds ==
    /\ delivery = "running"
    /\ \/ delivery' \in {"done", "raised"}
       \/ "refused" \in Faults /\ delivery' = "refused"
    /\ UNCHANGED <<pc, known, beat, start, term, row, columns, stream>>

(* Mutant: a publication that raised is taken for one that came to its end.*)
PublishedAnyhow ==
    /\ pc = "publishing"
    /\ delivery \in {"done", "refused", "raised"}
    /\ Conclude("COMPLETED")
    /\ UNCHANGED <<known, beat, start, delivery, row, columns, stream>>

(* Only an exception makes it a failure.                                   *)
Published ==
    /\ pc = "publishing"
    /\ delivery \in {"done", "refused", "raised"}
    /\ Conclude(IF delivery = "raised" THEN "FAILED" ELSE "COMPLETED")
    /\ UNCHANGED <<known, beat, start, delivery, row, columns, stream>>

(* Mutant: the review waits for its audit write as long as it takes.       *)
LeaveWhenWritten ==
    /\ pc = "closing"
    /\ term.stage \in {"closed", "void", "lost"}
    /\ pc' = "ended"
    /\ beat' = "off"
    /\ UNCHANGED <<known, start, delivery, term, row, columns, stream>>

(* Mutant: the finally clause does not stop the heartbeat.                 *)
LeaveBeating ==
    /\ pc = "closing"
    /\ pc' = "ended"
    /\ UNCHANGED <<known, beat, start, delivery, term, row, columns, stream>>

(* The write is through or its deadline has passed: the finally clause     *)
(* stops the heartbeat and the coroutine ends.                             *)
Leave ==
    /\ pc = "closing"
    /\ pc' = "ended"
    /\ beat' = "off"
    /\ UNCHANGED <<known, start, delivery, term, row, columns, stream>>

(* CancelledError in the coroutine: recorded as a failure unless an outcome*)
(* is being recorded already, which then goes on without the coroutine.    *)
Cancelled ==
    \/ pc \in {"reviewing", "publishing"} /\ Conclude("FAILED")
    \/ pc = "closing" /\ pc' = "ended" /\ UNCHANGED term

Cancel ==
    /\ "cancel" \in Faults
    /\ Cancelled
    /\ beat' = IF pc = "closing" THEN "off" ELSE beat
    /\ UNCHANGED <<known, start, delivery, row, columns, stream>>

-----------------------------------------------------------------------------
(* The heartbeat: refresh a RUNNING row, then ask for a manual stop.       *)

Touch ==
    /\ beat = "asleep"
    /\ beat' = "asking"
    /\ \/ row = "RUNNING" /\ stale' = FALSE
       \/ row # "RUNNING" /\ UNCHANGED stale
       \/ "locked" \in Faults /\ UNCHANGED stale
    /\ UNCHANGED <<pc, known, delivery, start, term, row, flag, stream>>

Ask ==
    /\ beat = "asking"
    /\ \/ /\ flag /\ row = "RUNNING"
          /\ beat' = "off"
          /\ Cancelled
       \/ /\ ~(flag /\ row = "RUNNING") \/ "locked" \in Faults
          /\ beat' = "asleep"
          /\ UNCHANGED <<pc, term>>
    /\ UNCHANGED <<known, start, delivery, row, columns, stream>>

-----------------------------------------------------------------------------
(* Closing the record.                                                     *)

(* Mutant: the closing write does not wait for the opening one.            *)
AwaitNothing ==
    /\ term.stage = "waiting"
    /\ term' = [term EXCEPT !.stage = "writing"]
    /\ UNCHANGED <<run, start, row, columns, stream>>

(* _wait_for_audit_start: the write is serialized behind the insert.  Work *)
(* that was settled before is not asked how it ended.                      *)
AwaitStart ==
    /\ term.stage = "waiting"
    /\ start \in {"done", "failed", "settled"}
    /\ term' = [term EXCEPT !.stage = IF start = "failed" THEN "void" ELSE "writing"]
    /\ UNCHANGED <<run, start, row, columns, stream>>

(* UPDATE ... WHERE status = 'RUNNING'                                     *)
UpdateRow == row' = IF row = "RUNNING" THEN term.to ELSE row

(* finish_review keeps the flag it set in an attempt that was rolled back; *)
(* _finish_without_issues sets it anew in every attempt.                   *)
Transitioned == row = "RUNNING" \/ (term.to = "COMPLETED" /\ term.claimed)

(* One attempt of the transaction: it commits; or it finds the database    *)
(* locked, before or after the statement ran, and is tried again or given  *)
(* up; or it commits and is reported as failed.                            *)
Write ==
    /\ term.stage = "writing"
    /\ \/ /\ UpdateRow
          /\ term' = [term EXCEPT !.stage = IF Transitioned THEN "announcing" ELSE "closed"]
       \/ /\ "locked" \in Faults
          /\ \E stage \in {"writing", "lost"}, claimed \in {term.claimed, row = "RUNNING"} :
               term' = [term EXCEPT !.stage = stage, !.claimed = @ \/ claimed]
          /\ UNCHANGED row
       \/ /\ "permissions" \in Faults
          /\ UpdateRow
          /\ term' = [term EXCEPT !.stage = "lost"]
    /\ UNCHANGED <<run, start, columns, stream>>

(* Mutant: the event is recorded once more whenever the thread runs.       *)
AnnounceAgain ==
    /\ term.stage = "announcing"
    /\ stream' = Append(stream, term.to)
    /\ UNCHANGED <<run, start, term, row, columns>>

(* _record_terminal_event: only what the row says by now is announced.     *)
AnnounceEnd ==
    /\ term.stage = "announcing"
    /\ term' = [term EXCEPT !.stage = "closed"]
    /\ \/ row = term.to /\ stream' = Append(stream, term.to)
       \/ row # term.to /\ UNCHANGED stream
       \/ "events" \in Faults /\ UNCHANGED stream
    /\ UNCHANGED <<run, start, row, columns>>

-----------------------------------------------------------------------------
(* Everybody else.                                                         *)

(* An administrator asks for a stop on the dashboard.                      *)
RequestCancel ==
    /\ row = "RUNNING"
    /\ ~flag
    /\ flag' = TRUE
    /\ UNCHANGED <<run, start, term, row, stale, stream>>

(* Half an hour without a heartbeat because nobody beats: the run is over, *)
(* or was never told its id.  Starting and closing take seconds.           *)
GoStale ==
    /\ row = "RUNNING"
    /\ ~stale
    /\ beat = "off" /\ pc \notin {"starting", "closing"}
    /\ stale' = TRUE
    /\ UNCHANGED <<run, start, term, row, flag, stream>>

(* Half an hour of heartbeats none of which reached the storage.           *)
MissBeats ==
    /\ "locked" \in Faults
    /\ row = "RUNNING"
    /\ beat # "off"
    /\ stale' = TRUE
    /\ UNCHANGED <<run, start, term, row, flag, stream>>

(* Any worker, as it opens a record or serves a page, fails stale rows.    *)
Reconcile ==
    /\ row = "RUNNING"
    /\ stale
    /\ row' = "FAILED"
    /\ UNCHANGED <<run, start, term, columns, stream>>

(* The worker dies, with its threads and its detached tasks.               *)
Crash ==
    /\ "crash" \in Faults
    /\ pc \notin {"idle", "dead"}
    /\ pc' = "dead"
    /\ beat' = "off"
    /\ delivery' = IF delivery = "running" THEN "cut" ELSE delivery
    /\ start' = IF start \in {"queued", "inserted"} THEN "failed" ELSE start
    /\ term' = IF term.stage \in {"waiting", "writing", "announcing"}
               THEN [term EXCEPT !.stage = "lost"] ELSE term
    /\ UNCHANGED <<known, row, columns, stream>>

-----------------------------------------------------------------------------
RunStep ==
    \/ Started \/ StartDeadline
    \/ SettleStart \/ Skip \/ ReviewFails \/ Publish \/ DeliveryEnds \/ Published \/ Leave

StorageStep == Insert \/ AnnounceRequest \/ Touch \/ Ask \/ AwaitStart \/ Write \/ AnnounceEnd

Quiescent == pc \in {"ended", "dead"} /\ row # "RUNNING" /\ UNCHANGED vars

Next ==
    \/ Begin \/ RunStep \/ StorageStep
    \/ CancelStart \/ Cancel \/ Crash
    \/ RequestCancel \/ GoStale \/ MissBeats \/ Reconcile
    \/ Quiescent

Spec == Init /\ [][Next]_vars

(* The coroutine and its deadlines are served and somebody goes on looking *)
(* at the dashboard.  Nothing is assumed of the storage: a write may hang. *)
FairSpec == Spec /\ WF_vars(RunStep) /\ WF_vars(GoStale) /\ WF_vars(Reconcile)

-----------------------------------------------------------------------------
(***************************************************************************)
(* A closing write that got through leaves no RUNNING row behind, however  *)
(* late the insert came.  (pr_reviewer.py:150: a caller that gives up      *)
(* waiting must leave the insert discoverable.)                            *)
(***************************************************************************)
LateInsertIsClosed == term.stage \in {"announcing", "closed"} => row # "RUNNING"

(***************************************************************************)
(* Auditing never holds up the review: whatever the storage does, the run  *)
(* ends.  (audit.py:24, a stalled volume "degrades dashboard auditing and  *)
(* nothing else".)                                                         *)
(***************************************************************************)
RunEnds == (pc # "idle") ~> (pc \in {"ended", "dead"})

(***************************************************************************)
(* No row stays RUNNING for ever, not even that of a run that died, was    *)
(* never told its row exists, or could not write its outcome.              *)
(***************************************************************************)
RunningIsClosed == (row = "RUNNING") ~> (row \in Terminal)

(***************************************************************************)
(* The record is what AuditRecord promises: one row, closed once with the  *)
(* outcome the run itself saw (COMPLETED also when GitHub refused the      *)
(* report, pr_reviewer.py:763), and announced as what it is.               *)
(***************************************************************************)
Report == CASE delivery = "done" -> "delivered"
            [] delivery = "refused" -> "refused"
            [] OTHER -> "none"

Abstract == INSTANCE AuditRecord WITH status <- row, report <- Report

ImplementsAuditRecord == Abstract!Spec

=============================================================================
