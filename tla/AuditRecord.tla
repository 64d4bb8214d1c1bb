---------------------------- MODULE AuditRecord ----------------------------
(***************************************************************************)
(* What the dashboard is promised about one review: its row is opened once *)
(* and closed once, as COMPLETED only when its report was handed to the    *)
(* host and as SKIPPED only when none was, and it is announced in the      *)
(* event stream only as what it is. Nothing here says who writes, in how   *)
(* many transactions, or which of the announcements get lost.              *)
(***************************************************************************)
EXTENDS Sequences

VARIABLES
    status,      \* the row: none yet, RUNNING, or how the review ended
    stream,      \* the events of this review, in the order of their ids
    report       \* none yet, delivered, or refused by the host

recordVars == <<status, stream, report>>

Terminal == {"COMPLETED", "FAILED", "SKIPPED"}

Init == status = "none" /\ stream = <<>> /\ report = "none"

(* A report may still be handed over after the review was given up for     *)
(* lost, never after it was closed as skipped.                             *)
HandOver(answer) ==
    /\ status \in {"none", "RUNNING", "FAILED"}
    /\ report = "none"
    /\ report' = answer
    /\ UNCHANGED <<status, stream>>

Open ==
    /\ status = "none"
    /\ status' = "RUNNING"
    /\ UNCHANGED <<stream, report>>

(* COMPLETED says that the report was handed over, not that it arrived: the*)
(* review that was refused is closed like the one that was delivered.      *)
Close(outcome) ==
    /\ status = "RUNNING"
    /\ outcome = "COMPLETED" => report # "none"
    /\ outcome = "SKIPPED" => report = "none"
    /\ status' = outcome
    /\ UNCHANGED <<stream, report>>

AnnounceRequest ==
    /\ status # "none"
    /\ stream = <<>>
    /\ stream' = <<"REQUESTED">>
    /\ UNCHANGED <<status, report>>

AnnounceEnd ==
    /\ status \in Terminal
    /\ stream \in {<<>>, <<"REQUESTED">>}
    /\ stream' = Append(stream, status)
    /\ UNCHANGED <<status, report>>

Next ==
    \/ \E answer \in {"delivered", "refused"} : HandOver(answer)
    \/ Open \/ AnnounceRequest \/ AnnounceEnd
    \/ \E outcome \in Terminal : Close(outcome)

Spec == Init /\ [][Next]_recordVars

=============================================================================
