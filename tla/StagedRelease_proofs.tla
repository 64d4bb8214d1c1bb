------------------------ MODULE StagedRelease_proofs ------------------------
(***************************************************************************)
(* Proofs about StagedRelease: its type, that every name is of a checkout  *)
(* that was completed or lost, that only newer updates or ones for another *)
(* image are left pending, and that it implements ActiveRelease, for any   *)
(* number of workers, revisions and images and whatever the faults.        *)
(* The inductive invariant says what the launcher has established at each  *)
(* of its steps, what a worker in an operation knows of the files while it *)
(* holds the lock, and why an update that is pending may be activated.     *)
(* A second one says what the first start of an image has settled: what is *)
(* active fits the image, and an update replaces no newer pending one.     *)
(***************************************************************************)
EXTENDS StagedRelease, TLAPS

Complete(r) == r \in Rev /\ (tree[r] \in Marked \/ r \in lost)
Fits(r) == Deps[r] = image.deps

Whole == \A r \in {current, pending, serving} : r = None \/ Complete(r)

Launcher ==
    /\ phase \notin Up => serving = None /\ \A w \in Workers : Idle(w)
    /\ phase \in {"staging", "marking", "comparing"} => target # None
    /\ phase \in {"comparing", "activating"} => Complete(target)
    /\ phase \in {"installing", "stamping"} => Fits(current)
    /\ phase = "stamping" => pending = None
    /\ phase = "activating" => target <= current /\ current = pending

(* A stamp that is not consumed sends every start to the checkout.         *)
Stamped ==
    /\ seen <= image.id
    /\ phase \in {"staging", "marking", "comparing", "installing", "stamping"} =>
         image.id # seen \/ current = None
    /\ image.id = seen \/ phase \notin {"down", "staging", "marking", "comparing"} => current # None

(* What is pending may be activated, once the stamp or the launcher has    *)
(* seen to what was pending before the image.                              *)
Newer ==
    image.id = seen \/ phase \in {"settled"} \cup Up =>
        (pending # None => pending >= current \/ ~Matches(pending))

Verified == phase \in Up => current = serving \/ Fits(current)

(* What is to be activated was compared, and can be gone back from.        *)
Activated(o) ==
    /\ Complete(o.rev) /\ Fits(o.rev)
    /\ Complete(o.prev) /\ o.prev <= o.rev
    /\ o.prev = serving \/ Fits(o.prev)

Operation(o) ==
    /\ o.pc \in {"staging", "marking", "recording"} => o.rev # None /\ current <= o.rev
    /\ o.pc = "recording" => Complete(o.rev)
    /\ o.pc = "prepared" => o.rev = PendingRelease /\ (o.rev # None => Matches(o.rev))
    /\ o.pc \in {"switched", "signalling", "undoing", "restoring"} => Activated(o)
    /\ o.pc \in {"switched", "signalling", "undoing"} => current = o.rev
    /\ o.pc = "switched" => pending = o.rev
    /\ o.pc = "restoring" => current = o.prev

IInv ==
    /\ TypeOK /\ Whole /\ Launcher /\ Stamped /\ Newer /\ Verified
    /\ \A w \in Workers : Operation(op[w])

(***************************************************************************)
(* The operations lock is held by the worker in an operation, and by none  *)
(* otherwise: the three ways in which an operation moves keep that.        *)
(***************************************************************************)
Locked == \A w \in Workers : lock = w <=> op[w].pc # "idle"
OpsOK == op \in [Workers -> Op] /\ lock \in Workers \cup {NoWorker} /\ Locked

LEMMA BeginOpOK ==
  ASSUME OpsOK, NEW w \in Workers, NEW o \in Op, o.pc # "idle", BeginOp(w, o)
  PROVE  OpsOK'
  BY NoWorkerAssumption DEF OpsOK, Locked, BeginOp, Idle

LEMMA ContinueOK ==
  ASSUME OpsOK, NEW w \in Workers, NEW pc \in OpPC \ {"idle"}, op[w].pc # "idle", Continue(w, pc)
  PROVE  OpsOK'
  <1>1. op' \in [Workers -> Op]
    BY DEF OpsOK, Continue, Op
  <1>2. \A v \in Workers : op'[v].pc = IF v = w THEN pc ELSE op[v].pc
    BY DEF OpsOK, Continue, Op
  <1> QED
    BY <1>1, <1>2 DEF OpsOK, Locked, Continue

LEMMA EndOpOK ==
  ASSUME OpsOK, NEW w \in Workers, op[w].pc # "idle", EndOp(w)
  PROVE  OpsOK'
  <1>1. NoOp \in Op /\ NoOp.pc = "idle"
    BY RevAssumption DEF NoOp, Op, OpPC, None
  <1>2. op' = [op EXCEPT ![w] = NoOp] /\ lock' = NoWorker /\ lock = w
    BY DEF EndOp, OpsOK, Locked
  <1>3. op' \in [Workers -> Op]
    BY <1>1, <1>2 DEF OpsOK
  <1>4. \A v \in Workers : op'[v].pc = "idle"
    BY <1>1, <1>2 DEF OpsOK, Locked
  <1> QED
    BY <1>2, <1>3, <1>4, NoWorkerAssumption DEF OpsOK, Locked

LEMMA HaltOK ==
  ASSUME Halt
  PROVE  OpsOK'
  <1>1. NoOp \in Op /\ NoOp.pc = "idle"
    BY RevAssumption DEF NoOp, Op, OpPC, None
  <1>2. op' = [w \in Workers |-> NoOp] /\ lock' = NoWorker
    BY DEF Halt
  <1> QED
    BY <1>1, <1>2, NoWorkerAssumption DEF OpsOK, Locked

LEMMA TroubleOK ==
  ASSUME trouble \in 0..MaxTrouble, NEW fault, Fine \/ Trouble(fault)
  PROVE  trouble' \in 0..MaxTrouble
  BY RevAssumption DEF Fine, Trouble

LEMMA TypeOKParts ==
  TypeOK <=>
    /\ remote \in Rev /\ source \in 1..remote
    /\ image \in [id: 1..MaxBuild, deps: Nat]
    /\ tree \in [Rev -> Tree] /\ lost \in SUBSET (0..MaxRev)
    /\ current \in 0..MaxRev /\ pending \in 0..MaxRev
    /\ seen \in 0..MaxBuild
    /\ phase \in {"down"} \cup Launching \cup Up
    /\ target \in 0..MaxRev
    /\ serving \in 0..MaxRev
    /\ OpsOK
    /\ trouble \in 0..MaxTrouble
  BY DEF TypeOK, OpsOK, Locked

LEMMA StepTypeOK == TypeOK /\ [Next]_vars => TypeOK'
  <1> SUFFICES ASSUME TypeOK, [Next]_vars PROVE TypeOK'
    OBVIOUS
  <1> DEFINE HostOK == /\ remote \in Rev /\ source \in 1..remote
                       /\ image \in [id: 1..MaxBuild, deps: Nat]
             DiskOK == /\ tree \in [Rev -> Tree] /\ lost \in SUBSET (0..MaxRev)
                       /\ current \in 0..MaxRev /\ pending \in 0..MaxRev
                       /\ seen \in 0..MaxBuild
             BoxOK == /\ phase \in {"down"} \cup Launching \cup Up
                      /\ target \in 0..MaxRev
                      /\ serving \in 0..MaxRev
             TroubleFits == trouble \in 0..MaxTrouble
  <1>a. HostOK /\ DiskOK /\ BoxOK /\ OpsOK /\ TroubleFits
    BY TypeOKParts
  <1>q. HostOK' /\ DiskOK' /\ BoxOK' /\ OpsOK' /\ TroubleFits' => TypeOK'
    BY DEF TypeOK, OpsOK, Locked
  <1>1. ASSUME NEW w \in Workers, PullBegin(w) PROVE TypeOK'
    <2>h. HostOK'
      BY <1>a, <1>1, RevAssumption, DepsAssumption DEF PullBegin, host, Rev
    <2>d. DiskOK'
      BY <1>a, <1>1, RevAssumption DEF PullBegin, disk, Rev, Tree, OpsOK, Op, At
    <2>b. BoxOK'
      BY <1>a, <1>1 DEF PullBegin, box, Launching, Up, Rev, None
    <2> DEFINE o == [pc |-> "staging", rev |-> remote, prev |-> None]
    <2>3. remote \in 0..MaxRev /\ None \in 0..MaxRev
      BY <1>a, RevAssumption DEF None, Rev, PendingRelease
    <2>1. o \in Op /\ o.pc # "idle"
      BY <2>3 DEF Op, OpPC
    <2>o. OpsOK'
      BY <1>a, <1>1, <2>1, BeginOpOK DEF PullBegin
    <2>t. TroubleFits'
      BY <1>a, <1>1 DEF PullBegin
    <2> QED
      BY <1>q, <2>h, <2>d, <2>b, <2>o, <2>t
  <1>2. ASSUME NEW w \in Workers, PullReuse(w) PROVE TypeOK'
    <2>h. HostOK'
      BY <1>a, <1>2, RevAssumption, DepsAssumption DEF PullReuse, host, Rev
    <2>d. DiskOK'
      BY <1>a, <1>2, RevAssumption DEF PullReuse, disk, Rev, Tree, OpsOK, Op, At
    <2>b. BoxOK'
      BY <1>a, <1>2 DEF PullReuse, box, Launching, Up, Rev, None
    <2>1. op[w].pc # "idle"
      BY <1>2 DEF PullReuse, At
    <2>2. Continue(w, "recording")
      BY <1>2 DEF PullReuse
    <2>o. OpsOK'
      BY <1>a, <2>1, <2>2, ContinueOK DEF OpPC
    <2>t. TroubleFits'
      BY <1>a, <1>2 DEF PullReuse
    <2> QED
      BY <1>q, <2>h, <2>d, <2>b, <2>o, <2>t
  <1>3. ASSUME NEW w \in Workers, PullDiscard(w) PROVE TypeOK'
    <2>h. HostOK'
      BY <1>a, <1>3, RevAssumption, DepsAssumption DEF PullDiscard, host, Rev
    <2>d. DiskOK'
      <3>1. op[w].rev \in 0..MaxRev
        BY <1>a, <1>3 DEF OpsOK, Op
      <3>2. UNCHANGED <<current, pending, seen>> /\ DiscardFound(op[w].rev)
        BY <1>3 DEF PullDiscard
      <3> QED
        BY <1>a, <3>1, <3>2 DEF DiscardFound, Discard, Gone, Tree
    <2>b. BoxOK'
      BY <1>a, <1>3 DEF PullDiscard, box, Launching, Up, Rev, None
    <2>o. OpsOK'
      BY <1>a, <1>3 DEF PullDiscard, ops, OpsOK, Locked
    <2>t. TroubleFits'
      BY <1>a, <1>3, TroubleOK DEF PullDiscard, DiscardFound, Discard
    <2> QED
      BY <1>q, <2>h, <2>d, <2>b, <2>o, <2>t
  <1>4. ASSUME NEW w \in Workers, PullAdd(w) PROVE TypeOK'
    <2>h. HostOK'
      BY <1>a, <1>4, RevAssumption, DepsAssumption DEF PullAdd, host, Rev
    <2>d. DiskOK'
      BY <1>a, <1>4, RevAssumption DEF PullAdd, disk, Rev, Tree, OpsOK, Op, At,
         AddSucceeds, AddFails, Discard
    <2>b. BoxOK'
      BY <1>a, <1>4 DEF PullAdd, box, Launching, Up, Rev, None
    <2>1. op[w].pc # "idle"
      BY <1>4 DEF PullAdd, At
    <2>2. Continue(w, "marking") \/ EndOp(w)
      BY <1>4 DEF PullAdd
    <2>o. OpsOK'
      BY <1>a, <2>1, <2>2, ContinueOK, EndOpOK DEF OpPC
    <2>t. TroubleFits'
      BY <1>a, <1>4, TroubleOK DEF PullAdd, AddSucceeds, AddFails, Discard
    <2> QED
      BY <1>q, <2>h, <2>d, <2>b, <2>o, <2>t
  <1>5. ASSUME NEW w \in Workers, PullMark(w) PROVE TypeOK'
    <2>h. HostOK'
      BY <1>a, <1>5, RevAssumption, DepsAssumption DEF PullMark, host, Rev
    <2>d. DiskOK'
      BY <1>a, <1>5, RevAssumption DEF PullMark, disk, Rev, Tree, OpsOK, Op, At,
         MarkComplete
    <2>b. BoxOK'
      BY <1>a, <1>5 DEF PullMark, box, Launching, Up, Rev, None
    <2>1. op[w].pc # "idle"
      BY <1>5 DEF PullMark, At
    <2>2. Continue(w, "recording") \/ EndOp(w)
      BY <1>5 DEF PullMark
    <2>o. OpsOK'
      BY <1>a, <2>1, <2>2, ContinueOK, EndOpOK DEF OpPC
    <2>t. TroubleFits'
      BY <1>a, <1>5, TroubleOK DEF PullMark
    <2> QED
      BY <1>q, <2>h, <2>d, <2>b, <2>o, <2>t
  <1>6. ASSUME NEW w \in Workers, PullRecord(w) PROVE TypeOK'
    <2>h. HostOK'
      BY <1>a, <1>6, RevAssumption, DepsAssumption DEF PullRecord, host, Rev
    <2>d. DiskOK'
      BY <1>a, <1>6, RevAssumption DEF PullRecord, disk, Rev, Tree, OpsOK, Op, At
    <2>b. BoxOK'
      BY <1>a, <1>6 DEF PullRecord, box, Launching, Up, Rev, None
    <2>1. op[w].pc # "idle"
      BY <1>6 DEF PullRecord, At
    <2>2. EndOp(w)
      BY <1>6 DEF PullRecord
    <2>o. OpsOK'
      BY <1>a, <2>1, <2>2, EndOpOK DEF OpPC
    <2>t. TroubleFits'
      BY <1>a, <1>6, TroubleOK DEF PullRecord
    <2> QED
      BY <1>q, <2>h, <2>d, <2>b, <2>o, <2>t
  <1>7. ASSUME NEW w \in Workers, PrepareRestart(w) PROVE TypeOK'
    <2>h. HostOK'
      BY <1>a, <1>7, RevAssumption, DepsAssumption DEF PrepareRestart, host, Rev
    <2>d. DiskOK'
      BY <1>a, <1>7, RevAssumption DEF PrepareRestart, disk, Rev, Tree, OpsOK, Op, At
    <2>b. BoxOK'
      BY <1>a, <1>7 DEF PrepareRestart, box, Launching, Up, Rev, None
    <2> DEFINE o == [pc |-> "prepared", rev |-> PendingRelease, prev |-> None]
    <2>3. PendingRelease \in 0..MaxRev /\ None \in 0..MaxRev
      BY <1>a, RevAssumption DEF None, Rev, PendingRelease
    <2>1. o \in Op /\ o.pc # "idle"
      BY <2>3 DEF Op, OpPC
    <2>o. OpsOK'
      BY <1>a, <1>7, <2>1, BeginOpOK DEF PrepareRestart
    <2>t. TroubleFits'
      BY <1>a, <1>7 DEF PrepareRestart
    <2> QED
      BY <1>q, <2>h, <2>d, <2>b, <2>o, <2>t
  <1>8. ASSUME NEW w \in Workers, Switch(w) PROVE TypeOK'
    <2>h. HostOK'
      BY <1>a, <1>8, RevAssumption, DepsAssumption DEF Switch, host, Rev
    <2>d. DiskOK'
      BY <1>a, <1>8, RevAssumption DEF Switch, disk, Rev, Tree, OpsOK, Op, At,
         PendingRelease, None
    <2>b. BoxOK'
      BY <1>a, <1>8 DEF Switch, box, Launching, Up, Rev, None
    <2>1. PendingRelease \in 0..MaxRev
      BY <1>a, RevAssumption DEF PendingRelease, None
    <2>o. OpsOK'
      BY <1>a, <1>8, <2>1 DEF Switch, OpsOK, Locked, Op, OpPC, At
    <2>t. TroubleFits'
      BY <1>a, <1>8 DEF Switch
    <2> QED
      BY <1>q, <2>h, <2>d, <2>b, <2>o, <2>t
  <1>9. ASSUME NEW w \in Workers, Unmark(w) PROVE TypeOK'
    <2>h. HostOK'
      BY <1>a, <1>9, RevAssumption, DepsAssumption DEF Unmark, host, Rev
    <2>d. DiskOK'
      BY <1>a, <1>9, RevAssumption DEF Unmark, disk, Rev, Tree, OpsOK, Op, At, None
    <2>b. BoxOK'
      BY <1>a, <1>9 DEF Unmark, box, Launching, Up, Rev, None
    <2>1. op[w].pc # "idle"
      BY <1>9 DEF Unmark, At
    <2>2. Continue(w, "signalling") \/ EndOp(w)
      BY <1>9 DEF Unmark
    <2>o. OpsOK'
      BY <1>a, <2>1, <2>2, ContinueOK, EndOpOK DEF OpPC
    <2>t. TroubleFits'
      BY <1>a, <1>9, TroubleOK DEF Unmark
    <2> QED
      BY <1>q, <2>h, <2>d, <2>b, <2>o, <2>t
  <1>10. ASSUME NEW w \in Workers, Signal(w) PROVE TypeOK'
    <2>h. HostOK'
      BY <1>a, <1>10, RevAssumption, DepsAssumption DEF Signal, host, Rev
    <2>d. DiskOK'
      BY <1>a, <1>10, RevAssumption DEF Signal, disk, Rev, Tree, OpsOK, Op, At
    <2>b. BoxOK'
      BY <1>a, <1>10 DEF Signal, box, Launching, Up, Rev, None
    <2>1. op[w].pc # "idle"
      BY <1>10 DEF Signal, At
    <2>2. Continue(w, "undoing") \/ EndOp(w)
      BY <1>10 DEF Signal
    <2>o. OpsOK'
      BY <1>a, <2>1, <2>2, ContinueOK, EndOpOK DEF OpPC
    <2>t. TroubleFits'
      BY <1>a, <1>10, TroubleOK DEF Signal
    <2> QED
      BY <1>q, <2>h, <2>d, <2>b, <2>o, <2>t
  <1>11. ASSUME NEW w \in Workers, Undo(w) PROVE TypeOK'
    <2>h. HostOK'
      BY <1>a, <1>11, RevAssumption, DepsAssumption DEF Undo, host, Rev
    <2>d. DiskOK'
      BY <1>a, <1>11, RevAssumption DEF Undo, disk, Rev, Tree, OpsOK, Op, At
    <2>b. BoxOK'
      BY <1>a, <1>11 DEF Undo, box, Launching, Up, Rev, None
    <2>1. op[w].pc # "idle"
      BY <1>11 DEF Undo, At
    <2>2. Continue(w, "restoring") \/ EndOp(w)
      BY <1>11 DEF Undo
    <2>o. OpsOK'
      BY <1>a, <2>1, <2>2, ContinueOK, EndOpOK DEF OpPC
    <2>t. TroubleFits'
      BY <1>a, <1>11, TroubleOK DEF Undo
    <2> QED
      BY <1>q, <2>h, <2>d, <2>b, <2>o, <2>t
  <1>12. ASSUME NEW w \in Workers, Restore(w) PROVE TypeOK'
    <2>h. HostOK'
      BY <1>a, <1>12, RevAssumption, DepsAssumption DEF Restore, host, Rev
    <2>d. DiskOK'
      BY <1>a, <1>12, RevAssumption DEF Restore, disk, Rev, Tree, OpsOK, Op, At
    <2>b. BoxOK'
      BY <1>a, <1>12 DEF Restore, box, Launching, Up, Rev, None
    <2>1. op[w].pc # "idle"
      BY <1>12 DEF Restore, At
    <2>2. EndOp(w)
      BY <1>12 DEF Restore
    <2>o. OpsOK'
      BY <1>a, <2>1, <2>2, EndOpOK DEF OpPC
    <2>t. TroubleFits'
      BY <1>a, <1>12, TroubleOK DEF Restore
    <2> QED
      BY <1>q, <2>h, <2>d, <2>b, <2>o, <2>t
  <1>13. ASSUME NEW w \in Workers, Die(w) PROVE TypeOK'
    <2>h. HostOK'
      BY <1>a, <1>13, RevAssumption, DepsAssumption DEF Die, host, Rev
    <2>d. DiskOK'
      BY <1>a, <1>13, RevAssumption DEF Die, disk, Rev, Tree, OpsOK, Op, At
    <2>b. BoxOK'
      BY <1>a, <1>13 DEF Die, box, Launching, Up, Rev, None
    <2>1. op[w].pc # "idle"
      BY <1>13 DEF Die, Idle
    <2>2. EndOp(w)
      BY <1>13 DEF Die
    <2>o. OpsOK'
      BY <1>a, <2>1, <2>2, EndOpOK DEF OpPC
    <2>t. TroubleFits'
      BY <1>a, <1>13, TroubleOK DEF Die
    <2> QED
      BY <1>q, <2>h, <2>d, <2>b, <2>o, <2>t
  <1>14. ASSUME Decide PROVE TypeOK'
    <2>h. HostOK'
      BY <1>a, <1>14, RevAssumption, DepsAssumption DEF Decide, host, Rev
    <2>d. DiskOK'
      BY <1>a, <1>14, RevAssumption DEF Decide, disk, Rev, Tree, PendingRelease, None
    <2>b. BoxOK'
      BY <1>a, <1>14, RevAssumption DEF Decide, box, Launching, Up, Rev, None
    <2>o. OpsOK'
      BY <1>a, <1>14 DEF Decide, ops, OpsOK, Locked
    <2>t. TroubleFits'
      BY <1>a, <1>14 DEF Decide
    <2> QED
      BY <1>q, <2>h, <2>d, <2>b, <2>o, <2>t
  <1>15. ASSUME BootReuse PROVE TypeOK'
    <2>h. HostOK'
      BY <1>a, <1>15, RevAssumption, DepsAssumption DEF BootReuse, host, Rev
    <2>d. DiskOK'
      BY <1>a, <1>15, RevAssumption DEF BootReuse, disk, Rev, Tree
    <2>b. BoxOK'
      BY <1>a, <1>15 DEF BootReuse, box, Launching, Up, Rev, None, Launch
    <2>o. OpsOK'
      BY <1>a, <1>15 DEF BootReuse, ops, OpsOK, Locked
    <2>t. TroubleFits'
      BY <1>a, <1>15 DEF BootReuse
    <2> QED
      BY <1>q, <2>h, <2>d, <2>b, <2>o, <2>t
  <1>16. ASSUME BootDiscard PROVE TypeOK'
    <2>h. HostOK'
      BY <1>a, <1>16, RevAssumption, DepsAssumption DEF BootDiscard, host, Rev
    <2>d. DiskOK'
      BY <1>a, <1>16, RevAssumption DEF BootDiscard, disk, Rev, Tree, DiscardFound, Discard,
         Gone
    <2>b. BoxOK'
      BY <1>a, <1>16 DEF BootDiscard, box, Launching, Up, Rev, None
    <2>o. OpsOK'
      BY <1>a, <1>16 DEF BootDiscard, ops, OpsOK, Locked
    <2>t. TroubleFits'
      BY <1>a, <1>16, TroubleOK DEF BootDiscard, DiscardFound, Discard
    <2> QED
      BY <1>q, <2>h, <2>d, <2>b, <2>o, <2>t
  <1>17. ASSUME BootAdd PROVE TypeOK'
    <2>h. HostOK'
      BY <1>a, <1>17, RevAssumption, DepsAssumption DEF BootAdd, host, Rev
    <2>d. DiskOK'
      BY <1>a, <1>17, RevAssumption DEF BootAdd, disk, Rev, Tree, AddSucceeds, AddFails,
         Discard
    <2>b. BoxOK'
      BY <1>a, <1>17 DEF BootAdd, box, Launching, Up, Rev, None, Launch
    <2>o. OpsOK'
      BY <1>a, <1>17 DEF BootAdd, ops, OpsOK, Locked
    <2>t. TroubleFits'
      BY <1>a, <1>17, TroubleOK DEF BootAdd, AddSucceeds, AddFails, Discard
    <2> QED
      BY <1>q, <2>h, <2>d, <2>b, <2>o, <2>t
  <1>18. ASSUME BootMark PROVE TypeOK'
    <2>h. HostOK'
      BY <1>a, <1>18, RevAssumption, DepsAssumption DEF BootMark, host, Rev
    <2>d. DiskOK'
      BY <1>a, <1>18, RevAssumption DEF BootMark, disk, Rev, Tree, MarkComplete
    <2>b. BoxOK'
      BY <1>a, <1>18 DEF BootMark, box, Launching, Up, Rev, None, Launch
    <2>o. OpsOK'
      BY <1>a, <1>18 DEF BootMark, ops, OpsOK, Locked
    <2>t. TroubleFits'
      BY <1>a, <1>18, TroubleOK DEF BootMark
    <2> QED
      BY <1>q, <2>h, <2>d, <2>b, <2>o, <2>t
  <1>19. ASSUME Compare PROVE TypeOK'
    <2>h. HostOK'
      BY <1>a, <1>19, RevAssumption, DepsAssumption DEF Compare, host, Rev
    <2>d. DiskOK'
      BY <1>a, <1>19, RevAssumption DEF Compare, disk, Rev, Tree
    <2>b. BoxOK'
      BY <1>a, <1>19 DEF Compare, box, Launching, Up, Rev, None, Launch
    <2>o. OpsOK'
      BY <1>a, <1>19 DEF Compare, ops, OpsOK, Locked
    <2>t. TroubleFits'
      BY <1>a, <1>19 DEF Compare
    <2> QED
      BY <1>q, <2>h, <2>d, <2>b, <2>o, <2>t
  <1>20. ASSUME BootUnmark PROVE TypeOK'
    <2>h. HostOK'
      BY <1>a, <1>20, RevAssumption, DepsAssumption DEF BootUnmark, host, Rev
    <2>d. DiskOK'
      BY <1>a, <1>20, RevAssumption DEF BootUnmark, disk, Rev, Tree, None
    <2>b. BoxOK'
      BY <1>a, <1>20 DEF BootUnmark, box, Launching, Up, Rev, None, Launch
    <2>o. OpsOK'
      BY <1>a, <1>20 DEF BootUnmark, ops, OpsOK, Locked
    <2>t. TroubleFits'
      BY <1>a, <1>20, TroubleOK DEF BootUnmark
    <2> QED
      BY <1>q, <2>h, <2>d, <2>b, <2>o, <2>t
  <1>21. ASSUME Stamp PROVE TypeOK'
    <2>h. HostOK'
      BY <1>a, <1>21, RevAssumption, DepsAssumption DEF Stamp, host, Rev
    <2>d. DiskOK'
      BY <1>a, <1>21, RevAssumption DEF Stamp, disk, Rev, Tree
    <2>b. BoxOK'
      BY <1>a, <1>21 DEF Stamp, box, Launching, Up, Rev, None, Launch
    <2>o. OpsOK'
      BY <1>a, <1>21 DEF Stamp, ops, OpsOK, Locked
    <2>t. TroubleFits'
      BY <1>a, <1>21, TroubleOK DEF Stamp
    <2> QED
      BY <1>q, <2>h, <2>d, <2>b, <2>o, <2>t
  <1>22. ASSUME Serve PROVE TypeOK'
    <2>h. HostOK'
      BY <1>a, <1>22, RevAssumption, DepsAssumption DEF Serve, host, Rev
    <2>d. DiskOK'
      BY <1>a, <1>22, RevAssumption DEF Serve, Tidy, Linked, disk, Rev, Tree, Superseded
    <2>b. BoxOK'
      BY <1>a, <1>22 DEF Serve, box, Launching, Up, Rev, None
    <2>o. OpsOK'
      BY <1>a, <1>22 DEF Serve, ops, OpsOK, Locked
    <2>t. TroubleFits'
      BY <1>a, <1>22 DEF Serve
    <2> QED
      BY <1>q, <2>h, <2>d, <2>b, <2>o, <2>t
  <1>23. ASSUME CutPrune PROVE TypeOK'
    <2>h. HostOK'
      BY <1>a, <1>23, RevAssumption, DepsAssumption DEF CutPrune, host, Rev
    <2>d. DiskOK'
      BY <1>a, <1>23, RevAssumption DEF CutPrune, Linked, disk, Rev, Tree, Superseded
    <2>b. BoxOK'
      BY <1>a, <1>23 DEF CutPrune, box, Launching, Up, Rev, None, Launch
    <2>o. OpsOK'
      BY <1>a, <1>23 DEF CutPrune, ops, OpsOK, Locked
    <2>t. TroubleFits'
      BY <1>a, <1>23, TroubleOK DEF CutPrune
    <2> QED
      BY <1>q, <2>h, <2>d, <2>b, <2>o, <2>t
  <1>24. ASSUME Exit PROVE TypeOK'
    <2>h. HostOK'
      BY <1>a, <1>24, RevAssumption, DepsAssumption DEF Exit, host, Rev
    <2>d. DiskOK'
      BY <1>a, <1>24, RevAssumption DEF Exit, disk, Rev, Tree
    <2>b. BoxOK'
      BY <1>a, <1>24, RevAssumption DEF Exit, box, Launching, Up, Rev, None, Halt
    <2>o. OpsOK'
      BY <1>24, HaltOK DEF Exit
    <2>t. TroubleFits'
      BY <1>a, <1>24 DEF Exit
    <2> QED
      BY <1>q, <2>h, <2>d, <2>b, <2>o, <2>t
  <1>25. ASSUME Kill PROVE TypeOK'
    <2>h. HostOK'
      BY <1>a, <1>25, RevAssumption, DepsAssumption DEF Kill, host, Rev
    <2>d. DiskOK'
      BY <1>a, <1>25, RevAssumption DEF Kill, disk, Rev, Tree
    <2>b. BoxOK'
      BY <1>a, <1>25, RevAssumption DEF Kill, box, Launching, Up, Rev, None, Halt
    <2>o. OpsOK'
      BY <1>25, HaltOK DEF Kill
    <2>t. TroubleFits'
      BY <1>a, <1>25, TroubleOK DEF Kill
    <2> QED
      BY <1>q, <2>h, <2>d, <2>b, <2>o, <2>t
  <1>26. ASSUME Publish PROVE TypeOK'
    <2>h. HostOK'
      BY <1>a, <1>26, RevAssumption, DepsAssumption DEF Publish, host, Rev
    <2>d. DiskOK'
      BY <1>a, <1>26, RevAssumption DEF Publish, disk, Rev, Tree
    <2>b. BoxOK'
      BY <1>a, <1>26 DEF Publish, box, Launching, Up, Rev, None
    <2>o. OpsOK'
      BY <1>a, <1>26 DEF Publish, ops, OpsOK, Locked
    <2>t. TroubleFits'
      BY <1>a, <1>26 DEF Publish
    <2> QED
      BY <1>q, <2>h, <2>d, <2>b, <2>o, <2>t
  <1>27. ASSUME Checkout PROVE TypeOK'
    <2>h. HostOK'
      BY <1>a, <1>27, RevAssumption, DepsAssumption DEF Checkout, host, Rev
    <2>d. DiskOK'
      BY <1>a, <1>27, RevAssumption DEF Checkout, disk, Rev, Tree
    <2>b. BoxOK'
      BY <1>a, <1>27 DEF Checkout, box, Launching, Up, Rev, None
    <2>o. OpsOK'
      BY <1>a, <1>27 DEF Checkout, ops, OpsOK, Locked
    <2>t. TroubleFits'
      BY <1>a, <1>27 DEF Checkout
    <2> QED
      BY <1>q, <2>h, <2>d, <2>b, <2>o, <2>t
  <1>28. ASSUME Rebuild PROVE TypeOK'
    <2>h. HostOK'
      BY <1>a, <1>28, RevAssumption, DepsAssumption DEF Rebuild, host, Rev
    <2>d. DiskOK'
      BY <1>a, <1>28, RevAssumption DEF Rebuild, disk, Rev, Tree
    <2>b. BoxOK'
      BY <1>a, <1>28, RevAssumption DEF Rebuild, box, Launching, Up, Rev, None, Halt
    <2>o. OpsOK'
      BY <1>28, HaltOK DEF Rebuild
    <2>t. TroubleFits'
      BY <1>a, <1>28 DEF Rebuild
    <2> QED
      BY <1>q, <2>h, <2>d, <2>b, <2>o, <2>t
  <1>30. ASSUME FailStart PROVE TypeOK'
    <2>h. HostOK'
      BY <1>a, <1>30, RevAssumption, DepsAssumption DEF FailStart, host, Rev
    <2>d. DiskOK'
      BY <1>a, <1>30, RevAssumption DEF FailStart, Tidy, Linked, disk, Rev, Tree, Superseded
    <2>b. BoxOK'
      BY <1>a, <1>30 DEF FailStart, box, Launching, Up, Rev, None, Launch
    <2>o. OpsOK'
      BY <1>a, <1>30 DEF FailStart, ops, OpsOK, Locked
    <2>t. TroubleFits'
      BY <1>a, <1>30 DEF FailStart
    <2> QED
      BY <1>q, <2>h, <2>d, <2>b, <2>o, <2>t
  <1>29. CASE UNCHANGED vars
    BY <1>29 DEF vars, host, disk, box, ops, TypeOK
  <1> QED
    BY <1>1, <1>2, <1>3, <1>4, <1>5, <1>6, <1>7, <1>8, <1>9, <1>10, <1>11, <1>12, <1>13,
       <1>14, <1>15, <1>16, <1>17, <1>18, <1>19, <1>20, <1>21, <1>22, <1>23, <1>24,
       <1>25, <1>26, <1>27, <1>28, <1>29, <1>30 DEF Next, Pull, Restart, Boot

-----------------------------------------------------------------------------
(***************************************************************************)
(* The strengthening.                                                      *)
(***************************************************************************)
LEMMA InitIInv == Init => IInv
  <1> SUFFICES ASSUME Init PROVE IInv
    OBVIOUS
  <1>1. TypeOK
    BY RevAssumption, DepsAssumption, NoWorkerAssumption
    DEF Init, TypeOK, Rev, Tree, Op, OpPC, NoOp, None
  <1>2. Whole /\ Launcher /\ Stamped /\ Newer /\ Verified
    BY <1>1 DEF Init, Whole, Launcher, Stamped, Newer, Verified, Idle, NoOp, Up, None,
       TypeOK
  <1>3. \A w \in Workers : Operation(op[w])
    BY DEF Init, NoOp, Operation
  <1> QED
    BY <1>1, <1>2, <1>3 DEF IInv

(* Only one worker is ever in an operation.                                *)
LEMMA OneOperation ==
  ASSUME TypeOK, NEW w \in Workers, op[w].pc # "idle", NEW v \in Workers \ {w}
  PROVE  op[v].pc = "idle"
  BY DEF TypeOK

LEMMA ContinueFields ==
  ASSUME TypeOK, NEW w \in Workers, NEW pc, Continue(w, pc)
  PROVE  op'[w].pc = pc /\ op'[w].rev = op[w].rev /\ op'[w].prev = op[w].prev
  BY DEF TypeOK, Op, Continue

LEMMA EndOpField ==
  ASSUME TypeOK, NEW w \in Workers, EndOp(w)
  PROVE  op'[w].pc = "idle"
  BY DEF TypeOK, EndOp, NoOp

(* What is pending may have lost its directory.                            *)
LEMMA PendingReleaseIsPending == PendingRelease \in {None, pending}
  BY DEF PendingRelease

LEMMA PendingTyped ==
  ASSUME TypeOK
  PROVE  tree \in [Rev -> Tree] /\ (pending # None => pending \in Rev)
  <1>1. tree \in [Rev -> Tree] /\ pending \in 0..MaxRev
    BY DEF TypeOK
  <1> QED
    BY <1>1, RevAssumption DEF Rev, None

(* What keeps the checkouts that were completed.                           *)
LEMMA DiscardKeeps ==
  ASSUME TypeOK, NEW r \in 0..MaxRev, DiscardFound(r), NEW q, Complete(q)
  PROVE  Complete(q)'
  <1>1. CASE q = r
    BY <1>1 DEF DiscardFound, Complete, Reusable
  <1>2. CASE q # r
    BY <1>2 DEF DiscardFound, Discard, Complete, TypeOK, Gone
  <1> QED
    BY <1>1, <1>2

LEMMA AddKeeps ==
  ASSUME TypeOK, NEW r \in 0..MaxRev, AddSucceeds(r) \/ AddFails(r), UNCHANGED lost,
         NEW q, Complete(q)
  PROVE  Complete(q)'
  BY DEF AddSucceeds, AddFails, Discard, Complete, Marked, TypeOK

LEMMA MarkKeeps ==
  ASSUME TypeOK, NEW r \in 0..MaxRev, MarkComplete(r), NEW q, Complete(q)
  PROVE  Complete(q)'
  BY DEF MarkComplete, Complete, Marked, TypeOK

LEMMA TidyKeeps ==
  ASSUME TypeOK, Tidy, UNCHANGED <<lost, current, pending>>, NEW q \in {current, pending}, Complete(q)
  PROVE  Complete(q)'
  <1>1. q \in Rev /\ q \notin Superseded
    BY DEF Complete, Superseded
  <1>2. tree'[q] = Linked[q]
    BY <1>1 DEF Tidy
  <1>3. tree[q] \in Marked => Linked[q] = tree[q]
    BY <1>1 DEF Linked, Gone, Marked, TypeOK
  <1> QED
    BY <1>1, <1>2, <1>3 DEF Complete

LEMMA TidyPending ==
  ASSUME TypeOK, Tidy, UNCHANGED <<image, pending>>, pending # None, pending # current
  PROVE  Matches(pending)' <=> Matches(pending)
  <1>1. pending \in Rev /\ pending \notin Superseded
    BY RevAssumption DEF TypeOK, Superseded, Rev, None
  <1>2. tree'[pending] = Linked[pending]
    BY <1>1 DEF Tidy
  <1>3. Linked[pending] = tree[pending]
    BY <1>1 DEF Linked, TypeOK
  <1> QED
    BY <1>2, <1>3 DEF Matches

LEMMA CutKeeps ==
  ASSUME TypeOK, CutPrune, NEW q, Complete(q)
  PROVE  Complete(q)'
  <1>1. PICK r \in Superseded, left \in {"gutted", "stripped"} :
          tree[r] = "complete" /\ tree' = [Linked EXCEPT ![r] = left]
    BY DEF CutPrune
  <1>2. UNCHANGED lost
    BY DEF CutPrune
  <1>3. Linked \in [Rev -> Tree] /\ \A p \in Rev : tree[p] \in Marked => Linked[p] = tree[p]
    BY DEF Linked, Gone, Marked, Tree, TypeOK
  <1>4. tree[q] \in Marked /\ q \in Rev => tree'[q] \in Marked
    BY <1>1, <1>3 DEF Marked
  <1> QED
    BY <1>2, <1>4 DEF Complete

(* What a restart or the launcher is allowed to activate.                  *)
LEMMA Allowed ==
  ASSUME PendingRelease # None
  PROVE  /\ PendingRelease = pending /\ pending # None
         /\ ~RebuildRequired => Matches(pending) /\ Fits(pending)
  BY DEF PendingRelease, RebuildRequired, ToBoot, Matches, Fits

LEMMA StepIInv ==
  ASSUME IInv, [Next]_vars
  PROVE  IInv'
  <1>t. TypeOK /\ TypeOK'
    BY StepTypeOK DEF IInv
  <1>i. Whole /\ Launcher /\ Stamped /\ Newer /\ Verified
    BY DEF IInv
  <1>o. \A w \in Workers : Operation(op[w])
    BY DEF IInv
  <1>p. PendingRelease \in {None, pending}
    BY PendingReleaseIsPending
  <1>x. ASSUME UNCHANGED <<tree, lost>> PROVE \A q : Complete(q) => Complete(q)'
    BY <1>x DEF Complete
  <1>y. ASSUME UNCHANGED <<tree, image>> PROVE \A q : Matches(q)' <=> Matches(q)
    BY <1>y DEF Matches
  <1> USE RevAssumption DEF host, disk, box, ops, None
  <1>1. ASSUME NEW w \in Workers, PullBegin(w) PROVE IInv'
    <2>1. Whole'
      BY <1>t, <1>i, <1>1, <1>o DEF PullBegin, TypeOK, Whole, Launcher, Complete, Marked,
         Rev, Tree, Up, At, Idle, BeginOp, Operation, Activated, Op
    <2>2. Launcher'
      BY <1>t, <1>i, <1>1, <1>o DEF PullBegin, TypeOK, Whole, Launcher, Complete, Marked,
         Fits, Rev, Tree, Up, Launching, At, Idle, BeginOp, Operation, Activated, Op
    <2>3. Stamped'
      BY <1>t, <1>i, <1>1, <1>o DEF PullBegin, TypeOK, Stamped, Launcher, Complete,
         Marked, Rev, Up, Launching, At, Idle, BeginOp, Operation, Activated, Op
    <2>4. Newer'
      BY <1>t, <1>i, <1>1, <1>o DEF PullBegin, TypeOK, Whole, Complete, Marked, Launcher,
         Stamped, Newer, Matches, Fits, Rev, Up, Launching, At, Idle, BeginOp, Operation,
         Activated, Op
    <2>5. Verified'
      BY <1>t, <1>i, <1>1, <1>o DEF PullBegin, TypeOK, Launcher, Verified, Fits, Up,
         Launching, At, Idle, BeginOp, Operation, Activated, Op
    <2>6. op'[w].pc = "idle" \/ Operation(op[w])'
      BY <1>t, <1>i, <1>1, <1>o DEF PullBegin, TypeOK, Whole, Complete, Marked, Fits,
         Newer, Verified, Rev, Tree, Up, NoOp, BeginOp, At, Idle, BeginOp, Operation,
         Activated, Op
    <2>7. \A v \in Workers \ {w} : op'[v].pc = "idle"
      BY <1>t, <1>1, NoWorkerAssumption DEF PullBegin, BeginOp, TypeOK
    <2>8. \A v \in Workers : Operation(op[v])'
      BY <2>6, <2>7 DEF Operation
    <2> QED
      BY <1>t, <2>1, <2>2, <2>3, <2>4, <2>5, <2>8 DEF IInv
  <1>2. ASSUME NEW w \in Workers, PullReuse(w) PROVE IInv'
    <2>1. Whole'
      BY <1>t, <1>i, <1>2, <1>o DEF PullReuse, TypeOK, Whole, Launcher, Complete, Marked,
         Rev, Tree, Up, At, Idle, BeginOp, Operation, Activated, Op, Reusable
    <2>2. Launcher'
      BY <1>t, <1>i, <1>2, <1>o DEF PullReuse, TypeOK, Whole, Launcher, Complete, Marked,
         Fits, Rev, Tree, Up, Launching, At, Idle, BeginOp, Operation, Activated, Op,
         Reusable
    <2>3. Stamped'
      BY <1>t, <1>i, <1>2, <1>o DEF PullReuse, TypeOK, Stamped, Launcher, Complete,
         Marked, Rev, Up, Launching, At, Idle, BeginOp, Operation, Activated, Op
    <2>4. Newer'
      BY <1>t, <1>i, <1>2, <1>o DEF PullReuse, TypeOK, Whole, Complete, Marked, Launcher,
         Stamped, Newer, Matches, Fits, Rev, Up, Launching, At, Idle, BeginOp, Operation,
         Activated, Op
    <2>5. Verified'
      BY <1>t, <1>i, <1>2, <1>o DEF PullReuse, TypeOK, Launcher, Verified, Fits, Up,
         Launching, At, Idle, BeginOp, Operation, Activated, Op
    <2>9. ASSUME Continue(w, "recording") PROVE Operation(op[w])'
      <3>1. op'[w].pc = "recording" /\ op'[w].rev = op[w].rev /\ op'[w].prev = op[w].prev
        BY <1>t, <2>9, ContinueFields
      <3> QED
        BY <3>1, <1>t, <1>i, <1>o, <1>2, <2>9 DEF PullReuse, TypeOK, Whole, Complete,
           Marked, Fits, Newer, Verified, Rev, Tree, Up, At, Operation, Activated, Op,
           Reusable
    <2>6. op'[w].pc = "idle" \/ Operation(op[w])'
      BY <1>2, <2>9 DEF PullReuse
    <2>7. \A v \in Workers \ {w} : op'[v].pc = "idle"
      BY <1>t, <1>2, OneOperation DEF PullReuse, Continue, At, TypeOK
    <2>8. \A v \in Workers : Operation(op[v])'
      BY <2>6, <2>7 DEF Operation
    <2> QED
      BY <1>t, <2>1, <2>2, <2>3, <2>4, <2>5, <2>8 DEF IInv
  <1>3. ASSUME NEW w \in Workers, PullDiscard(w) PROVE IInv'
    <2>0. \A q : Complete(q) => Complete(q)'
      BY <1>t, <1>3, DiscardKeeps DEF PullDiscard, TypeOK, Op
    <2>1. Whole'
      BY <1>i, <1>3, <2>0 DEF PullDiscard, Whole
    <2>2. Launcher'
      BY <1>t, <1>i, <1>3, <1>o DEF PullDiscard, TypeOK, Whole, Launcher, Complete,
         Marked, Fits, Rev, Tree, Up, Launching, Discard, At, Idle, BeginOp, Operation,
         Activated, Op, Reusable
    <2>3. Stamped'
      BY <1>t, <1>i, <1>3, <1>o DEF PullDiscard, TypeOK, Stamped, Launcher, Complete,
         Marked, Rev, Up, Launching, At, Idle, BeginOp, Operation, Activated, Op
    <2>n. /\ op[w].pc = "staging" /\ current <= op[w].rev
          /\ UNCHANGED <<host, current, pending, seen, box>>
      BY <1>3, <1>o DEF PullDiscard, At, Operation
    <2>r. pending # None /\ pending # op[w].rev => (Matches(pending)' <=> Matches(pending))
      <3>1. UNCHANGED tree \/ \E left : tree' = [tree EXCEPT ![op[w].rev] = left]
        BY <1>3 DEF PullDiscard, DiscardFound, Discard
      <3>2. pending # None /\ pending # op[w].rev => tree'[pending] = tree[pending]
        <4>1. tree \in [Rev -> Tree] /\ (pending # None => pending \in Rev)
          BY <1>t, PendingTyped
        <4>2. CASE UNCHANGED tree
          BY <4>2
        <4>3. ASSUME NEW left, tree' = [tree EXCEPT ![op[w].rev] = left],
                     pending # None, pending # op[w].rev
              PROVE  tree'[pending] = tree[pending]
          BY <4>1, <4>3 DEF Rev
        <4> QED
          BY <3>1, <4>2, <4>3
      <3> QED
        BY <2>n, <3>2 DEF Matches
    <2>4. Newer'
      BY <1>t, <1>i, <2>n, <2>r DEF Newer, TypeOK, Op
    <2>5. Verified'
      BY <1>t, <1>i, <1>3, <1>o DEF PullDiscard, TypeOK, Launcher, Verified, Fits, Up,
         Launching, At, Idle, BeginOp, Operation, Activated, Op
    <2>6. op'[w].pc = "idle" \/ Operation(op[w])'
      BY <1>t, <1>i, <1>3, <1>o DEF PullDiscard, TypeOK, Whole, Complete, Marked, Fits,
         Newer, Verified, Rev, Tree, Up, NoOp, Discard, At, Idle, BeginOp, Operation,
         Activated, Op, Reusable
    <2>7. \A v \in Workers \ {w} : op'[v].pc = "idle"
      BY <1>t, <1>3, OneOperation DEF PullDiscard, At, TypeOK
    <2>8. \A v \in Workers : Operation(op[v])'
      BY <2>6, <2>7 DEF Operation
    <2> QED
      BY <1>t, <2>1, <2>2, <2>3, <2>4, <2>5, <2>8 DEF IInv
  <1>4. ASSUME NEW w \in Workers, PullAdd(w) PROVE IInv'
    <2>0. \A q : Complete(q) => Complete(q)'
      BY <1>t, <1>4, AddKeeps, <1>x DEF PullAdd, TypeOK, Op
    <2>1. Whole'
      BY <1>i, <1>4, <2>0 DEF PullAdd, Whole
    <2>2. Launcher'
      BY <1>t, <1>i, <1>4, <1>o DEF PullAdd, TypeOK, Whole, Launcher, Complete, Marked,
         Fits, Rev, Tree, Up, Launching, AddSucceeds, AddFails, Discard, At, Idle,
         BeginOp, Operation, Activated, Op
    <2>3. Stamped'
      BY <1>t, <1>i, <1>4, <1>o DEF PullAdd, TypeOK, Stamped, Launcher, Complete, Marked,
         Rev, Up, Launching, At, Idle, BeginOp, Operation, Activated, Op
    <2>n. /\ op[w].pc = "staging" /\ current <= op[w].rev
          /\ UNCHANGED <<host, current, pending, seen, box>>
      BY <1>4, <1>o DEF PullAdd, At, Operation
    <2>r. pending # None /\ pending # op[w].rev => (Matches(pending)' <=> Matches(pending))
      <3>1. UNCHANGED tree \/ \E left : tree' = [tree EXCEPT ![op[w].rev] = left]
        BY <1>4 DEF PullAdd, AddSucceeds, AddFails, Discard
      <3>2. pending # None /\ pending # op[w].rev => tree'[pending] = tree[pending]
        <4>1. tree \in [Rev -> Tree] /\ (pending # None => pending \in Rev)
          BY <1>t, PendingTyped
        <4>2. CASE UNCHANGED tree
          BY <4>2
        <4>3. ASSUME NEW left, tree' = [tree EXCEPT ![op[w].rev] = left],
                     pending # None, pending # op[w].rev
              PROVE  tree'[pending] = tree[pending]
          BY <4>1, <4>3 DEF Rev
        <4> QED
          BY <3>1, <4>2, <4>3
      <3> QED
        BY <2>n, <3>2 DEF Matches
    <2>4. Newer'
      BY <1>t, <1>i, <2>n, <2>r DEF Newer, TypeOK, Op
    <2>5. Verified'
      BY <1>t, <1>i, <1>4, <1>o DEF PullAdd, TypeOK, Launcher, Verified, Fits, Up,
         Launching, At, Idle, BeginOp, Operation, Activated, Op
    <2>9. ASSUME Continue(w, "marking") PROVE Operation(op[w])'
      <3>1. op'[w].pc = "marking" /\ op'[w].rev = op[w].rev /\ op'[w].prev = op[w].prev
        BY <1>t, <2>9, ContinueFields
      <3>2. tree' = tree \/ \A r \in Rev : tree[r] \in Marked => tree'[r] \in Marked
        BY <1>t, <1>4 DEF PullAdd, AddSucceeds, AddFails, Discard, TypeOK, Tree, Marked,
           Reusable, At
      <3> QED
        BY <3>1, <3>2, <1>t, <1>i, <1>o, <1>4, <2>9
           DEF PullAdd, TypeOK, Whole, Complete, Marked, Fits, Newer, Verified, Rev,
           Tree, Up, At, Operation, Activated, Op
    <2>10. ASSUME EndOp(w) PROVE op'[w].pc = "idle"
      BY <1>t, <2>10, EndOpField
    <2>6. op'[w].pc = "idle" \/ Operation(op[w])'
      BY <1>4, <2>9, <2>10 DEF PullAdd
    <2>7. \A v \in Workers \ {w} : op'[v].pc = "idle"
      BY <1>t, <1>4, OneOperation DEF PullAdd, Continue, EndOp, At, TypeOK
    <2>8. \A v \in Workers : Operation(op[v])'
      BY <2>6, <2>7 DEF Operation
    <2> QED
      BY <1>t, <2>1, <2>2, <2>3, <2>4, <2>5, <2>8 DEF IInv
  <1>5. ASSUME NEW w \in Workers, PullMark(w) PROVE IInv'
    <2>0. \A q : Complete(q) => Complete(q)'
      BY <1>t, <1>5, MarkKeeps, <1>x DEF PullMark, TypeOK, Op
    <2>1. Whole'
      BY <1>i, <1>5, <2>0 DEF PullMark, Whole
    <2>2. Launcher'
      BY <1>t, <1>i, <1>5, <1>o DEF PullMark, TypeOK, Whole, Launcher, Complete, Marked,
         Fits, Rev, Tree, Up, Launching, MarkComplete, At, Idle, BeginOp, Operation,
         Activated, Op
    <2>3. Stamped'
      BY <1>t, <1>i, <1>5, <1>o DEF PullMark, TypeOK, Stamped, Launcher, Complete,
         Marked, Rev, Up, Launching, At, Idle, BeginOp, Operation, Activated, Op
    <2>n. /\ op[w].pc = "marking" /\ current <= op[w].rev
          /\ UNCHANGED <<host, current, pending, seen, box>>
      BY <1>5, <1>o DEF PullMark, At, Operation
    <2>r. pending # None /\ pending # op[w].rev => (Matches(pending)' <=> Matches(pending))
      <3>1. UNCHANGED tree \/ \E left : tree' = [tree EXCEPT ![op[w].rev] = left]
        BY <1>5 DEF PullMark, MarkComplete
      <3>2. pending # None /\ pending # op[w].rev => tree'[pending] = tree[pending]
        <4>1. tree \in [Rev -> Tree] /\ (pending # None => pending \in Rev)
          BY <1>t, PendingTyped
        <4>2. CASE UNCHANGED tree
          BY <4>2
        <4>3. ASSUME NEW left, tree' = [tree EXCEPT ![op[w].rev] = left],
                     pending # None, pending # op[w].rev
              PROVE  tree'[pending] = tree[pending]
          BY <4>1, <4>3 DEF Rev
        <4> QED
          BY <3>1, <4>2, <4>3
      <3> QED
        BY <2>n, <3>2 DEF Matches
    <2>4. Newer'
      BY <1>t, <1>i, <2>n, <2>r DEF Newer, TypeOK, Op
    <2>5. Verified'
      BY <1>t, <1>i, <1>5, <1>o DEF PullMark, TypeOK, Launcher, Verified, Fits, Up,
         Launching, At, Idle, BeginOp, Operation, Activated, Op
    <2>9. ASSUME MarkComplete(op[w].rev), Continue(w, "recording") PROVE Operation(op[w])'
      <3>1. op'[w].pc = "recording" /\ op'[w].rev = op[w].rev /\ op'[w].prev = op[w].prev
        BY <1>t, <2>9, ContinueFields
      <3>2. tree' = tree \/ \A r \in Rev : tree[r] \in Marked => tree'[r] \in Marked
        BY <1>t, <1>5 DEF PullMark, MarkComplete, TypeOK, Tree, Marked, Reusable, At
      <3> QED
        BY <3>1, <3>2, <1>t, <1>i, <1>o, <1>5, <2>9
           DEF PullMark, TypeOK, Whole, Complete, Marked, Fits, Newer, Verified, Rev,
           Tree, Up, MarkComplete, At, Operation, Activated, Op
    <2>10. ASSUME EndOp(w) PROVE op'[w].pc = "idle"
      BY <1>t, <2>10, EndOpField
    <2>6. op'[w].pc = "idle" \/ Operation(op[w])'
      BY <1>5, <2>9, <2>10 DEF PullMark
    <2>7. \A v \in Workers \ {w} : op'[v].pc = "idle"
      BY <1>t, <1>5, OneOperation DEF PullMark, Continue, EndOp, At, TypeOK
    <2>8. \A v \in Workers : Operation(op[v])'
      BY <2>6, <2>7 DEF Operation
    <2> QED
      BY <1>t, <2>1, <2>2, <2>3, <2>4, <2>5, <2>8 DEF IInv
  <1>6. ASSUME NEW w \in Workers, PullRecord(w) PROVE IInv'
    <2>1. Whole'
      BY <1>t, <1>i, <1>6, <1>o DEF PullRecord, TypeOK, Whole, Launcher, Complete,
         Marked, Rev, Tree, Up, At, Idle, BeginOp, Operation, Activated, Op
    <2>2. Launcher'
      BY <1>t, <1>i, <1>6, <1>o DEF PullRecord, TypeOK, Whole, Launcher, Complete,
         Marked, Fits, Rev, Tree, Up, Launching, At, Idle, BeginOp, Operation, Activated, Op
    <2>3. Stamped'
      BY <1>t, <1>i, <1>6, <1>o DEF PullRecord, TypeOK, Stamped, Launcher, Complete,
         Marked, Rev, Up, Launching, At, Idle, BeginOp, Operation, Activated, Op
    <2>4. Newer'
      BY <1>t, <1>i, <1>6, <1>o DEF PullRecord, TypeOK, Whole, Complete, Marked,
         Launcher, Stamped, Newer, Matches, Fits, Rev, Up, Launching, At, Idle, BeginOp,
         Operation, Activated, Op
    <2>5. Verified'
      BY <1>t, <1>i, <1>6, <1>o DEF PullRecord, TypeOK, Launcher, Verified, Fits, Up,
         Launching, At, Idle, BeginOp, Operation, Activated, Op
    <2>6. op'[w].pc = "idle" \/ Operation(op[w])'
      BY <1>t, <1>6, EndOpField DEF PullRecord
    <2>7. \A v \in Workers \ {w} : op'[v].pc = "idle"
      BY <1>t, <1>6, OneOperation DEF PullRecord, EndOp, At, TypeOK
    <2>8. \A v \in Workers : Operation(op[v])'
      BY <2>6, <2>7 DEF Operation
    <2> QED
      BY <1>t, <2>1, <2>2, <2>3, <2>4, <2>5, <2>8 DEF IInv
  <1>7. ASSUME NEW w \in Workers, PrepareRestart(w) PROVE IInv'
    <2>0. UNCHANGED <<host, disk, box>>
      BY <1>7 DEF PrepareRestart
    <2>1. Whole'
      BY <1>i, <2>0 DEF Whole, Complete
    <2>2. Launcher'
      BY <1>t, <1>i, <2>0, <1>7 DEF PrepareRestart, BeginOp, Launcher, Complete, Fits
    <2>3. Stamped'
      BY <1>i, <2>0 DEF Stamped
    <2>4. Newer'
      BY <1>i, <2>0 DEF Newer, Matches
    <2>5. Verified'
      BY <1>i, <2>0 DEF Verified, Fits
    <2>9. op'[w] = [pc |-> "prepared", rev |-> PendingRelease, prev |-> None]
      BY <1>t, <1>7 DEF PrepareRestart, BeginOp, TypeOK
    <2>10. op'[w].pc = "prepared" /\ op'[w].rev = PendingRelease
      BY <2>9
    <2>11. PendingRelease' = PendingRelease
      BY <2>0 DEF PendingRelease
    <2>12. PendingRelease # None => Matches(PendingRelease)
      BY <1>7, Allowed DEF PrepareRestart
    <2>6. op'[w].pc = "idle" \/ Operation(op[w])'
      BY <2>0, <2>10, <2>11, <2>12 DEF Operation, Matches
    <2>7. \A v \in Workers \ {w} : op'[v].pc = "idle"
      BY <1>t, <1>7, NoWorkerAssumption DEF PrepareRestart, BeginOp, TypeOK
    <2>8. \A v \in Workers : Operation(op[v])'
      BY <2>6, <2>7 DEF Operation
    <2> QED
      BY <1>t, <2>1, <2>2, <2>3, <2>4, <2>5, <2>8 DEF IInv
  <1>8. ASSUME NEW w \in Workers, Switch(w) PROVE IInv'
    <2>0. /\ op[w].pc = "prepared" /\ op[w].rev = PendingRelease /\ PendingRelease # None
          /\ phase \in Up /\ Matches(PendingRelease)
      BY <1>8, <1>o DEF Switch, At, Operation
    <2>a. /\ PendingRelease = pending /\ pending # None /\ current' = pending
          /\ Fits(pending) /\ Matches(pending)
      BY <1>8, <2>0, Allowed DEF Switch, Matches, Fits
    <2>b. pending >= current /\ current # None /\ Complete(pending) /\ Complete(current)
      BY <1>t, <1>i, <2>0, <2>a DEF Newer, Stamped, Whole, Up
    <2>c. UNCHANGED <<host, tree, lost, pending, seen, box>>
      BY <1>8 DEF Switch
    <2>1. Whole'
      BY <1>i, <2>a, <2>c DEF Whole, Complete
    <2>2. Launcher'
      BY <1>i, <2>0, <2>c DEF Launcher, Complete, Up
    <2>3. Stamped'
      BY <1>i, <2>a, <2>c DEF Stamped
    <2>4. Newer'
      BY <1>t, <2>a, <2>c DEF Newer, TypeOK
    <2>5. Verified'
      BY <2>a, <2>c DEF Verified, Fits
    <2>9. op'[w] = [pc |-> "switched", rev |-> pending, prev |-> current]
      BY <1>t, <2>a, <1>8 DEF Switch, TypeOK
    <2>10. op'[w].pc = "switched" /\ op'[w].rev = pending /\ op'[w].prev = current
      BY <2>9
    <2>11. current = serving \/ Fits(current)
      BY <1>i, <2>0 DEF Verified
    <2>6. op'[w].pc = "idle" \/ Operation(op[w])'
      BY <1>t, <2>10, <2>11, <2>a, <2>b, <2>c DEF Operation, Activated, Complete, Fits, TypeOK
    <2>7. \A v \in Workers \ {w} : op'[v].pc = "idle"
      BY <1>t, <1>8, OneOperation DEF Switch, At, TypeOK
    <2>8. \A v \in Workers : Operation(op[v])'
      BY <2>6, <2>7 DEF Operation
    <2> QED
      BY <1>t, <2>1, <2>2, <2>3, <2>4, <2>5, <2>8 DEF IInv
  <1>9. ASSUME NEW w \in Workers, Unmark(w) PROVE IInv'
    <2>1. Whole'
      BY <1>t, <1>i, <1>9, <1>o DEF Unmark, TypeOK, Whole, Launcher, Complete, Marked,
         Rev, Tree, Up, At, Idle, BeginOp, Operation, Activated, Op
    <2>2. Launcher'
      BY <1>t, <1>i, <1>9, <1>o DEF Unmark, TypeOK, Whole, Launcher, Complete, Marked,
         Fits, Rev, Tree, Up, Launching, At, Idle, BeginOp, Operation, Activated, Op
    <2>3. Stamped'
      BY <1>t, <1>i, <1>9, <1>o DEF Unmark, TypeOK, Stamped, Launcher, Complete, Marked,
         Rev, Up, Launching, At, Idle, BeginOp, Operation, Activated, Op
    <2>4. Newer'
      BY <1>t, <1>i, <1>9, <1>o DEF Unmark, TypeOK, Whole, Complete, Marked, Launcher,
         Stamped, Newer, Matches, Fits, Rev, Up, Launching, At, Idle, BeginOp, Operation,
         Activated, Op
    <2>5. Verified'
      BY <1>t, <1>i, <1>9, <1>o DEF Unmark, TypeOK, Launcher, Verified, Fits, Up,
         Launching, At, Idle, BeginOp, Operation, Activated, Op
    <2>9. ASSUME pending' = None, current' = current, Continue(w, "signalling") PROVE Operation(op[w])'
      <3>1. op'[w].pc = "signalling" /\ op'[w].rev = op[w].rev /\ op'[w].prev = op[w].prev
        BY <1>t, <2>9, ContinueFields
      <3> QED
        BY <3>1, <1>t, <1>i, <1>o, <1>9, <2>9
           DEF Unmark, TypeOK, Whole, Complete, Marked, Fits, Newer, Verified, Rev, Tree,
           Up, At, Operation, Activated, Op
    <2>10. ASSUME EndOp(w) PROVE op'[w].pc = "idle"
      BY <1>t, <2>10, EndOpField
    <2>6. op'[w].pc = "idle" \/ Operation(op[w])'
      BY <1>9, <2>9, <2>10 DEF Unmark
    <2>7. \A v \in Workers \ {w} : op'[v].pc = "idle"
      BY <1>t, <1>9, OneOperation DEF Unmark, Continue, EndOp, At, TypeOK
    <2>8. \A v \in Workers : Operation(op[v])'
      BY <2>6, <2>7 DEF Operation
    <2> QED
      BY <1>t, <2>1, <2>2, <2>3, <2>4, <2>5, <2>8 DEF IInv
  <1>10. ASSUME NEW w \in Workers, Signal(w) PROVE IInv'
    <2>1. Whole'
      BY <1>t, <1>i, <1>10, <1>o DEF Signal, TypeOK, Whole, Launcher, Complete, Marked,
         Rev, Tree, Up, At, Idle, BeginOp, Operation, Activated, Op
    <2>2. Launcher'
      BY <1>t, <1>i, <1>10, <1>o DEF Signal, TypeOK, Whole, Launcher, Complete, Marked,
         Fits, Rev, Tree, Up, Launching, At, Idle, BeginOp, Operation, Activated, Op
    <2>3. Stamped'
      BY <1>t, <1>i, <1>10, <1>o DEF Signal, TypeOK, Stamped, Launcher, Complete, Marked,
         Rev, Up, Launching, At, Idle, BeginOp, Operation, Activated, Op
    <2>4. Newer'
      BY <1>t, <1>i, <1>10, <1>o DEF Signal, TypeOK, Whole, Complete, Marked, Launcher,
         Stamped, Newer, Matches, Fits, Rev, Up, Launching, At, Idle, BeginOp, Operation,
         Activated, Op
    <2>5. Verified'
      BY <1>t, <1>i, <1>10, <1>o DEF Signal, TypeOK, Launcher, Verified, Fits, Up,
         Launching, At, Idle, BeginOp, Operation, Activated, Op
    <2>9. ASSUME op[w].rev # None, Continue(w, "undoing") PROVE Operation(op[w])'
      <3>1. op'[w].pc = "undoing" /\ op'[w].rev = op[w].rev /\ op'[w].prev = op[w].prev
        BY <1>t, <2>9, ContinueFields
      <3> QED
        BY <3>1, <1>t, <1>i, <1>o, <1>10, <2>9
           DEF Signal, TypeOK, Whole, Complete, Marked, Fits, Newer, Verified, Rev, Tree,
           Up, At, Operation, Activated, Op
    <2>10. ASSUME EndOp(w) PROVE op'[w].pc = "idle"
      BY <1>t, <2>10, EndOpField
    <2>6. op'[w].pc = "idle" \/ Operation(op[w])'
      BY <1>10, <2>9, <2>10 DEF Signal
    <2>7. \A v \in Workers \ {w} : op'[v].pc = "idle"
      BY <1>t, <1>10, OneOperation DEF Signal, Continue, EndOp, At, TypeOK
    <2>8. \A v \in Workers : Operation(op[v])'
      BY <2>6, <2>7 DEF Operation
    <2> QED
      BY <1>t, <2>1, <2>2, <2>3, <2>4, <2>5, <2>8 DEF IInv
  <1>11. ASSUME NEW w \in Workers, Undo(w) PROVE IInv'
    <2>1. Whole'
      BY <1>t, <1>i, <1>11, <1>o DEF Undo, TypeOK, Whole, Launcher, Complete, Marked,
         Rev, Tree, Up, At, Idle, BeginOp, Operation, Activated, Op
    <2>2. Launcher'
      BY <1>t, <1>i, <1>11, <1>o DEF Undo, TypeOK, Whole, Launcher, Complete, Marked,
         Fits, Rev, Tree, Up, Launching, At, Idle, BeginOp, Operation, Activated, Op
    <2>3. Stamped'
      BY <1>t, <1>i, <1>11, <1>o DEF Undo, TypeOK, Stamped, Launcher, Complete, Marked,
         Rev, Up, Launching, At, Idle, BeginOp, Operation, Activated, Op
    <2>4. Newer'
      BY <1>t, <1>i, <1>11, <1>o DEF Undo, TypeOK, Whole, Complete, Marked, Launcher,
         Stamped, Newer, Matches, Fits, Rev, Up, Launching, At, Idle, BeginOp, Operation,
         Activated, Op
    <2>5. Verified'
      BY <1>t, <1>i, <1>11, <1>o DEF Undo, TypeOK, Launcher, Verified, Fits, Up,
         Launching, At, Idle, BeginOp, Operation, Activated, Op
    <2>9. ASSUME current' = op[w].prev, Continue(w, "restoring") PROVE Operation(op[w])'
      <3>1. op'[w].pc = "restoring" /\ op'[w].rev = op[w].rev /\ op'[w].prev = op[w].prev
        BY <1>t, <2>9, ContinueFields
      <3> QED
        BY <3>1, <1>t, <1>i, <1>o, <1>11, <2>9 DEF Undo, TypeOK, Whole, Complete, Marked,
           Fits, Newer, Verified, Rev, Tree, Up, At, Operation, Activated, Op
    <2>10. ASSUME EndOp(w) PROVE op'[w].pc = "idle"
      BY <1>t, <2>10, EndOpField
    <2>6. op'[w].pc = "idle" \/ Operation(op[w])'
      BY <1>11, <2>9, <2>10 DEF Undo
    <2>7. \A v \in Workers \ {w} : op'[v].pc = "idle"
      BY <1>t, <1>11, OneOperation DEF Undo, Continue, EndOp, At, TypeOK
    <2>8. \A v \in Workers : Operation(op[v])'
      BY <2>6, <2>7 DEF Operation
    <2> QED
      BY <1>t, <2>1, <2>2, <2>3, <2>4, <2>5, <2>8 DEF IInv
  <1>12. ASSUME NEW w \in Workers, Restore(w) PROVE IInv'
    <2>1. Whole'
      BY <1>t, <1>i, <1>12, <1>o DEF Restore, TypeOK, Whole, Launcher, Complete, Marked,
         Rev, Tree, Up, At, Idle, BeginOp, Operation, Activated, Op
    <2>2. Launcher'
      BY <1>t, <1>i, <1>12, <1>o DEF Restore, TypeOK, Whole, Launcher, Complete, Marked,
         Fits, Rev, Tree, Up, Launching, At, Idle, BeginOp, Operation, Activated, Op
    <2>3. Stamped'
      BY <1>t, <1>i, <1>12, <1>o DEF Restore, TypeOK, Stamped, Launcher, Complete,
         Marked, Rev, Up, Launching, At, Idle, BeginOp, Operation, Activated, Op
    <2>4. Newer'
      BY <1>t, <1>i, <1>12, <1>o DEF Restore, TypeOK, Whole, Complete, Marked, Launcher,
         Stamped, Newer, Matches, Fits, Rev, Up, Launching, At, Idle, BeginOp, Operation,
         Activated, Op
    <2>5. Verified'
      BY <1>t, <1>i, <1>12, <1>o DEF Restore, TypeOK, Launcher, Verified, Fits, Up,
         Launching, At, Idle, BeginOp, Operation, Activated, Op
    <2>6. op'[w].pc = "idle" \/ Operation(op[w])'
      BY <1>t, <1>12, EndOpField DEF Restore
    <2>7. \A v \in Workers \ {w} : op'[v].pc = "idle"
      BY <1>t, <1>12, OneOperation DEF Restore, EndOp, At, TypeOK
    <2>8. \A v \in Workers : Operation(op[v])'
      BY <2>6, <2>7 DEF Operation
    <2> QED
      BY <1>t, <2>1, <2>2, <2>3, <2>4, <2>5, <2>8 DEF IInv
  <1>13. ASSUME NEW w \in Workers, Die(w) PROVE IInv'
    <2>1. Whole'
      BY <1>t, <1>i, <1>13, <1>o DEF Die, TypeOK, Whole, Launcher, Complete, Marked, Rev,
         Tree, Up, At, Idle, BeginOp, Operation, Activated, Op
    <2>2. Launcher'
      BY <1>t, <1>i, <1>13, <1>o DEF Die, TypeOK, Whole, Launcher, Complete, Marked,
         Fits, Rev, Tree, Up, Launching, At, Idle, BeginOp, Operation, Activated, Op
    <2>3. Stamped'
      BY <1>t, <1>i, <1>13, <1>o DEF Die, TypeOK, Stamped, Launcher, Complete, Marked,
         Rev, Up, Launching, At, Idle, BeginOp, Operation, Activated, Op
    <2>4. Newer'
      BY <1>t, <1>i, <1>13, <1>o DEF Die, TypeOK, Whole, Complete, Marked, Launcher,
         Stamped, Newer, Matches, Fits, Rev, Up, Launching, At, Idle, BeginOp, Operation,
         Activated, Op
    <2>5. Verified'
      BY <1>t, <1>i, <1>13, <1>o DEF Die, TypeOK, Launcher, Verified, Fits, Up,
         Launching, At, Idle, BeginOp, Operation, Activated, Op
    <2>6. op'[w].pc = "idle" \/ Operation(op[w])'
      BY <1>t, <1>13, EndOpField DEF Die
    <2>7. \A v \in Workers \ {w} : op'[v].pc = "idle"
      BY <1>t, <1>13, OneOperation DEF Die, EndOp, Idle, TypeOK
    <2>8. \A v \in Workers : Operation(op[v])'
      BY <2>6, <2>7 DEF Operation
    <2> QED
      BY <1>t, <2>1, <2>2, <2>3, <2>4, <2>5, <2>8 DEF IInv
  <1>14. ASSUME Decide PROVE IInv'
    <2>0. UNCHANGED <<host, tree, lost, pending, seen, serving, ops, trouble>> /\ phase = "down"
      BY <1>14 DEF Decide
    <2>c. \/ /\ Rebuilt \/ current = None
             /\ target' = source /\ phase' = "staging" /\ current' = current
          \/ /\ image.id = seen /\ current # None
             /\ pending # None /\ Matches(pending) /\ Fits(pending)
             /\ current' = pending /\ target' = current /\ phase' = "activating"
          \/ /\ image.id = seen /\ current # None
             /\ UNCHANGED <<current, target>> /\ phase' = "settled"
      BY <1>14, Allowed DEF Decide, Rebuilt
    <2>1. Whole'
      BY <1>i, <2>0, <2>c DEF Whole, Complete
    <2>d. image.id = seen /\ pending # None /\ Matches(pending) => pending >= current
      BY <1>i DEF Newer
    <2>e. source # None
      BY <1>t DEF TypeOK
    <2>2. Launcher'
      BY <1>t, <1>i, <2>0, <2>c, <2>d, <2>e DEF TypeOK, Whole, Launcher, Complete, Up, Idle
    <2>3. Stamped'
      BY <1>i, <2>0, <2>c DEF Stamped, Rebuilt
    <2>4. Newer'
      BY <1>t, <1>i, <2>0, <2>c DEF Newer, Matches, Rebuilt, TypeOK, Up
    <2>5. Verified'
      BY <2>c DEF Verified, Up
    <2>7. \A v \in Workers : op'[v].pc = "idle"
      BY <1>i, <1>14 DEF Decide, Launcher, Idle, Up
    <2>8. \A v \in Workers : Operation(op[v])'
      BY <2>7 DEF Operation
    <2> QED
      BY <1>t, <2>1, <2>2, <2>3, <2>4, <2>5, <2>8 DEF IInv
  <1>15. ASSUME BootReuse PROVE IInv'
    <2>1. Whole'
      BY <1>t, <1>i, <1>15 DEF BootReuse, TypeOK, Whole, Launcher, Complete, Marked, Rev,
         Tree, Up, Launch, Reusable
    <2>2. Launcher'
      BY <1>t, <1>i, <1>15 DEF BootReuse, TypeOK, Whole, Launcher, Complete, Marked,
         Fits, Stamped, Newer, Rev, Tree, Up, Launching, NoOp, Idle, Launch, Reusable
    <2>3. Stamped'
      BY <1>t, <1>i, <1>15 DEF BootReuse, TypeOK, Stamped, Launcher, Complete, Marked,
         Rev, Up, Launching, Launch
    <2>4. Newer'
      BY <1>t, <1>i, <1>15 DEF BootReuse, TypeOK, Whole, Complete, Marked, Launcher,
         Stamped, Newer, Matches, Fits, Rev, Up, Launching, Launch
    <2>5. Verified'
      BY <1>t, <1>i, <1>15 DEF BootReuse, TypeOK, Launcher, Verified, Fits, Up,
         Launching, Launch
    <2>7. \A v \in Workers : op'[v].pc = "idle"
      BY <1>i, <1>15 DEF BootReuse, Launcher, Idle, Up
    <2>8. \A v \in Workers : Operation(op[v])'
      BY <2>7 DEF Operation
    <2> QED
      BY <1>t, <2>1, <2>2, <2>3, <2>4, <2>5, <2>8 DEF IInv
  <1>16. ASSUME BootDiscard PROVE IInv'
    <2>0. \A q : Complete(q) => Complete(q)'
      BY <1>t, <1>16, DiscardKeeps DEF BootDiscard, TypeOK
    <2>1. Whole'
      BY <1>i, <1>16, <2>0 DEF BootDiscard, Whole
    <2>2. Launcher'
      BY <1>t, <1>i, <1>16 DEF BootDiscard, TypeOK, Whole, Launcher, Complete, Marked,
         Fits, Stamped, Newer, Rev, Tree, Up, Launching, NoOp, Idle, Discard, Reusable
    <2>3. Stamped'
      BY <1>t, <1>i, <1>16 DEF BootDiscard, TypeOK, Stamped, Launcher, Complete, Marked,
         Rev, Up, Launching
    <2>4. Newer'
      BY <1>t, <1>i, <1>16 DEF BootDiscard, TypeOK, Whole, Complete, Marked, Launcher,
         Stamped, Newer, Matches, Fits, Rev, Up, Launching
    <2>5. Verified'
      BY <1>t, <1>i, <1>16 DEF BootDiscard, TypeOK, Launcher, Verified, Fits, Up, Launching
    <2>7. \A v \in Workers : op'[v].pc = "idle"
      BY <1>i, <1>16 DEF BootDiscard, Launcher, Idle, Up
    <2>8. \A v \in Workers : Operation(op[v])'
      BY <2>7 DEF Operation
    <2> QED
      BY <1>t, <2>1, <2>2, <2>3, <2>4, <2>5, <2>8 DEF IInv
  <1>17. ASSUME BootAdd PROVE IInv'
    <2>0. \A q : Complete(q) => Complete(q)'
      BY <1>t, <1>17, AddKeeps DEF BootAdd, TypeOK
    <2>1. Whole'
      BY <1>i, <1>17, <2>0 DEF BootAdd, Whole, Launch
    <2>2. Launcher'
      BY <1>t, <1>i, <1>17 DEF BootAdd, TypeOK, Whole, Launcher, Complete, Marked, Fits,
         Stamped, Newer, Rev, Tree, Up, Launching, NoOp, Idle, Launch, AddSucceeds,
         AddFails, Discard
    <2>3. Stamped'
      BY <1>t, <1>i, <1>17 DEF BootAdd, TypeOK, Stamped, Launcher, Complete, Marked, Rev,
         Up, Launching, Launch
    <2>4. Newer'
      BY <1>t, <1>i, <1>17 DEF BootAdd, TypeOK, Whole, Complete, Marked, Launcher,
         Stamped, Newer, Matches, Fits, Rev, Up, Launching, Launch
    <2>5. Verified'
      BY <1>t, <1>i, <1>17 DEF BootAdd, TypeOK, Launcher, Verified, Fits, Up, Launching,
         Launch
    <2>7. \A v \in Workers : op'[v].pc = "idle"
      BY <1>i, <1>17 DEF BootAdd, Launcher, Idle, Up
    <2>8. \A v \in Workers : Operation(op[v])'
      BY <2>7 DEF Operation
    <2> QED
      BY <1>t, <2>1, <2>2, <2>3, <2>4, <2>5, <2>8 DEF IInv
  <1>18. ASSUME BootMark PROVE IInv'
    <2>0. \A q : Complete(q) => Complete(q)'
      BY <1>t, <1>18, MarkKeeps, <1>x DEF BootMark, TypeOK
    <2>1. Whole'
      BY <1>i, <1>18, <2>0 DEF BootMark, Whole, Launch
    <2>2. Launcher'
      BY <1>t, <1>i, <1>18 DEF BootMark, TypeOK, Whole, Launcher, Complete, Marked, Fits,
         Stamped, Newer, Rev, Tree, Up, Launching, NoOp, Idle, Launch, MarkComplete
    <2>3. Stamped'
      BY <1>t, <1>i, <1>18 DEF BootMark, TypeOK, Stamped, Launcher, Complete, Marked,
         Rev, Up, Launching, Launch
    <2>4. Newer'
      BY <1>t, <1>i, <1>18 DEF BootMark, TypeOK, Whole, Complete, Marked, Launcher,
         Stamped, Newer, Matches, Fits, Rev, Up, Launching, Launch
    <2>5. Verified'
      BY <1>t, <1>i, <1>18 DEF BootMark, TypeOK, Launcher, Verified, Fits, Up, Launching,
         Launch
    <2>7. \A v \in Workers : op'[v].pc = "idle"
      BY <1>i, <1>18 DEF BootMark, Launcher, Idle, Up
    <2>8. \A v \in Workers : Operation(op[v])'
      BY <2>7 DEF Operation
    <2> QED
      BY <1>t, <2>1, <2>2, <2>3, <2>4, <2>5, <2>8 DEF IInv
  <1>19. ASSUME Compare PROVE IInv'
    <2>0. UNCHANGED <<host, tree, lost, seen, ops, trouble, target, serving>> /\ phase = "comparing"
      BY <1>19 DEF Compare, Launch
    <2>c. \/ /\ Matches(target) /\ Fits(target)
             /\ current' = target /\ pending' = pending /\ phase' = "installing"
          \/ /\ ~Matches(target) /\ current # None
             /\ pending' = target /\ current' = current /\ phase' = "settled"
          \/ current = None /\ UNCHANGED <<current, pending>> /\ phase' = "down"
      BY <1>19 DEF Compare, Launch, Matches, Fits
    <2>1. Whole'
      BY <1>i, <2>0, <2>c DEF Whole, Complete, Launcher
    <2>2. Launcher'
      BY <1>i, <2>0, <2>c DEF Launcher, Complete, Fits, Idle, Up
    <2>3. Stamped'
      BY <1>i, <2>0, <2>c DEF Stamped, Launcher
    <2>4. Newer'
      BY <1>i, <2>0, <2>c DEF Newer, Matches, Stamped, Up
    <2>5. Verified'
      BY <2>c DEF Verified, Up
    <2>7. \A v \in Workers : op'[v].pc = "idle"
      BY <1>i, <1>19 DEF Compare, Launcher, Idle, Up
    <2>8. \A v \in Workers : Operation(op[v])'
      BY <2>7 DEF Operation
    <2> QED
      BY <1>t, <2>1, <2>2, <2>3, <2>4, <2>5, <2>8 DEF IInv
  <1>20. ASSUME BootUnmark PROVE IInv'
    <2>1. Whole'
      BY <1>t, <1>i, <1>20 DEF BootUnmark, TypeOK, Whole, Launcher, Complete, Marked,
         Rev, Tree, Up, Launch
    <2>2. Launcher'
      BY <1>t, <1>i, <1>20 DEF BootUnmark, TypeOK, Whole, Launcher, Complete, Marked,
         Fits, Stamped, Newer, Rev, Tree, Up, Launching, NoOp, Idle, Launch
    <2>3. Stamped'
      BY <1>t, <1>i, <1>20 DEF BootUnmark, TypeOK, Stamped, Launcher, Complete, Marked,
         Rev, Up, Launching, Launch
    <2>4. Newer'
      BY <1>t, <1>i, <1>20 DEF BootUnmark, TypeOK, Whole, Complete, Marked, Launcher,
         Stamped, Newer, Matches, Fits, Rev, Up, Launching, Launch
    <2>5. Verified'
      BY <1>t, <1>i, <1>20 DEF BootUnmark, TypeOK, Launcher, Verified, Fits, Up,
         Launching, Launch
    <2>7. \A v \in Workers : op'[v].pc = "idle"
      BY <1>i, <1>20 DEF BootUnmark, Launcher, Idle, Up
    <2>8. \A v \in Workers : Operation(op[v])'
      BY <2>7 DEF Operation
    <2> QED
      BY <1>t, <2>1, <2>2, <2>3, <2>4, <2>5, <2>8 DEF IInv
  <1>21. ASSUME Stamp PROVE IInv'
    <2>1. Whole'
      BY <1>t, <1>i, <1>21 DEF Stamp, TypeOK, Whole, Launcher, Complete, Marked, Rev,
         Tree, Up, Launch
    <2>2. Launcher'
      BY <1>t, <1>i, <1>21 DEF Stamp, TypeOK, Whole, Launcher, Complete, Marked, Fits,
         Stamped, Newer, Rev, Tree, Up, Launching, NoOp, Idle, Launch
    <2>3. Stamped'
      BY <1>t, <1>i, <1>21 DEF Stamp, TypeOK, Stamped, Launcher, Complete, Marked, Rev,
         Up, Launching, Launch
    <2>4. Newer'
      BY <1>t, <1>i, <1>21 DEF Stamp, TypeOK, Whole, Complete, Marked, Launcher, Stamped,
         Newer, Matches, Fits, Rev, Up, Launching, Launch
    <2>5. Verified'
      BY <1>t, <1>i, <1>21 DEF Stamp, TypeOK, Launcher, Verified, Fits, Up, Launching,
         Launch
    <2>7. \A v \in Workers : op'[v].pc = "idle"
      BY <1>i, <1>21 DEF Stamp, Launcher, Idle, Up
    <2>8. \A v \in Workers : Operation(op[v])'
      BY <2>7 DEF Operation
    <2> QED
      BY <1>t, <2>1, <2>2, <2>3, <2>4, <2>5, <2>8 DEF IInv
  <1>22. ASSUME Serve PROVE IInv'
    <2>0. \A q \in {current, pending} : Complete(q) => Complete(q)'
      BY <1>t, <1>22, TidyKeeps DEF Serve
    <2>1. Whole'
      BY <1>i, <1>22, <2>0 DEF Serve, Whole
    <2>2. Launcher'
      BY <1>t, <1>i, <1>22 DEF Serve, TypeOK, Whole, Launcher, Complete, Marked, Fits,
         Stamped, Newer, Rev, Tree, Up, Launching, NoOp, Idle, Superseded
    <2>3. Stamped'
      BY <1>t, <1>i, <1>22 DEF Serve, TypeOK, Stamped, Launcher, Complete, Marked, Rev,
         Up, Launching
    <2>4. Newer'
      BY <1>t, <1>i, <1>22, TidyPending DEF Serve, Newer, TypeOK
    <2>5. Verified'
      BY <1>t, <1>i, <1>22 DEF Serve, TypeOK, Launcher, Verified, Fits, Up, Launching
    <2>7. \A v \in Workers : op'[v].pc = "idle"
      BY <1>i, <1>22 DEF Serve, Launcher, Idle, Up
    <2>8. \A v \in Workers : Operation(op[v])'
      BY <2>7 DEF Operation
    <2> QED
      BY <1>t, <2>1, <2>2, <2>3, <2>4, <2>5, <2>8 DEF IInv
  <1>23. ASSUME CutPrune PROVE IInv'
    <2>0. \A q : Complete(q) => Complete(q)'
      BY <1>t, <1>23, CutKeeps
    <2>1. Whole'
      BY <1>i, <1>23, <2>0 DEF CutPrune, Whole, Launch
    <2>2. Launcher'
      BY <1>t, <1>i, <1>23 DEF CutPrune, TypeOK, Whole, Launcher, Complete, Marked, Fits,
         Stamped, Newer, Rev, Tree, Up, Launching, NoOp, Idle, Launch, Superseded
    <2>3. Stamped'
      BY <1>t, <1>i, <1>23 DEF CutPrune, TypeOK, Stamped, Launcher, Complete, Marked,
         Rev, Up, Launching, Launch
    <2>n. UNCHANGED <<host, current, pending, seen>> /\ phase = "settled"
      BY <1>23 DEF CutPrune
    <2>r. pending # None /\ pending # current => (Matches(pending)' <=> Matches(pending))
      <3>1. PICK r \in Superseded, left \in {"gutted", "stripped"} :
              tree' = [Linked EXCEPT ![r] = left]
        BY <1>23 DEF CutPrune
      <3>2. Linked \in [Rev -> Tree] /\ pending \in 0..MaxRev /\ r # pending
        BY <1>t, <3>1 DEF Linked, Tree, Superseded, TypeOK
      <3>3. pending \in Rev /\ pending # current => tree'[pending] = tree[pending]
        BY <1>t, <3>1, <3>2 DEF Linked, TypeOK
      <3> QED
        BY <2>n, <3>2, <3>3 DEF Matches, Rev
    <2>4. Newer'
      BY <1>t, <1>i, <2>n, <2>r DEF Newer, TypeOK
    <2>5. Verified'
      BY <1>t, <1>i, <1>23 DEF CutPrune, TypeOK, Launcher, Verified, Fits, Up, Launching,
         Launch
    <2>7. \A v \in Workers : op'[v].pc = "idle"
      BY <1>i, <1>23 DEF CutPrune, Launcher, Idle, Up
    <2>8. \A v \in Workers : Operation(op[v])'
      BY <2>7 DEF Operation
    <2> QED
      BY <1>t, <2>1, <2>2, <2>3, <2>4, <2>5, <2>8 DEF IInv
  <1>30. ASSUME FailStart PROVE IInv'
    <2>0. \A q \in {current, pending} : Complete(q) => Complete(q)'
      BY <1>t, <1>30, TidyKeeps DEF FailStart
    <2>1. Whole'
      BY <1>i, <1>30, <2>0 DEF FailStart, Whole, Launcher, Launch, Up
    <2>2. Launcher'
      BY <1>t, <1>i, <1>30 DEF FailStart, Launcher, Up, Idle, Launch
    <2>3. Stamped'
      BY <1>t, <1>i, <1>30 DEF FailStart, Stamped, Up, Launch
    <2>4. Newer'
      BY <1>t, <1>i, <1>30, TidyPending DEF FailStart, Newer, Launch, TypeOK
    <2>5. Verified'
      BY <1>30 DEF FailStart, Verified, Up, Launch
    <2>7. \A v \in Workers : op'[v].pc = "idle"
      BY <1>i, <1>30 DEF FailStart, Launcher, Idle, Up
    <2>8. \A v \in Workers : Operation(op[v])'
      BY <2>7 DEF Operation
    <2> QED
      BY <1>t, <2>1, <2>2, <2>3, <2>4, <2>5, <2>8 DEF IInv
  <1>24. ASSUME Exit PROVE IInv'
    <2>1. Whole'
      BY <1>t, <1>i, <1>24 DEF Exit, TypeOK, Whole, Launcher, Complete, Marked, Rev,
         Tree, Up, Halt
    <2>2. Launcher'
      BY <1>t, <1>i, <1>24 DEF Exit, TypeOK, Whole, Launcher, Complete, Marked, Fits,
         Stamped, Newer, Rev, Tree, Up, Launching, NoOp, Idle, Halt
    <2>3. Stamped'
      BY <1>t, <1>i, <1>24 DEF Exit, TypeOK, Stamped, Launcher, Complete, Marked, Rev,
         Up, Launching, Halt
    <2>4. Newer'
      BY <1>t, <1>i, <1>24 DEF Exit, TypeOK, Whole, Complete, Marked, Launcher, Stamped,
         Newer, Matches, Fits, Rev, Up, Launching, Halt
    <2>5. Verified'
      BY <1>t, <1>i, <1>24 DEF Exit, TypeOK, Launcher, Verified, Fits, Up, Launching, Halt
    <2>8. \A v \in Workers : Operation(op[v])'
      BY <1>24 DEF Exit, Halt, NoOp, Operation
    <2> QED
      BY <1>t, <2>1, <2>2, <2>3, <2>4, <2>5, <2>8 DEF IInv
  <1>25. ASSUME Kill PROVE IInv'
    <2>1. Whole'
      BY <1>t, <1>i, <1>25 DEF Kill, TypeOK, Whole, Launcher, Complete, Marked, Rev,
         Tree, Up, Halt
    <2>2. Launcher'
      BY <1>t, <1>i, <1>25 DEF Kill, TypeOK, Whole, Launcher, Complete, Marked, Fits,
         Stamped, Newer, Rev, Tree, Up, Launching, NoOp, Idle, Halt
    <2>3. Stamped'
      BY <1>t, <1>i, <1>25 DEF Kill, TypeOK, Stamped, Launcher, Complete, Marked, Rev,
         Up, Launching, Halt
    <2>4. Newer'
      BY <1>t, <1>i, <1>25 DEF Kill, TypeOK, Whole, Complete, Marked, Launcher, Stamped,
         Newer, Matches, Fits, Rev, Up, Launching, Halt
    <2>5. Verified'
      BY <1>t, <1>i, <1>25 DEF Kill, TypeOK, Launcher, Verified, Fits, Up, Launching, Halt
    <2>8. \A v \in Workers : Operation(op[v])'
      BY <1>25 DEF Kill, Halt, NoOp, Operation
    <2> QED
      BY <1>t, <2>1, <2>2, <2>3, <2>4, <2>5, <2>8 DEF IInv
  <1>26. ASSUME Publish PROVE IInv'
    <2>1. Whole'
      BY <1>t, <1>i, <1>26 DEF Publish, TypeOK, Whole, Launcher, Complete, Marked, Rev,
         Tree, Up
    <2>2. Launcher'
      BY <1>t, <1>i, <1>26 DEF Publish, TypeOK, Whole, Launcher, Complete, Marked, Fits,
         Stamped, Newer, Rev, Tree, Up, Launching, NoOp, Idle
    <2>3. Stamped'
      BY <1>t, <1>i, <1>26 DEF Publish, TypeOK, Stamped, Launcher, Complete, Marked, Rev,
         Up, Launching
    <2>4. Newer'
      BY <1>t, <1>i, <1>26 DEF Publish, TypeOK, Whole, Complete, Marked, Launcher,
         Stamped, Newer, Matches, Fits, Rev, Up, Launching
    <2>5. Verified'
      BY <1>t, <1>i, <1>26 DEF Publish, TypeOK, Launcher, Verified, Fits, Up, Launching
    <2>8. \A v \in Workers : Operation(op[v])'
      BY <1>o, <1>26 DEF Publish, Operation, Activated, Complete, Fits,
         Matches, PendingRelease
    <2> QED
      BY <1>t, <2>1, <2>2, <2>3, <2>4, <2>5, <2>8 DEF IInv
  <1>27. ASSUME Checkout PROVE IInv'
    <2>1. Whole'
      BY <1>t, <1>i, <1>27 DEF Checkout, TypeOK, Whole, Launcher, Complete, Marked, Rev,
         Tree, Up
    <2>2. Launcher'
      BY <1>t, <1>i, <1>27 DEF Checkout, TypeOK, Whole, Launcher, Complete, Marked, Fits,
         Stamped, Newer, Rev, Tree, Up, Launching, NoOp, Idle
    <2>3. Stamped'
      BY <1>t, <1>i, <1>27 DEF Checkout, TypeOK, Stamped, Launcher, Complete, Marked,
         Rev, Up, Launching
    <2>4. Newer'
      BY <1>t, <1>i, <1>27 DEF Checkout, TypeOK, Whole, Complete, Marked, Launcher,
         Stamped, Newer, Matches, Fits, Rev, Up, Launching
    <2>5. Verified'
      BY <1>t, <1>i, <1>27 DEF Checkout, TypeOK, Launcher, Verified, Fits, Up, Launching
    <2>8. \A v \in Workers : Operation(op[v])'
      BY <1>o, <1>27 DEF Checkout, Operation, Activated, Complete, Fits,
         Matches, PendingRelease
    <2> QED
      BY <1>t, <2>1, <2>2, <2>3, <2>4, <2>5, <2>8 DEF IInv
  <1>28. ASSUME Rebuild PROVE IInv'
    <2>1. Whole'
      BY <1>t, <1>i, <1>28 DEF Rebuild, TypeOK, Whole, Launcher, Complete, Marked, Rev,
         Tree, Up, Halt
    <2>2. Launcher'
      BY <1>t, <1>i, <1>28 DEF Rebuild, TypeOK, Whole, Launcher, Complete, Marked, Fits,
         Stamped, Newer, Rev, Tree, Up, Launching, NoOp, Idle, Halt
    <2>3. Stamped'
      BY <1>t, <1>i, <1>28 DEF Rebuild, TypeOK, Stamped, Launcher, Complete, Marked, Rev,
         Up, Launching, Halt
    <2>4. Newer'
      BY <1>t, <1>i, <1>28 DEF Rebuild, TypeOK, Whole, Complete, Marked, Launcher,
         Stamped, Newer, Matches, Fits, Rev, Up, Launching, Halt
    <2>5. Verified'
      BY <1>t, <1>i, <1>28 DEF Rebuild, TypeOK, Launcher, Verified, Fits, Up, Launching,
         Halt
    <2>8. \A v \in Workers : Operation(op[v])'
      BY <1>28 DEF Rebuild, Halt, NoOp, Operation
    <2> QED
      BY <1>t, <2>1, <2>2, <2>3, <2>4, <2>5, <2>8 DEF IInv
  <1>29. CASE UNCHANGED vars
    BY <1>29, <1>t, <1>i, <1>o DEF vars, IInv, TypeOK, Whole, Launcher, Stamped, Newer,
       Verified, Operation, Activated,
       Complete, Fits, Matches, Idle, PendingRelease
  <1> QED
    BY <1>1, <1>2, <1>3, <1>4, <1>5, <1>6, <1>7, <1>8, <1>9, <1>10, <1>11, <1>12, <1>13,
       <1>14, <1>15, <1>16, <1>17, <1>18, <1>19, <1>20, <1>21, <1>22, <1>23, <1>24,
       <1>25, <1>26, <1>27, <1>28, <1>29, <1>30 DEF Next, Pull, Restart, Boot

-----------------------------------------------------------------------------
(***************************************************************************)
(* What follows for a reader.                                              *)
(***************************************************************************)

(***************************************************************************)
(* Whatever dies whenever, every variable has its type and the operations  *)
(* lock is held by exactly the worker in an operation.                     *)
(***************************************************************************)
THEOREM TypeCorrect == Spec => []TypeOK
  <1>1. Init => TypeOK
    BY InitIInv DEF IInv
  <1>2. TypeOK /\ [Next]_vars => TypeOK'
    BY StepTypeOK
  <1> QED
    BY <1>1, <1>2, PTL DEF Spec

THEOREM Invariance == Spec => []IInv
  <1>1. Init => IInv
    BY InitIInv
  <1>2. IInv /\ [Next]_vars => IInv'
    BY StepIInv
  <1> QED
    BY <1>1, <1>2, PTL DEF Spec

(***************************************************************************)
(* No link, marker or process ever names a checkout that was never         *)
(* finished: it has its marker, or a failing git call had it thrown away.  *)
(***************************************************************************)
THEOREM NamedAreComplete == Spec => []NamedIsComplete
  <1>1. IInv => NamedIsComplete
    BY DEF IInv, Whole, Complete, NamedIsComplete
  <1> QED
    BY <1>1, Invariance, PTL

(***************************************************************************)
(* A service that is up has no older update pending that a restart takes.  *)
(***************************************************************************)
THEOREM PendingAreNewer == Spec => []PendingIsNewer
  <1>1. IInv => PendingIsNewer
    BY DEF IInv, Newer, Fits, Up, PendingIsNewer
  <1> QED
    BY <1>1, Invariance, PTL

-----------------------------------------------------------------------------
(***************************************************************************)
(* What the first start of an image has settled.                           *)
(***************************************************************************)
FitsImage ==
    image.id = seen =>
        /\ Fits(current)
        /\ serving # None => Fits(serving)
        /\ phase = "activating" => Fits(target)

HostSettled ==
    /\ phase = "activating" => image.id = seen
    /\ phase = "settled" => image.id = seen \/ (pending # None /\ ~Matches(pending))

(* No revision is named that upstream does not have.                       *)
Known ==
    /\ pending <= remote /\ current <= remote /\ target <= remote
    /\ \A w \in Workers : op[w].rev <= remote /\ op[w].prev <= remote

(* What is pending is not newer than what an update will record over it.   *)
Ahead ==
    \A w \in Workers :
        /\ op[w].pc \in {"staging", "marking", "recording"} => pending <= op[w].rev
        /\ op[w].pc \in {"signalling", "undoing", "restoring"} => pending = None

(* Where an operation that switched the link may go back to.               *)
LEMMA BackFits ==
  ASSUME IInv, FitsImage, image.id = seen, NEW w \in Workers,
         op[w].pc \in {"switched", "signalling", "undoing", "restoring"}
  PROVE  Fits(op[w].prev)
  <1>1. Activated(op[w])
    BY DEF IInv, Operation
  <1>2. op[w].prev # None
    BY <1>1, RevAssumption DEF Activated, Complete, Rev, None
  <1> QED
    BY <1>1, <1>2 DEF Activated, FitsImage

LEMMA FitsImageStep ==
  ASSUME IInv, FitsImage, HostSettled, [Next]_vars
  PROVE  FitsImage'
  <1>t. TypeOK /\ Whole /\ Launcher /\ Stamped
    BY DEF IInv
  <1>p. PendingRelease \in {None, pending}
    BY PendingReleaseIsPending
  <1> USE DEF host, disk, box, ops, FitsImage, Fits
  <1>1. ASSUME NEW w \in Workers,
               \/ PullBegin(w) \/ PullReuse(w) \/ PullDiscard(w) \/ PullAdd(w) \/ PullMark(w)
               \/ PullRecord(w) \/ PrepareRestart(w) \/ Restore(w) \/ Die(w)
        PROVE  FitsImage'
    BY <1>1 DEF PullBegin, PullReuse, PullDiscard, PullAdd, PullMark, PullRecord, PrepareRestart,
       Restore, Die
  <1>2. ASSUME NEW w \in Workers, Switch(w) PROVE FitsImage'
    <2>1. op[w].pc = "prepared" /\ op[w].rev # None /\ current' = PendingRelease
      BY <1>2 DEF Switch, At
    <2>2. Deps[PendingRelease] = image.deps
      BY <2>1 DEF IInv, Operation, Matches
    <2> QED
      BY <1>2, <2>1, <2>2 DEF Switch
  <1>3. ASSUME NEW w \in Workers, Unmark(w) \/ Undo(w) PROVE FitsImage'
    <2>1. op[w].pc \in {"switched", "undoing"} /\ current' \in {current, op[w].prev}
      BY <1>3 DEF Unmark, Undo, At
    <2>2. image.id = seen => Fits(op[w].prev)
      BY <2>1, BackFits
    <2> QED
      BY <1>3, <2>1, <2>2 DEF Unmark, Undo
  <1>4. ASSUME NEW w \in Workers, Signal(w) PROVE FitsImage'
    BY <1>4 DEF Signal
  <1>5. CASE Decide
    <2>1. CASE Rebuilt \/ current = None
      BY <1>5, <2>1 DEF Decide
    <2>2. CASE ~(Rebuilt \/ current = None) /\ PendingRelease # None /\ ~RebuildRequired
      BY <1>5, <2>2, Allowed DEF Decide
    <2>3. CASE ~(Rebuilt \/ current = None) /\ (PendingRelease = None \/ RebuildRequired)
      BY <1>5, <2>3 DEF Decide
    <2> QED
      BY <2>1, <2>2, <2>3
  <1>6. CASE BootReuse \/ BootDiscard \/ BootAdd \/ BootMark
    BY <1>6 DEF BootReuse, BootDiscard, BootAdd, BootMark, Launch
  <1>7. CASE Compare
    <2>1. serving = None
      BY <1>t, <1>7 DEF Launcher, Compare, Up
    <2> QED
      BY <1>7, <2>1 DEF Compare, Launch, Matches
  <1>8. CASE BootUnmark
    BY <1>8 DEF BootUnmark, Launch
  <1>9. CASE Stamp
    <2>1. serving = None /\ Fits(current)
      BY <1>t, <1>9 DEF Launcher, Stamp, Up
    <2> QED
      BY <1>9, <2>1 DEF Stamp, Launch
  <1>10. CASE Serve \/ FailStart \/ CutPrune
    BY <1>10 DEF Serve, FailStart, CutPrune, Launch
  <1>11. CASE Exit \/ Kill
    BY <1>11 DEF Exit, Kill, Halt
  <1>12. CASE Rebuild
    <2>1. image' = [id |-> image.id + 1, deps |-> Deps[source]] /\ seen' = seen
      BY <1>12 DEF Rebuild
    <2>2. image'.id = image.id + 1
      BY <2>1
    <2>3. seen <= image.id /\ seen \in Nat /\ image.id \in Nat
      BY <1>t, RevAssumption DEF Stamped, TypeOK
    <2>4. image'.id # seen'
      BY <2>1, <2>2, <2>3
    <2> QED
      BY <2>4
  <1>13. CASE Publish \/ Checkout \/ UNCHANGED vars
    BY <1>13 DEF Publish, Checkout, vars
  <1> QED
    BY <1>1, <1>2, <1>3, <1>4, <1>5, <1>6, <1>7, <1>8, <1>9, <1>10, <1>11, <1>12, <1>13
    DEF Next, Pull, Restart, Boot

LEMMA HostSettledStep ==
  ASSUME IInv, HostSettled, [Next]_vars
  PROVE  HostSettled'
  <1>t. TypeOK /\ Launcher /\ Stamped
    BY DEF IInv
  <1> USE DEF host, disk, box, ops, HostSettled, Matches
  <1>1. ASSUME NEW w \in Workers, Pull(w) \/ PrepareRestart(w) \/ Switch(w) \/ Unmark(w)
                                  \/ Undo(w) \/ Restore(w)
        PROVE  phase \in Up /\ phase' = phase
    BY <1>1 DEF Pull, PullBegin, PullReuse, PullDiscard, PullAdd, PullMark, PullRecord,
       PrepareRestart, BeginOp, At, Switch, Unmark, Undo, Restore
  <1>2. ASSUME NEW w \in Workers, Signal(w)
        PROVE  phase' \in Up
    BY <1>2 DEF Signal, At, Up
  <1>3. ASSUME NEW w \in Workers, Die(w)
        PROVE  HostSettled'
    BY <1>3 DEF Die
  <1>4. phase' \in Up \cup {"down"} => HostSettled'
    BY DEF Up
  <1>5. CASE Decide
    BY <1>5 DEF Decide, Rebuilt
  <1>6. CASE BootReuse \/ BootDiscard \/ BootAdd \/ BootMark
    BY <1>6 DEF BootReuse, BootDiscard, BootAdd, BootMark, Launch
  <1>7. CASE Compare
    <2>1. target # None
      BY <1>t, <1>7 DEF Launcher, Compare
    <2>2. CASE Matches(target)
      BY <1>7, <2>2 DEF Compare, Launch
    <2>3. CASE ~Matches(target) /\ current # None
      BY <1>7, <2>1, <2>3 DEF Compare, Launch
    <2>4. CASE ~Matches(target) /\ current = None
      BY <1>7, <2>4 DEF Compare, Launch
    <2> QED
      BY <2>2, <2>3, <2>4
  <1>8. CASE BootUnmark
    BY <1>8 DEF BootUnmark, Launch
  <1>9. CASE Stamp
    BY <1>9 DEF Stamp, Launch
  <1>10. CASE Serve \/ FailStart \/ CutPrune \/ Exit \/ Kill \/ Rebuild
    BY <1>4, <1>10 DEF Serve, FailStart, CutPrune, Launch, Exit, Kill, Rebuild, Halt, Up
  <1>11. CASE Publish \/ Checkout \/ UNCHANGED vars
    BY <1>11 DEF Publish, Checkout, vars
  <1> QED
    BY <1>1, <1>2, <1>3, <1>4, <1>5, <1>6, <1>7, <1>8, <1>9, <1>10, <1>11
    DEF Next, Restart, Boot

LEMMA KnownStep ==
  ASSUME IInv, Known, [Next]_vars
  PROVE  Known'
  <1>t. TypeOK /\ TypeOK'
    BY StepTypeOK DEF IInv
  <1>n. /\ remote \in Nat /\ remote' \in Nat /\ source \in Nat /\ source <= remote
        /\ pending \in Nat /\ current \in Nat /\ target \in Nat
        /\ \A w \in Workers : op[w].rev \in Nat /\ op[w].prev \in Nat
    <2>1. /\ remote \in Nat /\ source \in Nat /\ source <= remote
          /\ pending \in Nat /\ current \in Nat /\ target \in Nat
      BY <1>t, RevAssumption DEF TypeOK, Rev
    <2>2. remote' \in Nat
      BY <1>t, RevAssumption DEF TypeOK, Rev
    <2>3. ASSUME NEW w \in Workers PROVE op[w].rev \in Nat /\ op[w].prev \in Nat
      BY <1>t, RevAssumption DEF TypeOK, Op
    <2> QED
      BY <2>1, <2>2, <2>3
  <1>p. PendingRelease \in {None, pending}
    BY PendingReleaseIsPending
  <1> USE DEF host, disk, box, ops, None
  (* A step of one worker's operation.                                     *)
  <1>s. ASSUME NEW w \in Workers, UNCHANGED <<remote, target>>,
               \A v \in Workers \ {w} : op'[v] = op[v],
               op'[w].rev \in {None, op[w].rev, pending, remote},
               op'[w].prev \in {None, op[w].prev, current},
               pending' \in {None, pending, op[w].rev},
               current' \in {current, pending, op[w].prev}
        PROVE  Known'
    BY <1>s, <1>n DEF Known
  <1>e. ASSUME NEW w \in Workers, EndOp(w)
        PROVE  /\ \A v \in Workers \ {w} : op'[v] = op[v]
               /\ op'[w].rev = None /\ op'[w].prev = None
    BY <1>t, <1>e DEF TypeOK, EndOp, NoOp
  <1>c. ASSUME NEW w \in Workers, NEW pc, Continue(w, pc)
        PROVE  /\ \A v \in Workers \ {w} : op'[v] = op[v]
               /\ op'[w].rev = op[w].rev /\ op'[w].prev = op[w].prev
    BY <1>t, <1>c, ContinueFields DEF TypeOK, Continue
  <1>1. ASSUME NEW w \in Workers, PullBegin(w) \/ PrepareRestart(w) PROVE Known'
    <2>1. PICK o \in {[pc |-> "staging", rev |-> remote, prev |-> None],
                      [pc |-> "prepared", rev |-> PendingRelease, prev |-> None]} :
            op' = [op EXCEPT ![w] = o]
      BY <1>1 DEF PullBegin, PrepareRestart, BeginOp
    <2>2. o.rev \in {remote, pending, None} /\ o.prev = None
      BY <2>1, <1>p
    <2>3. op'[w] = o /\ \A v \in Workers \ {w} : op'[v] = op[v]
      BY <1>t, <2>1 DEF TypeOK
    <2>4. UNCHANGED <<remote, target, pending, current>>
      BY <1>1 DEF PullBegin, PrepareRestart
    <2> QED
      BY <1>s, <2>2, <2>3, <2>4
  <1>2. ASSUME NEW w \in Workers,
               \/ PullReuse(w) \/ PullDiscard(w) \/ PullAdd(w) \/ PullMark(w) \/ PullRecord(w)
               \/ Unmark(w) \/ Signal(w) \/ Undo(w) \/ Restore(w) \/ Die(w)
        PROVE  Known'
    <2>1. /\ UNCHANGED <<remote, target>>
          /\ pending' \in {None, pending, op[w].rev} /\ current' \in {current, op[w].prev}
      BY <1>2 DEF PullReuse, PullDiscard, PullAdd, PullMark, PullRecord, Unmark, Signal, Undo,
         Restore, Die
    <2>2. UNCHANGED op \/ EndOp(w) \/ \E pc : Continue(w, pc)
      BY <1>2 DEF PullReuse, PullDiscard, PullAdd, PullMark, PullRecord, Unmark, Signal, Undo,
         Restore, Die
    <2> QED
      BY <1>s, <1>e, <1>c, <2>1, <2>2
  <1>3. ASSUME NEW w \in Workers, Switch(w) PROVE Known'
    <2>1. /\ \A v \in Workers \ {w} : op'[v] = op[v]
          /\ op'[w] = [pc |-> "switched", rev |-> PendingRelease, prev |-> current]
      BY <1>t, <1>3 DEF Switch, TypeOK
    <2>2. op'[w].rev = PendingRelease /\ op'[w].prev = current
      BY <2>1
    <2>3. PendingRelease = pending
      BY <1>3, <1>p DEF IInv, Operation, Switch, At
    <2>4. UNCHANGED <<remote, target, pending>> /\ current' = PendingRelease
      BY <1>3 DEF Switch
    <2> QED
      BY <1>s, <2>1, <2>2, <2>3, <2>4
  <1>4. CASE \/ Decide \/ BootReuse \/ BootDiscard \/ BootAdd \/ BootMark
             \/ Compare \/ BootUnmark \/ Stamp \/ Serve \/ FailStart \/ CutPrune
    <2>1. /\ UNCHANGED <<remote, ops>>
          /\ pending' \in {pending, None, target} /\ current' \in {current, pending, target}
          /\ target' \in {target, current, source}
      BY <1>4, <1>p DEF Decide, BootReuse, BootDiscard, BootAdd, BootMark, Compare, BootUnmark,
         Stamp, Serve, FailStart, CutPrune, Launch
    <2> QED
      BY <1>n, <2>1 DEF Known
  <1>5. CASE Exit \/ Kill \/ Rebuild
    <2>1. UNCHANGED <<remote, pending, current, target>> /\ op' = [w \in Workers |-> NoOp]
      BY <1>5 DEF Exit, Kill, Rebuild, Halt
    <2>2. \A w \in Workers : op'[w].rev = None /\ op'[w].prev = None
      BY <2>1 DEF NoOp
    <2> QED
      BY <1>n, <2>1, <2>2 DEF Known
  <1>6. CASE Publish
    BY <1>6, <1>n DEF Publish, Known
  <1>7. CASE Checkout \/ UNCHANGED vars
    BY <1>7 DEF Checkout, vars, Known
  <1> QED
    BY <1>1, <1>2, <1>3, <1>4, <1>5, <1>6, <1>7 DEF Next, Pull, Restart, Boot

LEMMA AheadStep ==
  ASSUME IInv, Known, Ahead, [Next]_vars
  PROVE  Ahead'
  <1>t. TypeOK /\ TypeOK' /\ Launcher
    BY StepTypeOK DEF IInv
  <1> USE DEF host, disk, box, ops, None
  (* A step of one worker's operation that leaves what is pending alone.   *)
  <1>s. ASSUME NEW w \in Workers, UNCHANGED pending,
               \A v \in Workers \ {w} : op'[v] = op[v],
               op'[w].pc \in {"staging", "marking", "recording"} => pending <= op'[w].rev,
               op'[w].pc \in {"signalling", "undoing", "restoring"} => pending = None
        PROVE  Ahead'
    BY <1>s DEF Ahead
  (* Nobody is in an operation while the launcher is at work.              *)
  <1>l. ASSUME UNCHANGED ops, phase \notin Up
        PROVE  Ahead'
    BY <1>l, <1>t DEF Launcher, Idle, Ahead
  <1>1. ASSUME NEW w \in Workers, PullBegin(w) PROVE Ahead'
    <2>1. /\ op' = [op EXCEPT ![w] = [pc |-> "staging", rev |-> remote, prev |-> None]]
          /\ UNCHANGED <<pending, remote>>
      BY <1>1 DEF PullBegin, BeginOp
    <2>2. op'[w] = [pc |-> "staging", rev |-> remote, prev |-> None]
      BY <1>t, <2>1 DEF TypeOK
    <2>3. \A v \in Workers \ {w} : op'[v] = op[v]
      BY <1>t, <2>1 DEF TypeOK
    <2>4. pending <= op'[w].rev /\ op'[w].pc = "staging"
      BY <2>2 DEF Known
    <2> QED
      BY <1>s, <2>1, <2>3, <2>4
  <1>2. ASSUME NEW w \in Workers, PullReuse(w) \/ PullDiscard(w) \/ PullAdd(w) \/ PullMark(w)
        PROVE  Ahead'
    <2>1. op[w].pc \in {"staging", "marking"} /\ UNCHANGED <<pending, remote>>
      BY <1>2 DEF PullReuse, PullDiscard, PullAdd, PullMark, At
    <2>2. \/ UNCHANGED op
          \/ EndOp(w)
          \/ \E pc \in {"marking", "recording"} : Continue(w, pc)
      BY <1>2 DEF PullReuse, PullDiscard, PullAdd, PullMark
    <2>3. CASE UNCHANGED op
      BY <2>1, <2>3 DEF Ahead
    <2>4. CASE EndOp(w)
      <3>1. op'[w].pc = "idle" /\ \A v \in Workers \ {w} : op'[v] = op[v]
        BY <1>t, <2>4, EndOpField DEF EndOp, TypeOK
      <3> QED
        BY <1>s, <2>1, <3>1
    <2>5. ASSUME NEW pc \in {"marking", "recording"}, Continue(w, pc) PROVE Ahead'
      <3>1. /\ op'[w].pc = pc /\ op'[w].rev = op[w].rev
            /\ \A v \in Workers \ {w} : op'[v] = op[v]
        BY <1>t, <2>5, ContinueFields DEF Continue, TypeOK
      <3> QED
        BY <1>s, <2>1, <3>1 DEF Ahead
    <2> QED
      BY <2>2, <2>3, <2>4, <2>5
  <1>3. ASSUME NEW w \in Workers, PullRecord(w) \/ Restore(w) PROVE Ahead'
    <2>1. /\ op[w].pc \in {"recording", "restoring"} /\ EndOp(w)
      BY <1>3 DEF PullRecord, Restore, At
    <2>2. \A v \in Workers : op'[v].pc = "idle"
      <3>1. \A v \in Workers \ {w} : op[v].pc = "idle"
        BY <1>t, <2>1, OneOperation
      <3> QED
        BY <1>t, <2>1, <3>1, EndOpField DEF EndOp, TypeOK
    <2> QED
      BY <2>2 DEF Ahead
  <1>4. ASSUME NEW w \in Workers, PrepareRestart(w) PROVE Ahead'
    <2>1. /\ op' = [op EXCEPT ![w] = [pc |-> "prepared", rev |-> PendingRelease, prev |-> None]]
          /\ UNCHANGED <<pending, remote>>
      BY <1>4 DEF PrepareRestart, BeginOp
    <2>2. op'[w].pc = "prepared" /\ \A v \in Workers \ {w} : op'[v] = op[v]
      BY <1>t, <2>1 DEF TypeOK
    <2> QED
      BY <1>s, <2>1, <2>2
  <1>5. ASSUME NEW w \in Workers, Switch(w) PROVE Ahead'
    <2>1. op'[w].pc = "switched" /\ \A v \in Workers \ {w} : op'[v] = op[v]
      BY <1>t, <1>5 DEF Switch, TypeOK
    <2> QED
      BY <1>5, <1>s, <2>1 DEF Switch
  <1>6. ASSUME NEW w \in Workers, Unmark(w) PROVE Ahead'
    <2>1. op[w].pc = "switched" /\ \A v \in Workers \ {w} : op[v].pc = "idle"
      BY <1>t, <1>6, OneOperation DEF Unmark, At
    <2>2. \A v \in Workers \ {w} : op'[v] = op[v]
      BY <1>t, <1>6 DEF Unmark, Continue, EndOp, TypeOK
    <2>3. CASE pending' = None /\ Continue(w, "signalling")
      <3>1. op'[w].pc = "signalling"
        BY <1>t, <2>3, ContinueFields
      <3> QED
        BY <2>1, <2>2, <2>3, <3>1 DEF Ahead
    <2>4. CASE UNCHANGED pending /\ EndOp(w)
      <3>1. op'[w].pc = "idle"
        BY <1>t, <2>4, EndOpField
      <3> QED
        BY <1>6, <1>s, <2>2, <2>4, <3>1 DEF Unmark
    <2> QED
      BY <1>6, <2>3, <2>4 DEF Unmark
  <1>7. ASSUME NEW w \in Workers, Signal(w) \/ Undo(w) PROVE Ahead'
    <2>1. UNCHANGED <<pending, remote>>
      BY <1>7 DEF Signal, Undo
    <2>2. CASE EndOp(w)
      <3>1. op'[w].pc = "idle" /\ \A v \in Workers \ {w} : op'[v] = op[v]
        BY <1>t, <2>2, EndOpField DEF EndOp, TypeOK
      <3> QED
        BY <1>s, <2>1, <3>1
    <2>3. ASSUME NEW pc \in {"undoing", "restoring"}, Continue(w, pc),
                 op[w].pc \in {"signalling", "undoing"}
          PROVE  Ahead'
      <3>1. op'[w].pc = pc /\ \A v \in Workers \ {w} : op'[v] = op[v]
        BY <1>t, <2>3, ContinueFields DEF Continue, TypeOK
      <3> QED
        BY <1>s, <2>1, <2>3, <3>1 DEF Ahead
    <2> QED
      BY <1>7, <2>2, <2>3 DEF Signal, Undo, At
  <1>8. CASE \/ Decide \/ BootReuse \/ BootDiscard \/ BootAdd \/ BootMark
             \/ Compare \/ BootUnmark \/ Stamp \/ Serve \/ FailStart \/ CutPrune
    <2>1. UNCHANGED ops /\ phase \notin Up
      BY <1>8 DEF Decide, BootReuse, BootDiscard, BootAdd, BootMark, Compare, BootUnmark, Stamp,
         Serve, FailStart, CutPrune, Up
    <2> QED
      BY <1>l, <2>1
  <1>10. CASE Exit \/ Kill \/ Rebuild
    <2>1. op' = [w \in Workers |-> NoOp]
      BY <1>10 DEF Exit, Kill, Rebuild, Halt
    <2>2. \A w \in Workers : op'[w].pc = "idle"
      BY <2>1 DEF NoOp
    <2> QED
      BY <2>1, <2>2 DEF Ahead
  <1>11. ASSUME NEW w \in Workers, Die(w) PROVE Ahead'
    <2>1. op'[w].pc = "idle" /\ \A v \in Workers \ {w} : op'[v] = op[v]
      BY <1>t, <1>11, EndOpField DEF Die, EndOp, TypeOK
    <2> QED
      BY <1>11, <1>s, <2>1 DEF Die
  <1>12. CASE Publish
    BY <1>12 DEF Publish, Ahead
  <1>13. CASE Checkout \/ UNCHANGED vars
    BY <1>13 DEF Checkout, vars, Ahead
  <1> QED
    BY <1>1, <1>2, <1>3, <1>4, <1>5, <1>6, <1>7, <1>8, <1>10, <1>11, <1>12, <1>13
    DEF Next, Pull, Restart, Boot

(***************************************************************************)
(* Once an image has had its first start, every release that is active,    *)
(* that serves or that a failed restart goes back to fits the dependencies *)
(* baked into it, whoever dies or fails in between.  (ops.py, the rebuild  *)
(* check of a restart and of the launcher.)                                *)
(***************************************************************************)
ActiveFitsImage ==
    image.id = seen =>
        /\ Fits(current)
        /\ serving # None => Fits(serving)
        /\ \A w \in Workers : op[w].pc \in {"signalling", "undoing"} => Fits(op[w].prev)

LEMMA Settlement == Spec => [](IInv /\ FitsImage /\ HostSettled /\ Known /\ Ahead)
  <1> DEFINE S == IInv /\ FitsImage /\ HostSettled /\ Known /\ Ahead
  <1>1. Init => S
    <2> SUFFICES ASSUME Init PROVE S
      OBVIOUS
    <2>1. IInv
      BY InitIInv
    <2>2. FitsImage /\ HostSettled /\ Known /\ Ahead
      BY DEF Init, FitsImage, HostSettled, Known, Ahead, NoOp, None
    <2> QED
      BY <2>1, <2>2
  <1>2. S /\ [Next]_vars => S'
    BY StepIInv, FitsImageStep, HostSettledStep, KnownStep, AheadStep
  <1> QED
    BY <1>1, <1>2, PTL DEF Spec

THEOREM ActiveFits == Spec => []ActiveFitsImage
  <1>1. IInv /\ FitsImage => ActiveFitsImage
    BY BackFits DEF FitsImage, ActiveFitsImage
  <1> QED
    BY Settlement, <1>1, PTL

(***************************************************************************)
(* The service is never started, whether it comes up or not, on an image   *)
(* whose first start has not been settled: its stamp is consumed, or the   *)
(* host's checkout, which it does not fit, is pending for a rebuild.       *)
(* RebuildTakesEffect is left with the progress of the launcher.  (deploy  *)
(* README:146, the host always wins.)                                      *)
(***************************************************************************)
StartIsSettled ==
    Serve \/ FailStart => image.id = seen \/ (pending # None /\ ~Matches(pending))

THEOREM StartsAreSettled == Spec => [][StartIsSettled]_vars
  <1>1. HostSettled => StartIsSettled
    BY DEF HostSettled, StartIsSettled, Serve, FailStart
  <1>2. HostSettled /\ [Next]_vars => [StartIsSettled]_vars
    BY <1>1
  <1> QED
    BY Settlement, <1>2, PTL DEF Spec

(***************************************************************************)
(* An update that was accepted is not dropped: its marker goes only when it*)
(* is the active release, when a newer one takes its place, or when the    *)
(* first start of a rebuilt image installs the host's checkout instead.    *)
(* (ops.py, _activate_pending_release and reconcile_boot_release.)         *)
(***************************************************************************)
UpdateStays ==
    pending # None /\ pending' # pending =>
        \/ pending' = None /\ current = pending
        \/ pending' > pending
        \/ phase \in {"comparing", "installing"} /\ image.id # seen

THEOREM UpdatesStay == Spec => [][UpdateStays]_vars
  <1>1. ASSUME IInv, Ahead, [Next]_vars, pending # None, pending' # pending
        PROVE  UpdateStays
    <2>t. TypeOK /\ Launcher /\ Stamped
      BY <1>1 DEF IInv
    <2> USE DEF host, disk, box, ops, UpdateStays
    <2>1. ASSUME NEW w \in Workers, PullRecord(w) PROVE UpdateStays
      <3>1. pending' = op[w].rev /\ pending <= op[w].rev
        BY <1>1, <2>1 DEF PullRecord, At, Ahead
      <3>2. pending \in Nat /\ op[w].rev \in Nat
        BY <2>t, RevAssumption DEF TypeOK, Op
      <3> QED
        BY <1>1, <3>1, <3>2
    <2>2. ASSUME NEW w \in Workers, Unmark(w) PROVE UpdateStays
      <3>1. op[w].pc = "switched" /\ pending' = None
        BY <1>1, <2>2 DEF Unmark, At
      <3>2. pending = op[w].rev /\ current = op[w].rev
        BY <1>1, <3>1 DEF IInv, Operation
      <3> QED
        BY <3>1, <3>2
    <2>3. ASSUME NEW w \in Workers, Restore(w) PROVE FALSE
      BY <1>1, <2>3 DEF Restore, At, Ahead
    <2>4. CASE Compare
      <3>1. current # None
        BY <1>1, <2>4 DEF Compare
      <3> QED
        BY <2>4, <2>t, <3>1 DEF Compare, Stamped
    <2>5. CASE BootUnmark
      <3>1. pending' = None /\ phase \in {"installing", "activating"}
        BY <1>1, <2>5 DEF BootUnmark
      <3>2. CASE phase = "installing"
        BY <2>t, <3>2 DEF Stamped
      <3>3. CASE phase = "activating"
        BY <2>t, <3>1, <3>3 DEF Launcher
      <3> QED
        BY <3>1, <3>2, <3>3
    <2>6. ASSUME NEW w \in Workers,
                 \/ PullBegin(w) \/ PullReuse(w) \/ PullDiscard(w) \/ PullAdd(w) \/ PullMark(w)
                 \/ PrepareRestart(w) \/ Switch(w) \/ Signal(w) \/ Undo(w) \/ Die(w)
          PROVE  UNCHANGED pending
      BY <2>6 DEF PullBegin, PullReuse, PullDiscard, PullAdd, PullMark, PrepareRestart, Switch,
         Signal, Undo, Die
    <2>7. CASE \/ Decide \/ BootReuse \/ BootDiscard \/ BootAdd \/ BootMark \/ Stamp \/ Serve
               \/ FailStart \/ CutPrune \/ Exit \/ Kill \/ Publish \/ Checkout \/ Rebuild \/ UNCHANGED vars
      <3>1. UNCHANGED pending
        BY <2>7 DEF Decide, BootReuse, BootDiscard, BootAdd, BootMark, Stamp, Serve, FailStart,
           CutPrune, Exit, Kill, Publish, Checkout, Rebuild, vars
      <3> QED
        BY <1>1, <3>1
    <2> QED
      BY <1>1, <2>1, <2>2, <2>3, <2>4, <2>5, <2>6, <2>7 DEF Next, Pull, Restart, Boot
  <1>2. IInv /\ Ahead /\ [Next]_vars => [UpdateStays]_vars
    BY <1>1 DEF UpdateStays
  <1> QED
    BY Settlement, <1>2, PTL DEF Spec

(***************************************************************************)
(* Every step moves the active release as promised, or not at all.         *)
(***************************************************************************)
ready == {r \in Rev : tree[r] \in Marked}

LEMMA AbstractInit == Init => Abstract!Init
  <1> SUFFICES ASSUME Init PROVE Abstract!Init
    OBVIOUS
  <1>1. image \in [id: {1}, deps: {Deps[r] : r \in Rev}]
    BY RevAssumption DEF Init, Rev
  <1>2. {r \in Rev : tree[r] \in Marked} = {}
    BY DEF Init, Marked
  <1> QED
    BY <1>1, <1>2 DEF Init, Abstract!Init

LEMMA AbstractStep ==
  ASSUME IInv, IInv', [Next]_vars
  PROVE  [Abstract!Next]_(Abstract!vars)
  <1>t. TypeOK /\ TypeOK'
    BY DEF IInv
  <1>i. Whole /\ Launcher /\ Stamped /\ Newer /\ Verified
    BY DEF IInv
  <1>w. Whole' /\ Launcher' /\ Stamped'
    BY DEF IInv
  <1>o. \A w \in Workers : Operation(op[w])
    BY DEF IInv
  <1>p. PendingRelease \in {None, pending}
    BY PendingReleaseIsPending
  <1>s. ASSUME \A r \in Rev : tree'[r] \in Marked <=> tree[r] \in Marked,
               UNCHANGED <<lost, current, serving, image, seen>>
        PROVE  UNCHANGED Abstract!vars
    BY <1>s DEF Abstract!vars
  <1>m. ASSUME NEW r \in Rev, MarkComplete(r), UNCHANGED <<current, serving, image, seen>>
        PROVE  [Abstract!Next]_(Abstract!vars)
    <2>1. ready' = ready \cup {r} /\ lost' = lost \ {r}
      BY <1>t, <1>m DEF ready, MarkComplete, TypeOK, Marked
    <2>2. Abstract!Prepare
      BY <1>m, <2>1 DEF Abstract!Prepare, ready
    <2> QED
      BY <2>2 DEF Abstract!Next
  <1>d. ASSUME NEW r \in Rev, DiscardFound(r), UNCHANGED <<current, serving, image, seen>>
        PROVE  [Abstract!Next]_(Abstract!vars)
    <2>1. CASE ~Reusable(r) /\ Discard(r) /\ UNCHANGED lost
      BY <1>t, <1>d, <1>s, <2>1 DEF Discard, Reusable, Marked, TypeOK
    <2>2. CASE Reusable(r) /\ lost' = lost \cup {r} /\ \E left \in Gone : tree' = [tree EXCEPT ![r] = left]
      <3>1. r \in ready /\ ready' = ready \ {r}
        BY <1>t, <2>2 DEF ready, Reusable, Gone, Marked, TypeOK
      <3>2. Abstract!Lose
        BY <1>d, <2>2, <3>1 DEF Abstract!Lose, ready
      <3> QED
        BY <3>2 DEF Abstract!Next
    <2> QED
      BY <1>d, <2>1, <2>2 DEF DiscardFound
  <1>n. ASSUME NEW r, Complete(r) PROVE r \in ready \cup lost
    BY <1>n DEF Complete, ready
  <1>k. ASSUME UNCHANGED tree PROVE ready' = ready
    BY <1>k DEF ready
  <1> USE DEF host, disk, box, ops, None
  <1>1. ASSUME NEW w \in Workers, PullBegin(w) PROVE [Abstract!Next]_(Abstract!vars)
    BY <1>t, <1>s, <1>1 DEF PullBegin, TypeOK
  <1>2. ASSUME NEW w \in Workers, PullReuse(w) PROVE [Abstract!Next]_(Abstract!vars)
    BY <1>t, <1>s, <1>2 DEF PullReuse, TypeOK
  <1>3. ASSUME NEW w \in Workers, PullDiscard(w) PROVE [Abstract!Next]_(Abstract!vars)
    <2>1. op[w].rev \in Rev
      BY <1>t, <1>o, <1>3, RevAssumption DEF PullDiscard, TypeOK, Op, Operation, Rev, At
    <2> QED
      BY <1>d, <2>1, <1>3 DEF PullDiscard
  <1>4. ASSUME NEW w \in Workers, PullAdd(w) PROVE [Abstract!Next]_(Abstract!vars)
    BY <1>t, <1>s, <1>4 DEF PullAdd, TypeOK, AddSucceeds, AddFails, Discard, At, Marked
  <1>5. ASSUME NEW w \in Workers, PullMark(w) PROVE [Abstract!Next]_(Abstract!vars)
    <2>1. CASE MarkComplete(op[w].rev)
      <3>1. op[w].rev \in Rev
        BY <1>t, <1>i, <1>o, <1>5 DEF PullMark, TypeOK, Op, Operation, Launcher, Rev, At
      <3> QED
        BY <1>m, <2>1, <3>1, <1>5 DEF PullMark
    <2>2. CASE UNCHANGED <<tree, lost>>
      BY <1>s, <2>2, <1>5 DEF PullMark
    <2> QED
      BY <2>1, <2>2, <1>5 DEF PullMark
  <1>6. ASSUME NEW w \in Workers, PullRecord(w) PROVE [Abstract!Next]_(Abstract!vars)
    BY <1>t, <1>s, <1>6 DEF PullRecord, TypeOK
  <1>7. ASSUME NEW w \in Workers, PrepareRestart(w) PROVE [Abstract!Next]_(Abstract!vars)
    BY <1>t, <1>s, <1>7 DEF PrepareRestart, TypeOK
  <1>8. ASSUME NEW w \in Workers, Switch(w) PROVE [Abstract!Next]_(Abstract!vars)
    <2>1. CASE UNCHANGED current
      BY <1>s, <2>1, <1>8 DEF Switch
    <2>2. CASE current' # current
      <3>0. /\ current' = pending /\ PendingRelease = pending /\ Matches(pending)
            /\ phase \in Up /\ pending # None
        BY <1>8, <1>o, Allowed DEF Switch, At, Operation
      <3>4. current # None /\ current' >= current /\ Deps[current'] = image.deps
        BY <1>i, <3>0 DEF Newer, Stamped, Matches, Up
      <3>5. current' \in ready \cup lost
        BY <1>i, <1>n, <3>0 DEF Whole
      <3>1. current # None /\ current' \in ready \cup lost /\ current' > current
            /\ Deps[current'] = image.deps
        BY <1>t, <2>2, <3>4, <3>5 DEF TypeOK
      <3>2. ready' = ready /\ UNCHANGED <<lost, serving, image, seen>>
        BY <1>k, <1>8 DEF Switch
      <3>3. Abstract!Advance
        BY <3>1, <3>2 DEF Abstract!Advance, Abstract!Nameable, Abstract!Fits, ready
      <3> QED
        BY <3>3 DEF Abstract!Next
    <2> QED
      BY <2>1, <2>2
  <1>9. ASSUME NEW w \in Workers, Unmark(w) PROVE [Abstract!Next]_(Abstract!vars)
    <2>1. CASE UNCHANGED current
      BY <1>s, <2>1, <1>9 DEF Unmark
    <2>2. CASE current' # current
      <3>0. Activated(op[w]) /\ current = op[w].rev /\ current' = op[w].prev
        BY <1>o, <1>9, <2>2 DEF Unmark, At, Operation
      <3>4. current' \in ready \cup lost
        BY <1>n, <3>0 DEF Activated
      <3>1. /\ current' \in ready \cup lost /\ current' < current
            /\ (current' = serving \/ Deps[current'] = image.deps)
        <4>1. current' <= current /\ (current' = serving \/ Deps[current'] = image.deps)
          BY <3>0 DEF Activated, Fits
        <4>2. current \in Nat /\ current' \in Nat
          BY <1>t, RevAssumption DEF TypeOK
        <4> QED
          BY <2>2, <3>4, <4>1, <4>2
      <3>2. ready' = ready /\ UNCHANGED <<lost, serving, image, seen>>
        BY <1>k, <1>9 DEF Unmark
      <3>3. Abstract!Revert
        BY <3>1, <3>2 DEF Abstract!Revert, Abstract!Nameable, Abstract!Fits, ready
      <3> QED
        BY <3>3 DEF Abstract!Next
    <2> QED
      BY <2>1, <2>2
  <1>10. ASSUME NEW w \in Workers, Signal(w) PROVE [Abstract!Next]_(Abstract!vars)
    BY <1>t, <1>s, <1>10 DEF Signal, TypeOK
  <1>11. ASSUME NEW w \in Workers, Undo(w) PROVE [Abstract!Next]_(Abstract!vars)
    <2>1. CASE UNCHANGED current
      BY <1>s, <2>1, <1>11 DEF Undo
    <2>2. CASE current' # current
      <3>0. Activated(op[w]) /\ current = op[w].rev /\ current' = op[w].prev
        BY <1>o, <1>11, <2>2 DEF Undo, At, Operation
      <3>4. current' \in ready \cup lost
        BY <1>n, <3>0 DEF Activated
      <3>1. /\ current' \in ready \cup lost /\ current' < current
            /\ (current' = serving \/ Deps[current'] = image.deps)
        <4>1. current' <= current /\ (current' = serving \/ Deps[current'] = image.deps)
          BY <3>0 DEF Activated, Fits
        <4>2. current \in Nat /\ current' \in Nat
          BY <1>t, RevAssumption DEF TypeOK
        <4> QED
          BY <2>2, <3>4, <4>1, <4>2
      <3>2. ready' = ready /\ UNCHANGED <<lost, serving, image, seen>>
        BY <1>k, <1>11 DEF Undo
      <3>3. Abstract!Revert
        BY <3>1, <3>2 DEF Abstract!Revert, Abstract!Nameable, Abstract!Fits, ready
      <3> QED
        BY <3>3 DEF Abstract!Next
    <2> QED
      BY <2>1, <2>2
  <1>12. ASSUME NEW w \in Workers, Restore(w) PROVE [Abstract!Next]_(Abstract!vars)
    BY <1>t, <1>s, <1>12 DEF Restore, TypeOK
  <1>13. ASSUME NEW w \in Workers, Die(w) PROVE [Abstract!Next]_(Abstract!vars)
    BY <1>t, <1>s, <1>13 DEF Die, TypeOK
  <1>14. ASSUME Decide PROVE [Abstract!Next]_(Abstract!vars)
    <2>1. CASE UNCHANGED current
      BY <1>s, <2>1, <1>14 DEF Decide
    <2>2. CASE current' # current
      <3>0. /\ current' = pending /\ Matches(pending) /\ pending # None /\ current # None
            /\ image.id = seen
        BY <1>14, <2>2, Allowed DEF Decide, Rebuilt
      <3>4. current' >= current /\ Deps[current'] = image.deps
        BY <1>i, <3>0 DEF Newer, Matches
      <3>5. current' \in ready \cup lost
        BY <1>i, <1>n, <3>0 DEF Whole
      <3>1. current # None /\ current' \in ready \cup lost /\ current' > current
            /\ Deps[current'] = image.deps
        BY <1>t, <2>2, <3>0, <3>4, <3>5 DEF TypeOK
      <3>2. ready' = ready /\ UNCHANGED <<lost, serving, image, seen>>
        BY <1>k, <1>14 DEF Decide
      <3>3. Abstract!Advance
        BY <3>1, <3>2 DEF Abstract!Advance, Abstract!Nameable, Abstract!Fits, ready
      <3> QED
        BY <3>3 DEF Abstract!Next
    <2> QED
      BY <2>1, <2>2
  <1>15. ASSUME BootReuse PROVE [Abstract!Next]_(Abstract!vars)
    BY <1>t, <1>s, <1>15 DEF BootReuse, TypeOK, Launch
  <1>16. ASSUME BootDiscard PROVE [Abstract!Next]_(Abstract!vars)
    <2>1. target \in Rev
      BY <1>t, <1>i, <1>16, RevAssumption DEF BootDiscard, TypeOK, Launcher, Rev
    <2> QED
      BY <1>d, <2>1, <1>16 DEF BootDiscard
  <1>17. ASSUME BootAdd PROVE [Abstract!Next]_(Abstract!vars)
    BY <1>t, <1>s, <1>17 DEF BootAdd, TypeOK, AddSucceeds, AddFails, Discard, Launch, Marked
  <1>18. ASSUME BootMark PROVE [Abstract!Next]_(Abstract!vars)
    <2>1. CASE MarkComplete(target)
      <3>1. target \in Rev
        BY <1>t, <1>i, <1>o, <1>18 DEF BootMark, TypeOK, Op, Operation, Launcher, Rev
      <3> QED
        BY <1>m, <2>1, <3>1, <1>18 DEF BootMark, Launch
    <2>2. CASE UNCHANGED <<tree, lost>>
      BY <1>s, <2>2, <1>18 DEF BootMark, Launch
    <2> QED
      BY <2>1, <2>2, <1>18 DEF BootMark
  <1>19. ASSUME Compare PROVE [Abstract!Next]_(Abstract!vars)
    <2>1. CASE UNCHANGED current
      BY <1>s, <2>1, <1>19 DEF Compare, Launch
    <2>2. CASE current' # current
      <3>0. current' = target /\ Matches(target) /\ phase = "comparing"
        BY <1>19, <2>2 DEF Compare
      <3>4. current' \in ready \cup lost /\ serving = None
        BY <1>i, <1>n, <3>0 DEF Launcher, Up
      <3>5. current # None => seen # image.id
        BY <1>i, <3>0 DEF Stamped
      <3>6. seen # image.id
        BY <1>i, <3>0, <3>5 DEF Stamped
      <3>1. /\ current' \in ready \cup lost /\ Deps[current'] = image.deps
            /\ serving = None /\ seen # image.id
        BY <3>0, <3>4, <3>6 DEF Matches
      <3>2. ready' = ready /\ UNCHANGED <<lost, serving, image, seen>>
        BY <1>k, <1>19 DEF Compare, Launch
      <3>3. Abstract!Install
        BY <3>1, <3>2 DEF Abstract!Install, Abstract!Nameable, Abstract!Fits, ready
      <3> QED
        BY <3>3 DEF Abstract!Next
    <2> QED
      BY <2>1, <2>2
  <1>20. ASSUME BootUnmark PROVE [Abstract!Next]_(Abstract!vars)
    <2>1. CASE UNCHANGED current
      BY <1>s, <2>1, <1>20 DEF BootUnmark, Launch
    <2>2. CASE current' # current
      <3>0. phase = "activating" /\ current' = target
        BY <1>20, <2>2 DEF BootUnmark
      <3>4. current' \in ready \cup lost
        BY <1>i, <1>n, <3>0 DEF Launcher
      <3>1. current' \in ready \cup lost /\ current' < current /\ serving = None
        BY <1>t, <1>i, <2>2, <3>0, <3>4 DEF Launcher, Up, TypeOK
      <3>2. ready' = ready /\ UNCHANGED <<lost, serving, image, seen>>
        BY <1>k, <1>20 DEF BootUnmark, Launch
      <3>3. Abstract!Revert
        BY <3>1, <3>2 DEF Abstract!Revert, Abstract!Nameable, Abstract!Fits, ready
      <3> QED
        BY <3>3 DEF Abstract!Next
    <2> QED
      BY <2>1, <2>2
  <1>21. ASSUME Stamp PROVE [Abstract!Next]_(Abstract!vars)
    <2>1. CASE UNCHANGED seen
      BY <1>s, <2>1, <1>21 DEF Stamp, Launch
    <2>2. CASE seen' = image.id
      <3>1. serving = None /\ current # None /\ Deps[current] = image.deps
        BY <1>i, <1>21 DEF Stamp, Launcher, Stamped, Fits, Up
      <3>2. ready' = ready /\ UNCHANGED <<lost, current, serving, image>>
        BY <1>k, <1>21 DEF Stamp, Launch
      <3>3. Abstract!Installed
        BY <2>2, <3>1, <3>2 DEF Abstract!Installed, Abstract!Fits, ready
      <3> QED
        BY <3>3 DEF Abstract!Next
    <2> QED
      BY <2>1, <2>2, <1>21 DEF Stamp
  <1>v. ASSUME Tidy, phase = "settled", UNCHANGED <<lost, current, image, seen>>,
               serving' \in {None, current}
        PROVE  [Abstract!Next]_(Abstract!vars)
    <2>1. serving = None /\ current # None
      BY <1>i, <1>v DEF Launcher, Stamped, Up
    <2>2. \A r \in Rev : tree'[r] \in Marked => tree[r] \in Marked
      BY <1>t, <1>v DEF Tidy, Linked, Marked, TypeOK
    <2>3. current \in ready => current \in ready'
      <3>1. current \in Rev /\ current \notin Superseded
        BY <1>t, <2>1, RevAssumption DEF Superseded, TypeOK, Rev
      <3>2. tree'[current] = Linked[current]
        BY <1>v, <3>1 DEF Tidy
      <3> QED
        BY <1>v, <3>1, <3>2 DEF Linked, ready, Marked, Gone
    <2>4. ready' \subseteq ready
      BY <2>2 DEF ready
    <2>5. \E gone \in SUBSET (ready \ {current}) : ready' = ready \ gone
      <3>1. ready \ ready' \in SUBSET (ready \ {current}) /\ ready' = ready \ (ready \ ready')
        BY <1>v, <2>3, <2>4
      <3> QED
        BY <3>1
    <2>6. Abstract!Start
      BY <1>v, <2>1, <2>5 DEF Abstract!Start, ready
    <2> QED
      BY <2>6 DEF Abstract!Next
  <1>22. ASSUME Serve PROVE [Abstract!Next]_(Abstract!vars)
    BY <1>v, <1>22 DEF Serve
  <1>30. ASSUME FailStart PROVE [Abstract!Next]_(Abstract!vars)
    BY <1>i, <1>v, <1>30 DEF FailStart, Launch, Launcher, Up
  <1>23. ASSUME CutPrune PROVE [Abstract!Next]_(Abstract!vars)
    <2>1. PICK r \in Superseded, left \in {"gutted", "stripped"} :
            tree[r] = "complete" /\ tree' = [Linked EXCEPT ![r] = left]
      BY <1>23 DEF CutPrune
    <2>2. Linked \in [Rev -> Tree] /\ \A p \in Rev : Linked[p] \in Marked <=> tree[p] \in Marked
      BY <1>t DEF Linked, Gone, Marked, Tree, TypeOK
    <2>3. r \in Rev
      BY DEF Superseded
    <2>4. \A p \in Rev : tree'[p] \in Marked <=> tree[p] \in Marked
      BY <2>1, <2>2, <2>3 DEF Marked
    <2> QED
      BY <1>s, <1>23, <2>4 DEF CutPrune, Launch
  <1>24. ASSUME Exit PROVE [Abstract!Next]_(Abstract!vars)
    <2>1. serving' = None /\ ready' = ready /\ UNCHANGED <<lost, current, image, seen>>
      BY <1>k, <1>24 DEF Exit, Halt
    <2>2. CASE serving = None
      BY <1>s, <2>1, <2>2, <1>24 DEF Exit
    <2>3. CASE serving # None
      <3>1. Abstract!Stop
        BY <2>1, <2>3 DEF Abstract!Stop, ready
      <3> QED
        BY <3>1 DEF Abstract!Next
    <2> QED
      BY <2>2, <2>3
  <1>25. ASSUME Kill PROVE [Abstract!Next]_(Abstract!vars)
    <2>1. serving' = None /\ ready' = ready /\ UNCHANGED <<lost, current, image, seen>>
      BY <1>k, <1>25 DEF Kill, Halt
    <2>2. CASE serving = None
      BY <1>s, <2>1, <2>2, <1>25 DEF Kill
    <2>3. CASE serving # None
      <3>1. Abstract!Stop
        BY <2>1, <2>3 DEF Abstract!Stop, ready
      <3> QED
        BY <3>1 DEF Abstract!Next
    <2> QED
      BY <2>2, <2>3
  <1>26. ASSUME Publish PROVE [Abstract!Next]_(Abstract!vars)
    BY <1>t, <1>s, <1>26 DEF Publish, TypeOK
  <1>27. ASSUME Checkout PROVE [Abstract!Next]_(Abstract!vars)
    BY <1>t, <1>s, <1>27 DEF Checkout, TypeOK
  <1>28. ASSUME Rebuild PROVE [Abstract!Next]_(Abstract!vars)
    <2>1. serving' = None /\ ready' = ready /\ UNCHANGED <<lost, current, seen>>
      BY <1>k, <1>28 DEF Rebuild, Halt
    <2>2. source \in Rev /\ image.id < MaxBuild /\ image' = [id |-> image.id + 1, deps |-> Deps[source]]
      BY <1>t, <1>28, RevAssumption DEF Rebuild, TypeOK, Rev
    <2>3. Abstract!Rebuild
      BY <2>1, <2>2 DEF Abstract!Rebuild, ready
    <2> QED
      BY <2>3 DEF Abstract!Next
  <1>29. CASE UNCHANGED vars
    BY <1>29, <1>s DEF vars
  <1> QED
    BY <1>1, <1>2, <1>3, <1>4, <1>5, <1>6, <1>7, <1>8, <1>9, <1>10, <1>11, <1>12, <1>13,
       <1>14, <1>15, <1>16, <1>17, <1>18, <1>19, <1>20, <1>21, <1>22, <1>23, <1>24,
       <1>25, <1>26, <1>27, <1>28, <1>29, <1>30 DEF Next, Pull, Restart, Boot

(***************************************************************************)
(* The detailed specification implements ActiveRelease.                    *)
(***************************************************************************)
THEOREM Implementation == Spec => ImplementsActiveRelease
  <1>1. Init => Abstract!Init
    BY AbstractInit
  <1>2. IInv /\ IInv' /\ [Next]_vars => [Abstract!Next]_(Abstract!vars)
    BY AbstractStep
  <1> QED
    BY <1>1, <1>2, Invariance, PTL DEF Spec, ImplementsActiveRelease, Abstract!Spec

=============================================================================
