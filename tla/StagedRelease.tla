---------------------------- MODULE StagedRelease ----------------------------
(***************************************************************************)
(* In-panel updates of a container (dashboard/ops.py and the release       *)
(* launcher).  An update is checked out into a directory of its own and    *)
(* named by a pending marker; a restart moves the current link to it and   *)
(* stops the container; the restart policy brings it up again, and before  *)
(* the service starts the launcher decides what it runs.  The host rebuilds*)
(* the image and moves its own checkout at any time.  Everything is files: *)
(* a step is one call that changes them, and a process may die before any. *)
(***************************************************************************)
EXTENDS Naturals, FiniteSets

CONSTANTS
    Workers,             \* API workers of the container
    NoWorker,
    MaxRev,              \* bound: revisions of the upstream branch, each the ancestor of the next
    Deps,                \* _compute_deps_fingerprint of each revision
    MaxBuild,            \* bound: images built
    MaxTrouble,          \* bound: faults in one behaviour
    Faults               \* which faults there may be, a set of names

ASSUME RevAssumption == MaxRev \in Nat \ {0} /\ MaxBuild \in Nat \ {0} /\ MaxTrouble \in Nat
ASSUME DepsAssumption == Deps \in [1..MaxRev -> Nat]
ASSUME NoWorkerAssumption == NoWorker \notin Workers

VARIABLES
    remote,              \* what the tracked branch points at
    source,              \* HEAD of the host's checkout
    image,               \* the image of the container: build stamp and baked dependencies
    tree,                \* the worktree of each revision
    lost,                \* the revisions whose finished tree a failing git call had discarded
    current,             \* where the current link points, None before the first boot
    pending,             \* the pending marker
    seen,                \* the build stamp the launcher has seen
    phase,               \* the container: down, at a step of the launcher, up or stopping
    target,              \* the revision the launcher stages, or would go back to
    serving,             \* the revision whose code runs
    lock,                \* holder of the operations lock
    op,                  \* the operation of each worker
    trouble              \* faults so far

disk == <<tree, lost, current, pending, seen>>
host == <<remote, source, image>>
box == <<phase, target, serving>>
ops == <<lock, op>>
vars == <<host, disk, box, ops, trouble>>

None == 0
Rev == 1..MaxRev
RELEASE_RETENTION == 1

(* Registered: git knows the worktree, its directory is gone.  Partial and *)
(* bare: half written, with the files the dependencies are read from or    *)
(* without.  Gutted and stripped: a complete tree that lost files while it *)
(* was removed, those not among them or among them, but not the marker of  *)
(* completion.                                                             *)
Tree == {"absent", "registered", "partial", "bare", "complete", "gutted", "stripped"}
Gone == {"absent", "registered"}
Marked == {"complete", "gutted", "stripped"}
Launching == {"staging", "marking", "comparing", "installing", "stamping", "activating", "settled"}
Up == {"up", "stopping"}
OpPC == {"idle", "staging", "marking", "recording",
         "prepared", "switched", "signalling", "undoing", "restoring"}
Op == [pc: OpPC, rev: 0..MaxRev, prev: 0..MaxRev]
NoOp == [pc |-> "idle", rev |-> None, prev |-> None]

TypeOK ==
    /\ remote \in Rev /\ source \in 1..remote
    /\ image \in [id: 1..MaxBuild, deps: Nat]
    /\ tree \in [Rev -> Tree] /\ lost \in SUBSET (0..MaxRev)
    /\ current \in 0..MaxRev /\ pending \in 0..MaxRev
    /\ seen \in 0..MaxBuild
    /\ phase \in {"down"} \cup Launching \cup Up
    /\ target \in 0..MaxRev
    /\ serving \in 0..MaxRev
    /\ op \in [Workers -> Op]
    /\ lock \in Workers \cup {NoWorker}
    /\ \A w \in Workers : lock = w <=> op[w].pc # "idle"
    /\ trouble \in 0..MaxTrouble

Init ==
    /\ remote = 1 /\ source = 1
    /\ image = [id |-> 1, deps |-> Deps[1]]
    /\ tree = [r \in Rev |-> "absent"] /\ lost = {}
    /\ current = None /\ pending = None /\ seen = 0
    /\ phase = "down" /\ target = None /\ serving = None
    /\ lock = NoWorker /\ op = [w \in Workers |-> NoOp]
    /\ trouble = 0

Fine == UNCHANGED trouble
Trouble(fault) ==
    /\ fault \in Faults
    /\ trouble < MaxTrouble
    /\ trouble' = trouble + 1

-----------------------------------------------------------------------------
(* Directories and links.                                                  *)

(* _pending_release: the marker counts while it names a directory.         *)
PendingRelease == IF pending # None /\ tree[pending] \notin Gone THEN pending ELSE None

(* The fingerprint of a tree is that of the image, and neither of a missing*)
(* file nor of a missing directory.                                        *)
Matches(r) == tree[r] \in {"partial", "complete", "gutted"} /\ Deps[r] = image.deps

(* Mutant: rebuild_required looks at the release that runs.                *)
ToBootRunning == current

(* What the next restart would boot.                                       *)
ToBoot == IF PendingRelease # None THEN PendingRelease ELSE current

RebuildRequired == ~Matches(ToBoot)

(* Mutant: any directory that exists is taken for a finished checkout.     *)
ReusableDirectory(r) == tree[r] \notin Gone

(* The marker of a finished checkout is there.                             *)
Reusable(r) == tree[r] \in Marked

(* Mutant: the registration is left behind.                                *)
DiscardDirectory(r) ==
    /\ tree' = [tree EXCEPT ![r] = "registered"]
    /\ Fine

(* _discard_release_worktree: removal, rmtree and prune, the git commands  *)
(* best-effort.                                                            *)
Discard(r) ==
    \/ tree' = [tree EXCEPT ![r] = "absent"] /\ Fine
    \/ tree' = [tree EXCEPT ![r] = "registered"] /\ Trouble("git")

(* A checkout that is there and not reused goes: one that was not finished,*)
(* or a finished one of which git rev-parse failed to tell the revision.   *)
DiscardFound(r) ==
    /\ tree[r] \notin Gone
    /\ \/ ~Reusable(r) /\ Discard(r) /\ UNCHANGED lost
       \/ /\ Reusable(r) /\ Trouble("git")
          /\ \E left \in Gone : tree' = [tree EXCEPT ![r] = left]
          /\ lost' = lost \cup {r}

(* git worktree add refuses a path that is still registered.               *)
AddSucceeds(r) ==
    /\ tree[r] = "absent"
    /\ \E left \in {"partial", "bare"} : tree' = [tree EXCEPT ![r] = left]
    /\ Fine

AddFails(r) ==
    \/ tree[r] = "registered" /\ Discard(r)
    \/ tree[r] = "absent" /\ UNCHANGED tree /\ Trouble("git")

(* The config link, then the marker of completion.                         *)
MarkComplete(r) == tree' = [tree EXCEPT ![r] = "complete"] /\ lost' = lost \ {r}

-----------------------------------------------------------------------------
(* One-click update: git_pull, under the operations lock.                  *)

Idle(w) == op[w].pc = "idle"
At(w, pc) == phase \in Up /\ op[w].pc = pc
Continue(w, pc) == op' = [op EXCEPT ![w].pc = pc] /\ UNCHANGED lock
EndOp(w) == op' = [op EXCEPT ![w] = NoOp] /\ lock' = NoWorker

BeginOp(w, to) ==
    /\ phase \in Up /\ Idle(w)
    /\ lock = NoWorker
    /\ lock' = w
    /\ op' = [op EXCEPT ![w] = to]

(* Fetched, and the remote is a fast-forward of what is current.           *)
PullBegin(w) ==
    /\ BeginOp(w, [pc |-> "staging", rev |-> remote, prev |-> None])
    /\ tree[current] \notin Gone
    /\ current <= remote
    /\ UNCHANGED <<host, disk, box, trouble>>

PullReuse(w) ==
    /\ At(w, "staging") /\ Reusable(op[w].rev)
    /\ Continue(w, "recording")
    /\ UNCHANGED <<host, disk, box, trouble>>

PullDiscard(w) ==
    /\ At(w, "staging")
    /\ DiscardFound(op[w].rev)
    /\ UNCHANGED <<host, current, pending, seen, box, ops>>

(* git is run in the directory of the release that serves.                 *)
PullAdd(w) ==
    /\ At(w, "staging")
    /\ \/ tree[current] \notin Gone /\ AddSucceeds(op[w].rev) /\ Continue(w, "marking")
       \/ tree[current] \notin Gone /\ AddFails(op[w].rev) /\ EndOp(w)
       \/ /\ tree[current] \in Gone /\ tree[op[w].rev] \in Gone
          /\ UNCHANGED tree /\ Fine /\ EndOp(w)
    /\ UNCHANGED <<host, lost, current, pending, seen, box>>

PullMark(w) ==
    /\ At(w, "marking")
    /\ \/ MarkComplete(op[w].rev) /\ Continue(w, "recording") /\ Fine
       \/ UNCHANGED <<tree, lost>> /\ EndOp(w) /\ Trouble("disk")
    /\ UNCHANGED <<host, current, pending, seen, box>>

PullRecord(w) ==
    /\ At(w, "recording")
    /\ \/ pending' = op[w].rev /\ Fine
       \/ UNCHANGED pending /\ Trouble("disk")
    /\ EndOp(w)
    /\ UNCHANGED <<host, tree, lost, current, seen, box>>

-----------------------------------------------------------------------------
(* Restart: prepared within the request, executed after its response, the  *)
(* lock passing from one to the other.                                     *)

PrepareRestart(w) ==
    /\ BeginOp(w, [pc |-> "prepared", rev |-> PendingRelease, prev |-> None])
    /\ ~RebuildRequired
    /\ UNCHANGED <<host, disk, box, trouble>>

(* _activate_pending_release: the link, then the marker.                   *)
Switch(w) ==
    /\ At(w, "prepared") /\ op[w].rev # None
    /\ current' = PendingRelease
    /\ op' = [op EXCEPT ![w] = [pc |-> "switched", rev |-> PendingRelease, prev |-> current]]
    /\ UNCHANGED <<host, tree, lost, pending, seen, box, lock, trouble>>

Unmark(w) ==
    /\ At(w, "switched")
    /\ \/ pending' = None /\ UNCHANGED current /\ Continue(w, "signalling") /\ Fine
       \/ UNCHANGED pending /\ current' = op[w].prev /\ EndOp(w) /\ Trouble("disk")
    /\ UNCHANGED <<host, tree, lost, seen, box>>

(* PID 1 is told to go, or Docker to restart; or it cannot be reached, or  *)
(* its command fails though the container restarts.                        *)
Signal(w) ==
    /\ At(w, "signalling") \/ (At(w, "prepared") /\ op[w].rev = None)
    /\ \/ phase' = "stopping" /\ EndOp(w) /\ Fine
       \/ phase' \in {phase, "stopping"} /\ Trouble("signal")
          /\ IF op[w].rev = None THEN EndOp(w) ELSE Continue(w, "undoing")
    /\ UNCHANGED <<host, disk, target, serving>>

(* _rollback_activation: the link, then the marker.                        *)
Undo(w) ==
    /\ At(w, "undoing")
    /\ \/ current' = op[w].prev /\ Continue(w, "restoring") /\ Fine
       \/ UNCHANGED current /\ EndOp(w) /\ Trouble("disk")
    /\ UNCHANGED <<host, tree, lost, pending, seen, box>>

Restore(w) ==
    /\ At(w, "restoring")
    /\ \/ pending' = op[w].rev /\ Fine
       \/ UNCHANGED pending /\ Trouble("disk")
    /\ EndOp(w)
    /\ UNCHANGED <<host, tree, lost, current, seen, box>>

-----------------------------------------------------------------------------
(* The launcher: reconcile_boot_release, then the service.                 *)

Launch(to) == phase' = to /\ UNCHANGED <<target, serving>>
Rebuilt == image.id # seen

Decide ==
    /\ phase = "down"
    /\ IF Rebuilt \/ current = None
       THEN target' = source /\ phase' = "staging" /\ UNCHANGED current
       ELSE \/ /\ PendingRelease # None /\ ~RebuildRequired
               /\ current' = PendingRelease /\ target' = current
               /\ phase' = "activating"
            \/ /\ PendingRelease = None \/ RebuildRequired
               /\ UNCHANGED <<current, target>>
               /\ phase' = "settled"
    /\ UNCHANGED <<host, tree, lost, pending, seen, serving, ops, trouble>>

(* _ensure_release_worktree                                                *)
BootReuse ==
    /\ phase = "staging" /\ Reusable(target)
    /\ Launch("comparing")
    /\ UNCHANGED <<host, disk, ops, trouble>>

BootDiscard ==
    /\ phase = "staging"
    /\ DiscardFound(target)
    /\ UNCHANGED <<host, current, pending, seen, box, ops>>

BootAdd ==
    /\ phase = "staging"
    /\ \/ AddSucceeds(target) /\ Launch("marking")
       \/ AddFails(target) /\ Launch("down")
    /\ UNCHANGED <<host, lost, current, pending, seen, ops>>

BootMark ==
    /\ phase = "marking"
    /\ \/ MarkComplete(target) /\ Launch("comparing") /\ Fine
       \/ UNCHANGED <<tree, lost>> /\ Launch("down") /\ Trouble("disk")
    /\ UNCHANGED <<host, current, pending, seen, ops>>

(* The checkout may have moved on since the image was built from it.       *)
Compare ==
    /\ phase = "comparing"
    /\ \/ Matches(target)
          /\ current' = target /\ UNCHANGED pending /\ Launch("installing")
       \/ ~Matches(target) /\ current # None
          /\ pending' = target /\ UNCHANGED current /\ Launch("settled")
       \/ ~Matches(target) /\ current = None
          /\ UNCHANGED <<current, pending>> /\ Launch("down")
    /\ UNCHANGED <<host, tree, lost, seen, ops, trouble>>

(* Mutant: a rebuilt image does not discard what was pending.              *)
UnmarkNothing ==
    /\ phase \in {"installing", "activating"}
    /\ Launch(IF phase = "installing" THEN "stamping" ELSE "settled")
    /\ UNCHANGED <<host, disk, ops, trouble>>

(* The marker goes; if it cannot, the launcher fails, and takes back what  *)
(* it switched only where it activated the pending release.                *)
BootUnmark ==
    /\ phase \in {"installing", "activating"}
    /\ \/ pending' = None /\ UNCHANGED current /\ Fine
          /\ Launch(IF phase = "installing" THEN "stamping" ELSE "settled")
       \/ UNCHANGED pending /\ Launch("down") /\ Trouble("disk")
          /\ current' = IF phase = "activating" THEN target ELSE current
    /\ UNCHANGED <<host, tree, lost, seen, ops>>

(* Mutant: the stamp of a rebuilt image is not recorded.                   *)
StampNothing ==
    /\ phase = "stamping"
    /\ Launch("settled")
    /\ UNCHANGED <<host, disk, ops, trouble>>

Stamp ==
    /\ phase = "stamping"
    /\ \/ seen' = image.id /\ Launch("settled") /\ Fine
       \/ UNCHANGED seen /\ Launch("down") /\ Trouble("disk")
    /\ UNCHANGED <<host, tree, lost, current, pending, ops>>

Superseded == {r \in Rev : tree[r] \notin Gone} \ {current, pending}

(* The config link makes a directory where there is none.                  *)
Linked == IF tree[current] \in Gone THEN [tree EXCEPT ![current] = "bare"] ELSE tree

(* The link, and prune_releases with the order of the modification times   *)
(* left open.                                                              *)
Tidy ==
    \E kept \in SUBSET Superseded :
        /\ Cardinality(kept) = IF Superseded = {} THEN 0 ELSE RELEASE_RETENTION
        /\ tree' = [r \in Rev |-> IF r \in Superseded \ kept THEN "absent" ELSE Linked[r]]

Runnable(r) == tree[r] = "complete" /\ Deps[r] = image.deps

(* The service starts in the directory the link names.                     *)
Serve ==
    /\ phase = "settled"
    /\ tree[current] \notin Gone
    /\ Tidy
    /\ phase' = "up" /\ serving' = current
    /\ UNCHANGED <<host, lost, current, pending, seen, target, ops, trouble>>

(* Or its imports fail: files or packages are missing.                     *)
FailStart ==
    /\ phase = "settled"
    /\ ~Runnable(current)
    /\ Tidy
    /\ Launch("down")
    /\ UNCHANGED <<host, lost, current, pending, seen, ops, trouble>>

(* The container is stopped while a complete tree is being removed.        *)
CutPrune ==
    /\ phase = "settled"
    /\ \E r \in Superseded, left \in {"gutted", "stripped"} :
         /\ Cardinality(Superseded) > RELEASE_RETENTION
         /\ tree[r] = "complete"
         /\ tree' = [Linked EXCEPT ![r] = left]
    /\ Launch("down")
    /\ Trouble("cut")
    /\ UNCHANGED <<host, lost, current, pending, seen, ops>>

-----------------------------------------------------------------------------
(* The container, its workers and the host.                                *)

Halt ==
    /\ phase' = "down" /\ serving' = None
    /\ lock' = NoWorker /\ op' = [w \in Workers |-> NoOp]
    /\ UNCHANGED target

Exit ==
    /\ phase = "stopping"
    /\ Halt
    /\ UNCHANGED <<host, disk, trouble>>

Kill ==
    /\ phase # "down"
    /\ Halt
    /\ Trouble("crash")
    /\ UNCHANGED <<host, disk>>

(* Mutant: an operations lock that outlives its holder.                    *)
DieLocked(w) ==
    /\ ~Idle(w)
    /\ op' = [op EXCEPT ![w] = NoOp] /\ UNCHANGED lock
    /\ Trouble("crash")
    /\ UNCHANGED <<host, disk, box>>

(* The kernel frees the lock with the process.                             *)
Die(w) ==
    /\ ~Idle(w)
    /\ EndOp(w)
    /\ Trouble("crash")
    /\ UNCHANGED <<host, disk, box>>

Publish ==
    /\ remote < MaxRev
    /\ remote' = remote + 1
    /\ UNCHANGED <<source, image, disk, box, ops, trouble>>

Checkout ==
    /\ source' \in (1..remote) \ {source}
    /\ UNCHANGED <<remote, image, disk, box, ops, trouble>>

(* docker compose up --build: a new image, a new container on the old disk.*)
Rebuild ==
    /\ image.id < MaxBuild
    /\ image' = [id |-> image.id + 1, deps |-> Deps[source]]
    /\ Halt
    /\ UNCHANGED <<remote, source, disk, trouble>>

-----------------------------------------------------------------------------
Pull(w) ==
    PullBegin(w) \/ PullReuse(w) \/ PullDiscard(w) \/ PullAdd(w) \/ PullMark(w) \/ PullRecord(w)

Restart(w) ==
    PrepareRestart(w) \/ Switch(w) \/ Unmark(w) \/ Signal(w) \/ Undo(w) \/ Restore(w)

Boot ==
    \/ Decide \/ BootReuse \/ BootDiscard \/ BootAdd \/ BootMark
    \/ Compare \/ BootUnmark \/ Stamp \/ Serve \/ FailStart

Next ==
    \/ \E w \in Workers : Pull(w) \/ Restart(w) \/ Die(w)
    \/ Boot \/ CutPrune
    \/ Exit \/ Kill
    \/ Publish \/ Checkout \/ Rebuild

Spec == Init /\ [][Next]_vars

(* The restart policy starts a container that is down and the launcher goes*)
(* on; a container that was told to stop does.                             *)
FairSpec == Spec /\ WF_vars(Boot) /\ WF_vars(Exit)

-----------------------------------------------------------------------------
(***************************************************************************)
(* Whatever dies whenever: the current link, the pending marker and the    *)
(* code that serves name checkouts that were completed, unless git failed  *)
(* to tell the revision of one and it was discarded.  (ops.py:640, a half- *)
(* written worktree is never activated; ops.py:645, 843, a tree is thrown  *)
(* away for a failing git call whoever names it.)  What a removal that was *)
(* cut short leaves keeps its marker, and is not told from a complete one. *)
(***************************************************************************)
NamedIsComplete ==
    \A r \in {current, pending, serving} \ {None} : tree[r] \in Marked \/ r \in lost

(* Staging it ends with a tree whose dependencies are those of the image.  *)
Installable(r) == Deps[r] = image.deps /\ tree[r] # "stripped"

(* What the launcher would start now cannot run: neither what the link     *)
(* names, nor what it would move the link to.                              *)
NothingFits ==
    /\ current = None \/ ~Runnable(current)
    /\ IF Rebuilt \/ current = None
       THEN ~Installable(source) \/ tree[source] = "gutted"
       ELSE PendingRelease = None \/ ~Runnable(PendingRelease)

(***************************************************************************)
(* The launcher recovers from every leftover: a container that is down     *)
(* serves again, unless nothing that it may run is whole and fits the      *)
(* image; then its start fails, and fails again.  (ops.py:719.)            *)
(***************************************************************************)
ServiceReturns == (phase = "down") ~> (phase = "up" \/ NothingFits)

(***************************************************************************)
(* A rebuilt image takes effect, unless the host has moved its checkout to *)
(* what the image does not fit: its stamp is consumed, which only a start  *)
(* that has switched to the checkout does.  (deploy README:146 says        *)
(* always; ops.py:746 keeps the current release otherwise.)                *)
(***************************************************************************)
RebuildTakesEffect == (phase = "down" /\ Rebuilt) ~> (~Rebuilt \/ ~Installable(source))

(***************************************************************************)
(* An image whose stamp is consumed leaves no older update behind that a   *)
(* restart could take: only newer releases are pending, or ones that wait  *)
(* for another image.                                                      *)
(***************************************************************************)
PendingIsNewer ==
    phase = "up" /\ pending # None => pending >= current \/ ~Matches(pending)

(***************************************************************************)
(* The active release moves as ActiveRelease promises.                     *)
(***************************************************************************)
Abstract == INSTANCE ActiveRelease
    WITH ready <- {r \in Rev : tree[r] \in Marked}, active <- current, running <- serving,
         installed <- seen, Revs <- Rev

ImplementsActiveRelease == Abstract!Spec

=============================================================================
