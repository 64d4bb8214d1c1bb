---------------------------- MODULE PublishLock ----------------------------
(***************************************************************************)
(* The cross-process publish lock of algo/publish_lock.py.                 *)
(*                                                                         *)
(* publish_lock(key) is a context manager around flock(2) on a file whose  *)
(* name is derived from the pull request.  A run polls for the lock until  *)
(* a deadline; past it, or when the lock cannot be used at all, the body   *)
(* runs WITHOUT the lock.  The kernel frees the lock of a process that     *)
(* dies.  One instance of this module is the lock of one pull request: the *)
(* locks of two pull requests are two files and share nothing.             *)
(***************************************************************************)
CONSTANTS
    Runs,      \* the review runs of one pull request, over all workers
    NoRun,     \* the owner of a free lock
    Faults     \* which faults the environment may produce, a set of names

ASSUME NoRunAssumption == NoRun \notin Runs

VARIABLES
    owner,     \* the run whose open file description holds the flock
    stage      \* stage[r]: where r is in the context manager

lockVars == <<owner, stage>>

Stage == {"outside", "waiting", "held", "unlocked"}

LockTypeOK ==
    /\ owner \in Runs \cup {NoRun}
    /\ stage \in [Runs -> Stage]

LockInit ==
    /\ owner = NoRun
    /\ stage = [r \in Runs |-> "outside"]

(* The run opens the lock file and starts polling.                         *)
OpenLock(r) ==
    /\ stage[r] = "outside"
    /\ stage' = [stage EXCEPT ![r] = "waiting"]
    /\ UNCHANGED owner

(* Mutant: every run gets a file of its own, so nobody ever contends.       *)
TakeLockOfItsOwn(r) ==
    /\ stage[r] = "waiting"
    /\ owner' = r
    /\ stage' = [stage EXCEPT ![r] = "held"]

(* flock(LOCK_EX | LOCK_NB) succeeds: nobody else holds the file.          *)
TakeLock(r) ==
    /\ stage[r] = "waiting"
    /\ owner = NoRun
    /\ owner' = r
    /\ stage' = [stage EXCEPT ![r] = "held"]

(* The poll still answers EAGAIN and the deadline has passed: the body     *)
(* runs unlocked.                                                          *)
GiveUpWaiting(r) ==
    /\ "timeout" \in Faults
    /\ stage[r] = "waiting"
    /\ owner # NoRun
    /\ stage' = [stage EXCEPT ![r] = "unlocked"]
    /\ UNCHANGED owner

(* No fcntl, the file cannot be opened, or flock fails with another errno: *)
(* the body runs unlocked.                                                 *)
LockUnavailable(r) ==
    /\ "unavailable" \in Faults
    /\ stage[r] = "waiting"
    /\ stage' = [stage EXCEPT ![r] = "unlocked"]
    /\ UNCHANGED owner

Inside(r) == stage[r] \in {"held", "unlocked"}

(* Mutant: the finally clause forgets LOCK_UN and the file stays open.      *)
DropLockKeepingFile(r) ==
    /\ stage' = [stage EXCEPT ![r] = "outside"]
    /\ UNCHANGED owner

(* What leaving does to the lock, by the finally clause or by the kernel   *)
(* when the process dies: only the owner's flock is dropped.               *)
DropLock(r) ==
    /\ owner' = IF owner = r THEN NoRun ELSE owner
    /\ stage' = [stage EXCEPT ![r] = "outside"]

(* The finally clause: unlock if held, then close the file.                *)
LeaveLock(r) == Inside(r) /\ DropLock(r)

(* The process dies while it waits or inside the body.                     *)
DieInLock(r) == stage[r] # "outside" /\ DropLock(r)

(***************************************************************************)
(* The owner recorded by the kernel is exactly the run that believes it    *)
(* holds the lock, so two runs never hold it together.                     *)
(***************************************************************************)
OwnerHolds == \A r \in Runs : stage[r] = "held" <=> owner = r

=============================================================================
