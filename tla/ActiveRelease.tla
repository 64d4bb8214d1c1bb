---------------------------- MODULE ActiveRelease ----------------------------
(***************************************************************************)
(* What a staged deployment promises: the service runs one release out of  *)
(* those that are ready, and the active release, the one the next start    *)
(* takes, moves in three ways only.  It advances to a newer release that   *)
(* fits the image; it is installed by the first start of a new image; it is*)
(* reverted because the restart it was moved for did not come about.  A    *)
(* release may be lost, its files gone: then its name may still be moved to*)
(* until it is prepared again, and a start may fail.                       *)
(***************************************************************************)
EXTENDS Naturals

CONSTANTS
    None,                \* no release
    Revs,                \* the releases there may be, newer ones greater
    Deps,                \* the dependencies each release needs
    MaxBuild             \* how many images there may be

VARIABLES
    ready,               \* the releases that are complete
    lost,                \* those that were, and were taken for broken since
    active,              \* the release the next start runs
    running,             \* the release that serves
    image,               \* the image of the container: its number and dependencies
    installed            \* the last image whose first start chose the active release

vars == <<ready, lost, active, running, image, installed>>

Fits(r) == Deps[r] = image.deps

Init ==
    /\ ready = {} /\ lost = {}
    /\ active = None /\ running = None
    /\ image \in [id: {1}, deps: {Deps[r] : r \in Revs}]
    /\ installed = 0

Nameable == ready \cup lost

Prepare ==
    /\ \E r \in Revs : ready' = ready \cup {r} /\ lost' = lost \ {r}
    /\ UNCHANGED <<active, running, image, installed>>

Lose ==
    /\ \E r \in ready : ready' = ready \ {r} /\ lost' = lost \cup {r}
    /\ UNCHANGED <<active, running, image, installed>>

Advance ==
    /\ active # None
    /\ \E r \in Nameable : r > active /\ Fits(r) /\ active' = r
    /\ UNCHANGED <<ready, lost, running, image, installed>>

(* A restart or a start that failed goes back to what it came from.        *)
Revert ==
    /\ \E r \in Nameable : r < active /\ active' = r /\ (running \in {None, r} \/ Fits(r))
    /\ UNCHANGED <<ready, lost, running, image, installed>>

(* The host wins: a new image may even go back to an older release.        *)
Install ==
    /\ running = None
    /\ installed # image.id
    /\ \E r \in Nameable : Fits(r) /\ active' = r
    /\ UNCHANGED <<ready, lost, running, image, installed>>

Installed ==
    /\ running = None
    /\ active # None /\ Fits(active)
    /\ installed' = image.id
    /\ UNCHANGED <<ready, lost, active, running, image>>

(* Releases that are not active may go before the service comes up, all but*)
(* one, and it may fail to come up.                                        *)
Start ==
    /\ running = None /\ active # None
    /\ running' \in {None, active}
    /\ \E gone \in SUBSET (ready \ {active}) : ready' = ready \ gone
    /\ UNCHANGED <<lost, active, image, installed>>

Stop ==
    /\ running # None
    /\ running' = None
    /\ UNCHANGED <<ready, lost, active, image, installed>>

Rebuild ==
    /\ image.id < MaxBuild
    /\ running' = None
    /\ \E r \in Revs : image' = [id |-> image.id + 1, deps |-> Deps[r]]
    /\ UNCHANGED <<ready, lost, active, installed>>

Next == Prepare \/ Lose \/ Advance \/ Revert \/ Install \/ Installed \/ Start \/ Stop \/ Rebuild

Spec == Init /\ [][Next]_vars

=============================================================================
