-------------------------- MODULE MCStagedRelease ---------------------------
(* Small instances of StagedRelease for TLC.                               *)
EXTENDS StagedRelease

(* The second revision changes the dependencies, the third does not.       *)
DepsOfThree == <<1, 2, 2>>

=============================================================================
