-------------------------- MODULE MCReviewPublish --------------------------
(* Small instances of ReviewPublish for TLC.                               *)
EXTENDS ReviewPublish, TLC

RunSymmetry == Permutations(Runs)

=============================================================================
