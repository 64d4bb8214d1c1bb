--------------------------- MODULE MCSettingsFile ---------------------------
(* Small instances of SettingsFile for TLC.                                *)
EXTENDS SettingsFile, TLC

CONSTANTS t1, t2, w1, w2

OneEach == t1 :> w1 @@ t2 :> w2

=============================================================================
