------------------------ MODULE MCDashboardSessions -------------------------
(* Small instances of DashboardSessions for TLC.                           *)
EXTENDS DashboardSessions, TLC

CONSTANTS t1, t2, w1, w2

(* Each worker runs one request at a time.                                 *)
OneEach == t1 :> w1 @@ t2 :> w2

(* Both save and log in; one logs out while the other streams.             *)
Shared == t1 :> {"login", "save", "logout"} @@ t2 :> {"login", "save", "stream"}

=============================================================================
