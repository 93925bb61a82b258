------------------------- MODULE MCNotificationRuns -------------------------
(***************************************************************************)
(* Instances of NotificationRuns for TLC.                                  *)
(***************************************************************************)
EXTENDS NotificationRuns, TLC

CONSTANTS t1, t2, d1, d2, c1, c2, q1, q2

NoProbe    == {}
T2Probed   == {<<t2, d1>>}  \* t2 sends another teacher's period as a delegate
SymSafety  == Permutations({c1, c2}) \cup Permutations({q1, q2})
=============================================================================
