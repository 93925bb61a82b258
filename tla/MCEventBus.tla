----------------------------- MODULE MCEventBus -----------------------------
(***************************************************************************)
(* Model values for TLC.                                                   *)
(***************************************************************************)
EXTENDS EventBus

CONSTANTS e1, e2, e3, s1, s2, k1, k2
=============================================================================
