----------------------------- MODULE MCBilling -----------------------------
(***************************************************************************)
(* Instances of Billing for TLC.                                           *)
(***************************************************************************)
EXTENDS Billing, TLC

CONSTANTS r1, r2, r3, l1, l2

SymCalls == Permutations(Calls)
=============================================================================
