------------------------------ MODULE MCBoard ------------------------------
(***************************************************************************)
(* Instances of Board for TLC.                                             *)
(***************************************************************************)
EXTENDS Board, TLC

CONSTANTS r1, r2, r3, k1, k2, k3

\* The second task is as close to the first as a halved gap allows.
Crowded == (1 :> 0) @@ (2 :> 1)

SymBoard == Permutations(Calls)
=============================================================================
