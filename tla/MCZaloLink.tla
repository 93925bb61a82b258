----------------------------- MODULE MCZaloLink -----------------------------
(***************************************************************************)
(* Instances of ZaloLink for TLC.                                          *)
(***************************************************************************)
EXTENDS ZaloLink, TLC

CONSTANTS a0, a1, a2, x1, x2, u1

Sym == Permutations({a1, a2}) \cup Permutations({x1, x2})
=============================================================================
