------------------------------ MODULE MCLedger ------------------------------
(***************************************************************************)
(* Instances of Ledger for TLC.                                            *)
(***************************************************************************)
EXTENDS Ledger, TLC

CONSTANTS r1, r2, r3, r4

\* The invoice with the smaller id is of the later period: locks and allocations go
\* through the two in opposite orders.
TwoRanks == (1 :> 2) @@ (2 :> 1)
TwoBills == (1 :> [status |-> "issued", opening |-> 1, charge |-> 1])
         @@ (2 :> [status |-> "draft",  opening |-> 0, charge |-> 1])
PlusMinus == {-1, 1}

SymCalls == Permutations(Calls)
=============================================================================
