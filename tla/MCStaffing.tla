----------------------------- MODULE MCStaffing -----------------------------
(***************************************************************************)
(* Instances of Staffing for TLC.                                          *)
(***************************************************************************)
EXTENDS Staffing, TLC

CONSTANTS r1, r2, r3, p1, p2, p3, c1, c2, k1, i1, i2, o1, o2, s1, s2

OneCenter  == [k \in {k1} |-> c1]
OneTeacher == [k \in {k1} |-> p1]
OneAccepted ==
  [o \in {o1, o2} |-> IF o = o1 THEN [class |-> k1, person |-> p2, role |-> "tro_giang", status |-> "accepted"]
                      ELSE NoOffer]

SymCalls == Permutations(Calls) \cup Permutations(Invites)
=============================================================================
