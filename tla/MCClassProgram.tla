--------------------------- MODULE MCClassProgram ---------------------------
(***************************************************************************)
(* Instances of ClassProgram for TLC.                                      *)
(***************************************************************************)
EXTENDS ClassProgram, TLC

CONSTANTS r1, r2, r3, m1

OneLesson == <<{m1}>>
OwnLesson == {<<2>>}

SymCalls == Permutations(Calls)
=============================================================================
