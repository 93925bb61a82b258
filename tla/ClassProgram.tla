---------------------------- MODULE ClassProgram ----------------------------
(***************************************************************************)
(* A class applies a published version of the template (features/          *)
(* classprogram): Apply copies the lesson titles into the class curriculum *)
(* (features/teaching) and the score set into its score components         *)
(* (features/grading), in one transaction over the three, while the        *)
(* library's authors, a teacher editing the curriculum and a teacher       *)
(* grading the class are at work.                                          *)
(***************************************************************************)
EXTENDS Library, Sequences

CONSTANT HandWritten  \* curricula a teacher may write

ASSUME ProgramConstants == <<>> \notin HandWritten

VARIABLES
  curriculum,  \* class_curricula: row (0 while there is none) and lesson titles
  grades       \* class_components as a whole (id, names) and the one the score recorded is
               \* of (0: no score)

vars == <<template, version, lesson, deleted, program, call, curriculum, grades>>
class == <<program, curriculum, grades>>

\* The lesson titles of a version, in the order of their positions.
InOrder(lines) ==
  [i \in 1 .. Cardinality(lines) |->
     (CHOOSE x \in lines : Cardinality({y \in lines : y[1] < x[1]}) = i - 1)[2]]
Titles(v) == InOrder({<<lesson[l].position, lesson[l].text>> : l \in Of(v)})

\* A class graded under an older set of components, with no curriculum or its own.
Init ==
  /\ LibraryInit
  /\ curriculum \in {[row |-> 0, titles |-> <<>>]} \cup {[row |-> 1, titles |-> text] : text \in HandWritten}
  /\ grades = [id |-> 1, names |-> -1, score |-> 0]

\* What the transaction of an Apply holds until it commits.
\* Mutant of HoldsCurriculum: LockCurriculum is left out.
HoldsOnlyWritten(c) ==
  call[c].op = "apply" /\ call[c].at \in {"written", "syncing"}

HoldsCurriculum(c) ==
  /\ call[c].op = "apply"
  /\ call[c].at \in {"written", "syncing"} \/ (call[c].at = "curriculum read" /\ call[c].row = 1)

HoldsProgram(c) == call[c].op = "apply" /\ call[c].at \in {"written", "syncing"}

\* Mutant of HoldsScoring: SyncTemplateComponents checks without the advisory lock.
NeverHoldsScoring(c) == FALSE

HoldsScoring(c) == call[c].at = "syncing"
-----------------------------------------------------------------------------
\* LockTemplateForVersion, then PublishedVersion.
Apply(c, v, confirm) ==
  /\ call[c].at = "new"
  /\ template = "live" /\ version[v].status = "published"
  /\ call' = [call EXCEPT ![c] = [Idle EXCEPT !.at = "template locked", !.op = "apply", !.on = v,
                                              !.confirm = confirm]]
  /\ UNCHANGED <<library, class>>

\* A curriculum there is no row of has nothing to lock.
LockCurriculum(c) ==
  LET differs == curriculum.titles # <<>> /\ curriculum.titles # Titles(call[c].on)
  IN /\ call[c].at = "template locked"
     /\ curriculum.row = 1 => \A d \in Calls : ~HoldsCurriculum(d)
     /\ IF differs /\ ~call[c].confirm
        THEN Finish(c)
        ELSE call' = [call EXCEPT ![c].at = "curriculum read", ![c].row = curriculum.row]
     /\ UNCHANGED <<library, class>>

\* Upsert and PutCurriculum, visible at the commit, and PublishedScoreSet, which wants the
\* version still published.
UpsertProgram(c) ==
  /\ call[c].at = "curriculum read"
  /\ \A d \in Calls \ {c} : ~HoldsProgram(d) /\ ~HoldsCurriculum(d)
  /\ IF version[call[c].on].status = "published" THEN Goto(c, "written") ELSE Finish(c)
  /\ UNCHANGED <<library, class>>

\* SyncTemplateComponents: a version with components waits for its turn to look for scores.
LockClassForScoring(c) ==
  /\ call[c].at = "written" /\ version[call[c].on].extras # 0
  /\ \A d \in Calls : ~HoldsScoring(d)
  /\ call' = [call EXCEPT ![c].at = "syncing", ![c].known = grades.score]
  /\ UNCHANGED <<library, class>>

\* Replacing the components takes their scores along (ON DELETE CASCADE).
Synced(c) ==
  LET names == version[call[c].on].extras
  IN IF names = 0 \/ call[c].known # 0 \/ grades.names = names THEN grades
     ELSE [id |-> grades.id + 1, names |-> names, score |-> 0]

CommitApply(c) ==
  /\ call[c].at = "syncing" \/ (call[c].at = "written" /\ version[call[c].on].extras = 0)
  /\ program' = call[c].on
  /\ curriculum' = [row |-> 1, titles |-> Titles(call[c].on)]
  /\ grades' = Synced(c)
  /\ Finish(c)
  /\ UNCHANGED library

\* A statement fails, or the database ends a deadlock: all of it is rolled back.
ApplyFails(c) ==
  /\ call[c].op = "apply" /\ call[c].at # "new"
  /\ Finish(c)
  /\ UNCHANGED <<library, class>>
-----------------------------------------------------------------------------
Remove ==
  /\ program # 0 /\ \A c \in Calls : ~HoldsProgram(c)
  /\ program' = 0
  /\ UNCHANGED <<library, call, curriculum, grades>>

PutCurriculum(text) ==
  /\ \A c \in Calls : ~HoldsCurriculum(c)
  /\ curriculum' = [row |-> 1, titles |-> text]
  /\ UNCHANGED <<library, call, program, grades>>

\* PutSessionScores carries the ids of the components the grid was drawn with ...
GetSessionScores(c) ==
  /\ call[c].at = "new"
  /\ call' = [call EXCEPT ![c] = [Idle EXCEPT !.at = "grid", !.op = "scores", !.known = grades.id]]
  /\ UNCHANGED <<library, class>>

\* ... and under the lock wants them to be the class's; a score is recorded or cleared.
PutSessionScores(c) ==
  /\ call[c].at = "grid" /\ \A d \in Calls : ~HoldsScoring(d)
  /\ \E score \in {0, call[c].known} :
       grades' = IF call[c].known = grades.id THEN [grades EXCEPT !.score = score] ELSE grades
  /\ Finish(c)
  /\ UNCHANGED <<library, program, curriculum>>
-----------------------------------------------------------------------------
ClassStep ==
  \/ \E c \in Calls :
       \/ LockCurriculum(c) \/ UpsertProgram(c) \/ LockClassForScoring(c) \/ CommitApply(c)
       \/ ApplyFails(c) \/ GetSessionScores(c) \/ PutSessionScores(c)
       \/ \E v \in Versions, confirm \in BOOLEAN : Apply(c, v, confirm)
  \/ Remove
  \/ \E text \in HandWritten : PutCurriculum(text)

Next ==
  \/ ClassStep
  \/ (LibraryStep \/ \E c \in Calls : LibraryCall(c)) /\ UNCHANGED <<curriculum, grades>>

Spec == Init /\ [][Next]_vars
-----------------------------------------------------------------------------
\* The types, and the foreign key: a score is of a component the class has.
TypeOK ==
  /\ LibraryTypeOK
  /\ curriculum.row \in {0, 1}
  /\ grades.id \in Nat /\ grades.names \in {-1, 0, 1} /\ grades.score \in {0, grades.id}

\* A class never keeps the program of a deleted template, and it was never a draft
\* (LockTemplateForVersion: the delete "either waits for the apply to finish or has
\* already removed the template").
AppliedTemplateLives ==
  program # 0 => template = "live" /\ version[program].status \in {"published", "archived"}

\* Applying a program never takes a recorded score away: "a scored class keeps its
\* components and grades" (Apply).
ScoresSurvive == [][\A c \in Calls : CommitApply(c) => grades'.score = grades.score]_vars

\* Without a confirmation no lesson list of the class is replaced by a different one, if
\* the class had a curriculum row when Apply looked: the decision "must see the class's
\* latest committed lesson list" (Apply).
OverwritesOnlyConfirmed ==
  [][\A c \in Calls : CommitApply(c) /\ ~call[c].confirm /\ call[c].row = 1 =>
       curriculum.titles \in {<<>>, curriculum'.titles}]_vars
=============================================================================
