------------------------- MODULE ClassProgramProofs -------------------------
(***************************************************************************)
(* What holds of Library and ClassProgram for any number of requests,      *)
(* versions, lessons and materials.                                        *)
(***************************************************************************)
EXTENDS ClassProgram, FiniteSetTheorems, WellFoundedInduction, TLAPS

LessonFields  == {"version", "position", "text", "links"}
VersionFields == {"status", "extras"}
CallFields    == {"at", "op", "on", "lesson", "source", "links", "known", "row", "confirm"}
ApplyStages   == {"template locked", "curriculum read", "written", "syncing"}
Released(v)   == version[v].status \in {"published", "archived"}

\* What the tables and the requests look like: enough to follow an update of a field.
Shapes ==
  /\ DOMAIN version = Versions /\ \A v \in Versions : DOMAIN version[v] = VersionFields
  /\ DOMAIN lesson = Lessons
  /\ \A l \in Lessons :
       DOMAIN lesson[l] = LessonFields /\ lesson[l].version \in Versions \cup {-1, 0}
  /\ program \in Versions \cup {0}
  /\ DOMAIN grades = {"id", "names", "score"}
  /\ curriculum.row \in {0, 1}
  /\ DOMAIN call = Calls
  /\ \A c \in Calls :
       /\ DOMAIN call[c] = CallFields
       /\ call[c].at \in {"new", "done", "numbered", "found", "version locked", "grid"} \cup ApplyStages
       /\ call[c].op = "apply" <=> call[c].at \in ApplyStages
       /\ call[c].at \in {"numbered", "found", "version locked"} \cup ApplyStages => call[c].on \in Versions
       /\ call[c].op \in {"update", "delete", "duplicate", "links"} => call[c].lesson \in Lessons

\* A content write under way has a draft, alone; what it attaches is live.
Drafting ==
  /\ \A c \in Calls : call[c].at = "version locked" =>
       /\ version[call[c].on].status = "draft"
       /\ call[c].op = "links" =>
            lesson[call[c].lesson].version = call[c].on /\ call[c].links \cap deleted = {}
  /\ \A c, d \in Calls :
       call[c].at = "version locked" /\ call[d].at = "version locked" /\ call[c].on = call[d].on => c = d

\* A class that applies a version keeps the template, and what it has looked at.
Applying ==
  /\ \A c \in Calls : call[c].at \in ApplyStages => template = "live" /\ Released(call[c].on)
  /\ \A c, d \in Calls : HoldsCurriculum(c) /\ HoldsCurriculum(d) => c = d
  /\ \A c \in Calls : HoldsCurriculum(c) /\ call[c].row = 1 /\ ~call[c].confirm =>
       curriculum.titles \in {<<>>, Titles(call[c].on)}
  /\ \A c, d \in Calls : HoldsScoring(c) /\ HoldsScoring(d) => c = d
  /\ \A c \in Calls : HoldsScoring(c) => call[c].known = grades.score

IInv == Shapes /\ Drafting /\ Applying /\ AppliedTemplateLives /\ LinkedIsLive

-----------------------------------------------------------------------------
(* What a step may do to the versions and the lessons. *)

\* Only lessons of v, or unused ids, change; they end up in v or deleted.
Within(v) ==
  /\ DOMAIN lesson' = Lessons
  /\ \A l \in Lessons :
       /\ DOMAIN lesson'[l] = LessonFields
       /\ \/ lesson'[l] = lesson[l]
          \/ lesson[l].version \in {v, 0} /\ lesson'[l].version \in {v, -1}

\* What is released keeps its lessons, one by one, and stays released.
Kept ==
  \A w \in Versions : Released(w) =>
    /\ Of(w)' = Of(w)
    /\ \A l \in Of(w) : lesson'[l] = lesson[l]
    /\ version'[w].extras = version[w].extras
    /\ version'[w].status \in {version[w].status, "archived"}

LEMMA Numbers == \A v \in Versions : v \in Nat /\ v > 0 /\ v # 0 /\ v # -1
<1>1. Versions \subseteq Nat \ {0}
  BY LibraryConstants
<1> QED
  BY <1>1

LEMMA WithinKeeps ==
  ASSUME Shapes, NEW v \in Versions, ~Released(v), Within(v),
         \A w \in Versions \ {v} : version'[w] = version[w]
  PROVE  Kept /\ \A l \in Lessons : lesson'[l].version \in Versions \cup {-1, 0}
<1>1. Versions \subseteq Nat \ {0}
  BY LibraryConstants
<1>2. ASSUME NEW w \in Versions, Released(w)
      PROVE  /\ Of(w)' = Of(w)
             /\ \A l \in Of(w) : lesson'[l] = lesson[l]
             /\ version'[w] = version[w]
  <2>1. w # v
    BY <1>2
  <2>2. \A l \in Lessons : lesson[l].version = w => lesson'[l] = lesson[l]
    BY <1>1, <2>1 DEF Within
  <2>3. \A l \in Lessons : lesson'[l].version = w => lesson'[l] = lesson[l]
    BY <1>1, <2>1 DEF Within
  <2> QED
    BY <2>1, <2>2, <2>3 DEF Of
<1>3. \A l \in Lessons : lesson'[l].version \in Versions \cup {-1, 0}
  BY DEF Within, Shapes
<1> QED
  BY <1>2, <1>3 DEF Kept

\* A version that keeps its lessons has the same titles and the same content.
LEMMA KeptIsFrozen ==
  ASSUME Kept, NEW v \in Versions, Released(v)
  PROVE  Titles(v)' = Titles(v) /\ Content(v)' = Content(v) /\ Released(v)'
<1>1. Of(v)' = Of(v) /\ \A l \in Of(v) : lesson'[l] = lesson[l]
  BY DEF Kept
<1>2. version'[v].extras = version[v].extras
  BY DEF Kept
<1>3. Released(v)'
  BY DEF Kept, Released
<1> DEFINE lines  == {<<lesson[l].position, lesson[l].text>> : l \in Of(v)}
<1> DEFINE linked == {<<lesson[l].position, lesson[l].text, lesson[l].links>> : l \in Of(v)}
<1>4. lines' = lines
  BY <1>1
<1>5. linked' = linked
  BY <1>1
<1>6. Titles(v)' = Titles(v)
  <2>1. Titles(v) = InOrder(lines)
    BY DEF Titles
  <2>2. Titles(v)' = InOrder(lines')
    BY DEF Titles, InOrder
  <2> HIDE DEF lines
  <2> QED
    BY <1>4, <2>1, <2>2
<1>7. Content(v)' = Content(v)
  BY <1>2, <1>5 DEF Content
<1> QED
  BY <1>3, <1>6, <1>7

-----------------------------------------------------------------------------
(* The content of a version: lessonWrite and CopyVersionContent. *)

LEMMA Dones ==
  /\ DOMAIN Idle = CallFields /\ Idle.at = "new" /\ Idle.op = "none"
  /\ DOMAIN Done = CallFields /\ Done.at = "done" /\ Done.op = "none"
BY DEF Idle, Done, CallFields

\* The part of Shapes about the requests.
CallShapes ==
  /\ DOMAIN call = Calls
  /\ \A c \in Calls :
       /\ DOMAIN call[c] = CallFields
       /\ call[c].at \in {"new", "done", "numbered", "found", "version locked", "grid"} \cup ApplyStages
       /\ call[c].op = "apply" <=> call[c].at \in ApplyStages
       /\ call[c].at \in {"numbered", "found", "version locked"} \cup ApplyStages => call[c].on \in Versions
       /\ call[c].op \in {"update", "delete", "duplicate", "links"} => call[c].lesson \in Lessons

\* One request goes on; its own record is as it should be.
LEMMA CallGoesOn ==
  ASSUME Shapes, NEW c \in Calls, NEW r, call' = [call EXCEPT ![c] = r],
         DOMAIN r = CallFields,
         r.at \in {"new", "done", "numbered", "found", "version locked", "grid"} \cup ApplyStages,
         r.op = "apply" <=> r.at \in ApplyStages,
         r.at \in {"numbered", "found", "version locked"} \cup ApplyStages => r.on \in Versions,
         r.op \in {"update", "delete", "duplicate", "links"} => r.lesson \in Lessons
  PROVE  CallShapes' /\ \A d \in Calls : call'[d] = IF d = c THEN r ELSE call[d]
<1>1. DOMAIN call' = Calls /\ \A d \in Calls : call'[d] = IF d = c THEN r ELSE call[d]
  BY DEF Shapes
<1> QED
  BY <1>1 DEF Shapes, CallShapes

LEMMA CallEnds ==
  ASSUME Shapes, NEW c \in Calls, Finish(c)
  PROVE  CallShapes' /\ \A d \in Calls : call'[d] = IF d = c THEN Done ELSE call[d]
<1>1. Done.at \notin ApplyStages /\ Done.at \notin {"numbered", "found", "version locked"}
  BY Dones DEF ApplyStages
<1>2. call' = [call EXCEPT ![c] = Done]
  BY DEF Finish
<1> QED
  BY <1>1, <1>2, Dones, CallGoesOn

\* Applying looks at no draft: it stays when what is released is kept and no request
\* reaches another stage of it.
LEMMA ApplyingStays ==
  ASSUME IInv, Kept, template' = template, UNCHANGED <<program, curriculum, grades>>,
         \A c \in Calls : \/ call'[c] = call[c]
                          \/ call'[c].at \notin ApplyStages /\ call'[c].op # "apply"
  PROVE  Applying' /\ AppliedTemplateLives'
<1>1. ASSUME NEW c \in Calls, NEW v, v = call'[c].on, call'[c].at \in ApplyStages
      PROVE  /\ call'[c] = call[c] /\ template' = "live"
             /\ v \in Versions /\ Released(v)' /\ Titles(v)' = Titles(v)
  <2>1. call'[c] = call[c]
    BY <1>1
  <2>2. v \in Versions /\ Released(v) /\ template = "live"
    BY <1>1, <2>1 DEF IInv, Applying, Shapes
  <2> QED
    BY <2>1, <2>2, KeptIsFrozen
<1>2. ASSUME NEW c \in Calls
      PROVE  /\ HoldsCurriculum(c)' => HoldsCurriculum(c) /\ call'[c] = call[c]
             /\ HoldsScoring(c)' => HoldsScoring(c) /\ call'[c] = call[c]
  BY DEF HoldsCurriculum, HoldsScoring, ApplyStages
<1>3. ASSUME NEW c \in Calls, HoldsCurriculum(c)', call'[c].row = 1, ~call'[c].confirm
      PROVE  curriculum'.titles \in {<<>>, Titles(call[c].on)'}
  <2>1. HoldsCurriculum(c) /\ call'[c] = call[c]
    BY <1>2, <1>3
  <2>2. curriculum.titles \in {<<>>, Titles(call[c].on)}
    BY <1>3, <2>1 DEF IInv, Applying
  <2>3. call'[c].at \in ApplyStages
    BY <1>3 DEF HoldsCurriculum, ApplyStages
  <2>4. PICK v : v = call'[c].on
    OBVIOUS
  <2>5. Titles(v)' = Titles(v)
    BY <1>1, <2>3, <2>4
  <2> QED
    BY <2>1, <2>2, <2>4, <2>5
<1>4. Applying'
  <2>1. \A c \in Calls : call'[c].at \in ApplyStages => template' = "live" /\ Released(call[c].on)'
    BY <1>1
  <2>2. \A c, d \in Calls : HoldsCurriculum(c)' /\ HoldsCurriculum(d)' => c = d
    BY <1>2 DEF IInv, Applying
  <2>3. \A c, d \in Calls : HoldsScoring(c)' /\ HoldsScoring(d)' => c = d
    BY <1>2 DEF IInv, Applying
  <2>4. \A c \in Calls : HoldsScoring(c)' => call'[c].known = grades'.score
    BY <1>2 DEF IInv, Applying
  <2> QED
    BY <1>3, <2>1, <2>2, <2>3, <2>4 DEF Applying
<1>5. AppliedTemplateLives'
  BY DEF IInv, AppliedTemplateLives, Kept, Released, Shapes
<1> QED
  BY <1>4, <1>5

\* A content write commits: its version is a draft, nobody else's.
LEMMA ContentKeeps ==
  ASSUME IInv, NEW c \in Calls, call[c].at = "version locked", Finish(c), Within(call[c].on),
         DOMAIN version' = Versions, \A w \in Versions : DOMAIN version'[w] = VersionFields,
         \A w \in Versions : version'[w].status = version[w].status,
         \A w \in Versions \ {call[c].on} : version'[w] = version[w],
         LinkedIsLive', UNCHANGED <<template, deleted, program, curriculum, grades>>
  PROVE  IInv' /\ Kept
<1> DEFINE v == call[c].on
<1>1. v \in Versions /\ version[v].status = "draft" /\ ~Released(v)
  BY DEF IInv, Shapes, Drafting, Released
<1>2. Kept /\ \A l \in Lessons : lesson'[l].version \in Versions \cup {-1, 0}
  BY <1>1, WithinKeeps DEF IInv
<1>3. CallShapes' /\ \A d \in Calls : call'[d] = IF d = c THEN Done ELSE call[d]
  BY CallEnds DEF IInv
<1>4. Shapes'
  BY <1>2, <1>3 DEF Shapes, CallShapes, IInv, Within
<1>5. Done.at \notin ApplyStages /\ Done.op # "apply" /\ Done.at # "version locked"
  BY Dones DEF ApplyStages
<1>6. Applying' /\ AppliedTemplateLives'
  BY <1>2, <1>3, <1>5, ApplyingStays
<1>7. Drafting'
  <2>1. ASSUME NEW d \in Calls, call'[d].at = "version locked"
        PROVE  /\ d # c /\ call'[d] = call[d] /\ call[d].on \in Versions
               /\ version'[call[d].on].status = "draft"
               /\ call[d].op = "links" =>
                    lesson'[call[d].lesson].version = call[d].on /\ call[d].links \cap deleted' = {}
    <3>1. d # c /\ call'[d] = call[d]
      BY <1>3, <1>5, <2>1
    <3>2. call[d].on \in Versions /\ call[d].on # v /\ version[call[d].on].status = "draft"
      BY <2>1, <3>1 DEF IInv, Shapes, Drafting
    <3>3. ASSUME call[d].op = "links"
          PROVE  lesson'[call[d].lesson].version = call[d].on
      <4>1. call[d].lesson \in Lessons /\ lesson[call[d].lesson].version = call[d].on
        BY <2>1, <3>1, <3>3 DEF IInv, Shapes, Drafting
      <4>2. call[d].on # 0
        BY <3>2, LibraryConstants
      <4> QED
        BY <3>2, <4>1, <4>2 DEF Within
    <3> QED
      BY <2>1, <3>1, <3>2, <3>3 DEF IInv, Drafting
  <2>2. ASSUME NEW d \in Calls, NEW e \in Calls, call'[d].at = "version locked",
               call'[e].at = "version locked", call'[d].on = call'[e].on
        PROVE  d = e
    <3>1. call[d].at = "version locked" /\ call[e].at = "version locked" /\ call[d].on = call[e].on
      BY <2>1, <2>2
    <3> QED
      BY <3>1 DEF IInv, Drafting
  <2>3. \A d \in Calls : call'[d].at = "version locked" =>
          /\ version'[call'[d].on].status = "draft"
          /\ call'[d].op = "links" =>
               lesson'[call'[d].lesson].version = call'[d].on /\ call'[d].links \cap deleted' = {}
    BY <2>1
  <2> QED
    BY <2>2, <2>3 DEF Drafting
<1> QED
  BY <1>2, <1>4, <1>6, <1>7 DEF IInv

\* Each content write stays within its version and attaches nothing deleted.
LEMMA ContentWrites ==
  ASSUME IInv, NEW c \in Calls,
         \/ CreateLesson(c) \/ UpdateLesson(c) \/ DeleteLesson(c) \/ ReorderLessons(c)
         \/ DuplicateLesson(c) \/ ClearLessons(c) \/ SetExtras(c) \/ ReplaceLessonMaterials(c),
         UNCHANGED <<curriculum, grades>>
  PROVE  IInv' /\ Kept
<1> DEFINE v == call[c].on
<1> DEFINE live(l) == template = "live" /\ lesson'[l].version > 0 => lesson'[l].links \cap deleted = {}
<1> DEFINE fits(l) == /\ DOMAIN lesson'[l] = LessonFields
                      /\ \/ lesson'[l] = lesson[l]
                         \/ lesson[l].version \in {v, 0} /\ lesson'[l].version \in {v, -1}
                      /\ live(l)
<1>1. /\ call[c].at = "version locked" /\ Finish(c) /\ v \in Versions
      /\ UNCHANGED <<template, deleted, program, curriculum, grades>>
  BY DEF CreateLesson, UpdateLesson, DeleteLesson, ReorderLessons, DuplicateLesson, ClearLessons,
         SetExtras, ReplaceLessonMaterials, Commit, IInv, Shapes
<1>2. /\ DOMAIN version' = Versions /\ \A w \in Versions : DOMAIN version'[w] = VersionFields
      /\ \A w \in Versions : version'[w].status = version[w].status
      /\ \A w \in Versions \ {v} : version'[w] = version[w]
  <2>1. CASE SetExtras(c)
    BY <1>1, <2>1 DEF SetExtras, IInv, Shapes, VersionFields
  <2>2. CASE ~SetExtras(c)
    <3>1. version' = version
      BY <2>2 DEF CreateLesson, UpdateLesson, DeleteLesson, ReorderLessons, DuplicateLesson,
                  ClearLessons, ReplaceLessonMaterials
    <3> QED
      BY <3>1 DEF IInv, Shapes
  <2> QED
    BY <2>1, <2>2
<1>3. \A l \in Lessons :
        /\ DOMAIN lesson[l] = LessonFields
        /\ lesson[l].version \in Versions \cup {-1, 0}
        /\ template = "live" /\ lesson[l].version > 0 => lesson[l].links \cap deleted = {}
  BY DEF IInv, Shapes, LinkedIsLive
<1>4. DOMAIN NoLesson = LessonFields /\ NoLesson.links = {} /\ DOMAIN GoneLesson = LessonFields
      /\ GoneLesson.version = -1 /\ ~(GoneLesson.version > 0)
  BY DEF NoLesson, GoneLesson, LessonFields
<1>5. \A n : Fresh(n) \subseteq Lessons /\ \A l \in Fresh(n) : lesson[l].version = 0
  BY DEF Fresh, Unused
<1>6. DOMAIN lesson = Lessons
  BY DEF IInv, Shapes
<1>7. ASSUME CreateLesson(c)
      PROVE  DOMAIN lesson' = Lessons /\ \A l \in Lessons : fits(l)
  <2>1. PICK p : lesson' = [l \in Lessons |-> IF l \in Fresh(1)
                            THEN [NoLesson EXCEPT !.version = v, !.position = p] ELSE lesson[l]]
    BY <1>7 DEF CreateLesson
  <2>2. ASSUME NEW l \in Lessons PROVE fits(l)
    <3>1. CASE l \in Fresh(1)
      BY <1>4, <1>5, <2>1, <3>1 DEF LessonFields
    <3>2. CASE l \notin Fresh(1)
      BY <1>1, <1>3, <2>1, <3>2
    <3> QED
      BY <3>1, <3>2
  <2> QED
    BY <2>1, <2>2
<1>8. ASSUME UpdateLesson(c)
      PROVE  DOMAIN lesson' = Lessons /\ \A l \in Lessons : fits(l)
  <2>1. CASE Stays(c)
    BY <1>1, <1>3, <1>6, <1>8, <2>1 DEF UpdateLesson, Stays, LessonFields
  <2>2. CASE ~Stays(c)
    BY <1>1, <1>3, <1>6, <1>8, <2>2 DEF UpdateLesson
  <2> QED
    BY <2>1, <2>2
<1>9. ASSUME NEW table, DOMAIN table = Lessons,
             \A l \in Lessons :
               /\ DOMAIN table[l] = LessonFields
               /\ table[l] = lesson[l] \/ (lesson[l].version = v /\ table[l] = GoneLesson),
             lesson' = Renumber(table, v)
      PROVE  DOMAIN lesson' = Lessons /\ \A l \in Lessons : fits(l)
  <2>1. DOMAIN lesson' = Lessons
    BY <1>9 DEF Renumber
  <2>2. ASSUME NEW l \in Lessons PROVE fits(l)
    <3>1. CASE table[l].version # v
      <4>1. lesson'[l] = table[l]
        BY <1>9, <3>1 DEF Renumber
      <4> QED
        <5>1. CASE table[l] = lesson[l]
          BY <1>1, <1>3, <4>1, <5>1
        <5>2. CASE lesson[l].version = v /\ table[l] = GoneLesson
          BY <1>4, <4>1, <5>2
        <5> QED
          BY <1>9, <5>1, <5>2
    <3>2. CASE table[l].version = v
      <4>1. v # -1
        BY <1>1, Numbers
      <4>2. table[l] = lesson[l]
        BY <1>4, <1>9, <3>2, <4>1
      <4>3. PICK p : lesson'[l] = [lesson[l] EXCEPT !.position = p]
        BY <1>9, <3>2, <4>2 DEF Renumber
      <4> QED
        BY <1>1, <1>3, <3>2, <4>2, <4>3 DEF LessonFields
    <3> QED
      BY <3>1, <3>2
  <2> QED
    BY <2>1, <2>2
<1>10. ASSUME DeleteLesson(c)
       PROVE  DOMAIN lesson' = Lessons /\ \A l \in Lessons : fits(l)
  <2>1. CASE Stays(c)
    <3> DEFINE table == [lesson EXCEPT ![call[c].lesson] = GoneLesson]
    <3>1. DOMAIN table = Lessons
      BY <1>6
    <3>2. \A l \in Lessons : table[l] = IF l = call[c].lesson THEN GoneLesson ELSE lesson[l]
      BY <1>6
    <3>3. lesson' = Renumber(table, v)
      BY <1>10, <2>1 DEF DeleteLesson
    <3> HIDE DEF table
    <3>4. \A l \in Lessons :
            /\ DOMAIN table[l] = LessonFields
            /\ table[l] = lesson[l] \/ (lesson[l].version = v /\ table[l] = GoneLesson)
      BY <1>3, <1>4, <2>1, <3>2 DEF Stays
    <3> QED
      BY <1>9, <3>1, <3>3, <3>4
  <2>2. CASE ~Stays(c)
    BY <1>1, <1>3, <1>6, <1>10, <2>2 DEF DeleteLesson
  <2> QED
    BY <2>1, <2>2
<1>11. ASSUME ReorderLessons(c)
       PROVE  DOMAIN lesson' = Lessons /\ \A l \in Lessons : fits(l)
  <2>1. PICK order : lesson' = [l \in Lessons |-> IF l \in Of(v)
                                THEN [lesson[l] EXCEPT !.position = order[l]] ELSE lesson[l]]
    BY <1>11 DEF ReorderLessons
  <2> QED
    BY <1>1, <1>3, <2>1 DEF Of, LessonFields
<1>12. ASSUME ClearLessons(c)
       PROVE  DOMAIN lesson' = Lessons /\ \A l \in Lessons : fits(l)
  <2>1. lesson' = [l \in Lessons |-> IF l \in Of(v) THEN GoneLesson ELSE lesson[l]]
    BY <1>12 DEF ClearLessons
  <2>2. ASSUME NEW l \in Lessons PROVE fits(l)
    <3>1. CASE l \in Of(v)
      <4>1. lesson'[l] = GoneLesson /\ lesson[l].version = v
        BY <2>1, <3>1 DEF Of
      <4> QED
        BY <1>4, <4>1
    <3>2. CASE l \notin Of(v)
      BY <1>1, <1>3, <2>1, <3>2
    <3> QED
      BY <3>1, <3>2
  <2> QED
    BY <2>1, <2>2
<1>13. ASSUME SetExtras(c)
       PROVE  DOMAIN lesson' = Lessons /\ \A l \in Lessons : fits(l)
  BY <1>1, <1>3, <1>6, <1>13 DEF SetExtras
<1>14. ASSUME ReplaceLessonMaterials(c)
       PROVE  DOMAIN lesson' = Lessons /\ \A l \in Lessons : fits(l)
  <2>1. /\ call[c].lesson \in Lessons /\ lesson[call[c].lesson].version = v
        /\ call[c].links \cap deleted = {}
    BY <1>1, <1>14 DEF ReplaceLessonMaterials, Commit, IInv, Drafting, Shapes
  <2> QED
    BY <1>1, <1>3, <1>6, <1>14, <2>1 DEF ReplaceLessonMaterials, LessonFields
<1>15. ASSUME DuplicateLesson(c)
       PROVE  DOMAIN lesson' = Lessons /\ \A l \in Lessons : fits(l)
  <2> DEFINE src == call[c].source  l == call[c].lesson  new == Fresh(1)
             order == Renumber(lesson, v)
             after == Stays(c)
             copy == [version |-> v, text |-> src.text,
                      position |-> 1 + (IF after THEN order[l].position ELSE src.position),
                      links |-> IF after THEN lesson[l].links ELSE {}]
             Shifted(m) == IF after /\ order[m].version = v /\ order[m].position > order[l].position
                           THEN [order[m] EXCEPT !.position = @ + 1] ELSE order[m]
             table == [m \in Lessons |-> IF m \in new THEN copy ELSE Shifted(m)]
  <2>1. lesson' = IF Unique(table) THEN table ELSE lesson
    BY <1>15 DEF DuplicateLesson
  <2>2. ASSUME NEW m \in Lessons
        PROVE  \/ order[m] = lesson[m]
               \/ /\ lesson[m].version = v
                  /\ DOMAIN order[m] = LessonFields /\ order[m].version = v
                  /\ order[m].links = lesson[m].links
    <3>1. CASE lesson[m].version # v
      BY <3>1 DEF Renumber
    <3>2. CASE lesson[m].version = v
      <4>1. PICK p : order[m] = [lesson[m] EXCEPT !.position = p]
        BY <3>2 DEF Renumber
      <4> QED
        BY <1>3, <3>2, <4>1 DEF LessonFields
    <3> QED
      BY <3>1, <3>2
  <2>3. ASSUME NEW m \in Lessons
        PROVE  \/ Shifted(m) = lesson[m]
               \/ /\ lesson[m].version = v
                  /\ DOMAIN Shifted(m) = LessonFields /\ Shifted(m).version = v
                  /\ Shifted(m).links = lesson[m].links
    <3>1. CASE after /\ order[m].version = v /\ order[m].position > order[l].position
      <4>1. PICK p : Shifted(m) = [order[m] EXCEPT !.position = p]
        BY <3>1
      <4>2. DOMAIN order[m] = LessonFields /\ order[m].links = lesson[m].links /\ lesson[m].version = v
        BY <1>3, <2>2, <3>1
      <4> HIDE DEF order, Shifted
      <4> QED
        BY <3>1, <4>1, <4>2 DEF LessonFields
    <3>2. CASE ~ (after /\ order[m].version = v /\ order[m].position > order[l].position)
      <4>1. Shifted(m) = order[m]
        BY <3>2
      <4> HIDE DEF order, Shifted
      <4> QED
        BY <2>2, <4>1
    <3> QED
      BY <3>1, <3>2
  <2>4. /\ DOMAIN copy = LessonFields /\ copy.version = v
        /\ template = "live" => copy.links \cap deleted = {}
    <3>1. after => l \in Lessons /\ lesson[l].version = v
      <4>1. call[c].op = "duplicate"
        BY <1>15 DEF DuplicateLesson, Commit
      <4>2. l \in Lessons
        BY <4>1 DEF IInv, Shapes
      <4> QED
        BY <4>2 DEF Stays
    <3>2. v > 0
      BY <1>1, Numbers
    <3>3. template = "live" => copy.links \cap deleted = {}
      BY <1>3, <3>1, <3>2
    <3> QED
      BY <3>3 DEF LessonFields
  <2>5. ASSUME NEW m \in Lessons, Unique(table) PROVE fits(m)
    <3>1. lesson'[m] = IF m \in new THEN copy ELSE Shifted(m)
      BY <2>1, <2>5
    <3> HIDE DEF copy, Shifted
    <3>2. CASE m \in new
      BY <1>1, <1>5, <2>4, <3>1, <3>2
    <3>3. CASE m \notin new
      BY <1>1, <1>3, <2>3, <3>1, <3>3
    <3> QED
      BY <3>2, <3>3
  <2>6. CASE Unique(table)
    <3>1. DOMAIN lesson' = Lessons
      BY <2>1, <2>6
    <3> QED
      BY <2>5, <2>6, <3>1
  <2>7. CASE ~Unique(table)
    BY <1>1, <1>3, <1>6, <2>1, <2>7
  <2> QED
    BY <2>6, <2>7
<1>16. DOMAIN lesson' = Lessons /\ \A l \in Lessons : fits(l)
  BY <1>7, <1>8, <1>10, <1>11, <1>12, <1>13, <1>14, <1>15
<1>17. Within(v) /\ LinkedIsLive'
  BY <1>1, <1>16 DEF Within, LinkedIsLive
<1> QED
  BY <1>1, <1>2, <1>17, ContentKeeps

\* A new version gets copies of lessons of a released one: what those link is live.
LEMMA CopyKeeps ==
  ASSUME IInv, NEW c \in Calls, CopyVersionContent(c), UNCHANGED <<curriculum, grades>>
  PROVE  IInv' /\ Kept
<1> DEFINE v == call[c].on
<1> DEFINE released == Largest({w \in Versions : version[w].status \in {"published", "archived"}})
<1> DEFINE origin == IF released > 0 THEN Of(released) ELSE {}
<1> DEFINE copies == Fresh(Cardinality(origin))
<1>1. /\ call[c].at = "numbered" /\ Finish(c) /\ v \in Versions
      /\ UNCHANGED <<template, deleted, program, curriculum, grades>>
  BY DEF CopyVersionContent, IInv, Shapes
<1>2. CallShapes' /\ \A d \in Calls : call'[d] = IF d = c THEN Done ELSE call[d]
  BY <1>1, CallEnds DEF IInv
<1>3. Done.at \notin ApplyStages /\ Done.op # "apply" /\ Done.at # "version locked"
  BY Dones DEF ApplyStages
<1>4. v \in Nat /\ v # 0 /\ v # -1
  BY <1>1, Numbers
<1>5. /\ DOMAIN version' = Versions /\ \A w \in Versions : DOMAIN version'[w] = VersionFields
      /\ \A w \in Versions \ {v} : version'[w] = version[w]
      /\ ~Released(v) \/ version' = version
      /\ \/ version'[v] = version[v]
         \/ (\A w \in Versions : version[w].status # "draft") /\ version'[v].status = "draft"
      /\ DOMAIN lesson' = Lessons
      /\ \A l \in Lessons :
           /\ DOMAIN lesson'[l] = LessonFields
           /\ lesson'[l] = lesson[l] \/ /\ lesson[l].version = 0 /\ lesson'[l].version = v
                                        /\ template = "live" => lesson'[l].links \cap deleted = {}
      /\ ~Released(v) \/ lesson' = lesson
  <2>1. CASE Exists(v) \/ \E w \in Versions : version[w].status = "draft"
    <3>1. version' = version /\ lesson' = lesson
      BY <2>1 DEF CopyVersionContent
    <3> QED
      BY <1>1, <3>1 DEF IInv, Shapes
  <2>2. CASE ~ (Exists(v) \/ \E w \in Versions : version[w].status = "draft")
    <3>1. PICK x : version' = [version EXCEPT ![v] = [status |-> "draft", extras |-> x]]
      BY <2>2 DEF CopyVersionContent
    <3>2. PICK from \in Injection(copies, origin) :
            lesson' = [l \in Lessons |-> IF l \in copies THEN [lesson[from[l]] EXCEPT !.version = v] ELSE lesson[l]]
      BY <2>2 DEF CopyVersionContent
    <3>3. ~Released(v)
      BY <2>2 DEF Exists, Released
    <3>4. /\ DOMAIN version' = Versions /\ \A w \in Versions : DOMAIN version'[w] = VersionFields
          /\ \A w \in Versions \ {v} : version'[w] = version[w]
          /\ (\A w \in Versions : version[w].status # "draft") /\ version'[v].status = "draft"
      BY <1>1, <2>2, <3>1 DEF IInv, Shapes, VersionFields
    <3>5. ASSUME NEW l \in Lessons
          PROVE  /\ DOMAIN lesson'[l] = LessonFields
                 /\ lesson'[l] = lesson[l] \/ /\ lesson[l].version = 0 /\ lesson'[l].version = v
                                              /\ template = "live" => lesson'[l].links \cap deleted = {}
      <4>1. CASE l \in copies
        <5> DEFINE o == from[l]
        <5>1. o \in origin
          <6> HIDE DEF copies, origin
          <6> QED
            BY <4>1 DEF Injection
        <5>2. o \in Lessons /\ lesson[o].version > 0
          BY <5>1 DEF Of
        <5>3. DOMAIN lesson[o] = LessonFields /\ (template = "live" => lesson[o].links \cap deleted = {})
          BY <5>2 DEF IInv, Shapes, LinkedIsLive
        <5>4. lesson[l].version = 0
          BY <4>1 DEF Fresh, Unused
        <5>5. lesson'[l] = [lesson[o] EXCEPT !.version = v]
          BY <3>2, <4>1
        <5> HIDE DEF o
        <5> QED
          BY <5>3, <5>4, <5>5 DEF LessonFields
      <4>2. CASE l \notin copies
        <5>1. lesson'[l] = lesson[l]
          BY <3>2, <4>2
        <5> QED
          BY <5>1 DEF IInv, Shapes
      <4> QED
        BY <4>1, <4>2
    <3>6. DOMAIN lesson' = Lessons
      BY <3>2
    <3> QED
      BY <3>3, <3>4, <3>5, <3>6
  <2> QED
    BY <2>1, <2>2
<1> HIDE DEF copies, origin, released
<1>6. Kept /\ \A l \in Lessons : lesson'[l].version \in Versions \cup {-1, 0}
  <2>1. CASE Released(v)
    <3>1. version' = version /\ lesson' = lesson
      BY <1>5, <2>1
    <3> QED
      BY <3>1 DEF Kept, Of, IInv, Shapes
  <2>2. CASE ~Released(v)
    <3>1. Within(v)
      BY <1>5 DEF Within
    <3> QED
      BY <1>1, <1>5, <2>2, <3>1, WithinKeeps DEF IInv
  <2> QED
    BY <2>1, <2>2
<1>7. Shapes'
  BY <1>1, <1>2, <1>5, <1>6 DEF Shapes, CallShapes, IInv
<1>8. Applying' /\ AppliedTemplateLives'
  BY <1>1, <1>2, <1>3, <1>6, ApplyingStays
<1>9. LinkedIsLive'
  BY <1>1, <1>5 DEF IInv, LinkedIsLive
<1>10. Drafting'
  <2>1. ASSUME NEW d \in Calls, call'[d].at = "version locked"
        PROVE  /\ d # c /\ call'[d] = call[d]
               /\ version'[call[d].on].status = "draft"
               /\ call[d].op = "links" =>
                    lesson'[call[d].lesson].version = call[d].on /\ call[d].links \cap deleted' = {}
    <3>1. d # c /\ call'[d] = call[d]
      BY <1>2, <1>3, <2>1
    <3>2. call[d].on \in Versions /\ version[call[d].on].status = "draft"
      BY <2>1, <3>1 DEF IInv, Shapes, Drafting
    <3>3. version'[call[d].on].status = "draft"
      BY <1>5, <3>2
    <3>4. ASSUME call[d].op = "links"
          PROVE  lesson'[call[d].lesson].version = call[d].on
      <4>1. call[d].lesson \in Lessons /\ lesson[call[d].lesson].version = call[d].on
        BY <2>1, <3>1, <3>4 DEF IInv, Shapes, Drafting
      <4>2. call[d].on # 0
        BY <3>2, Numbers
      <4> QED
        BY <1>5, <4>1, <4>2
    <3> QED
      BY <1>1, <2>1, <3>1, <3>3, <3>4 DEF IInv, Drafting
  <2>2. ASSUME NEW d \in Calls, NEW e \in Calls, call'[d].at = "version locked",
               call'[e].at = "version locked", call'[d].on = call'[e].on
        PROVE  d = e
    <3>1. call[d].at = "version locked" /\ call[e].at = "version locked" /\ call[d].on = call[e].on
      BY <2>1, <2>2
    <3> QED
      BY <3>1 DEF IInv, Drafting
  <2>3. \A d \in Calls : call'[d].at = "version locked" =>
          /\ version'[call'[d].on].status = "draft"
          /\ call'[d].op = "links" =>
               lesson'[call'[d].lesson].version = call'[d].on /\ call'[d].links \cap deleted' = {}
    BY <2>1
  <2> QED
    BY <2>2, <2>3 DEF Drafting
<1> QED
  BY <1>6, <1>7, <1>8, <1>9, <1>10 DEF IInv

-----------------------------------------------------------------------------
(* The requests of the library, and what needs no request. *)

\* Nothing but a request changes, and it reaches no stage of an apply.
LEMMA LibraryCallKeeps ==
  ASSUME IInv, NEW c \in Calls, NEW r, call' = [call EXCEPT ![c] = r],
         DOMAIN r = CallFields, r.op # "apply",
         r.at \in {"new", "done", "numbered", "found", "version locked", "grid"},
         r.at \in {"numbered", "found", "version locked"} => r.on \in Versions,
         r.op \in {"update", "delete", "duplicate", "links"} => r.lesson \in Lessons,
         r.at = "version locked" =>
           /\ version[r.on].status = "draft" /\ VersionFree(r.on)
           /\ r.op = "links" => lesson[r.lesson].version = r.on /\ r.links \cap deleted = {},
         UNCHANGED <<library, class>>
  PROVE  IInv' /\ Kept
<1>1. /\ template' = template /\ version' = version /\ lesson' = lesson /\ deleted' = deleted
      /\ program' = program /\ curriculum' = curriculum /\ grades' = grades
  BY DEF library, class
<1>2. CallShapes' /\ \A d \in Calls : call'[d] = IF d = c THEN r ELSE call[d]
  BY CallGoesOn DEF IInv, ApplyStages
<1>3. Shapes'
  BY <1>1, <1>2 DEF IInv, Shapes, CallShapes
<1>4. Kept
  BY <1>1 DEF Kept, Of
<1>5. Applying' /\ AppliedTemplateLives'
  <2>1. r.at \notin ApplyStages /\ r.op # "apply"
    BY DEF ApplyStages
  <2> QED
    BY <1>1, <1>2, <1>4, <2>1, ApplyingStays
<1>6. LinkedIsLive'
  BY <1>1 DEF IInv, LinkedIsLive
<1>7. Drafting'
  <2>1. ASSUME NEW d \in Calls, call'[d].at = "version locked"
        PROVE  /\ version'[call'[d].on].status = "draft"
               /\ call'[d].op = "links" =>
                    lesson'[call'[d].lesson].version = call'[d].on /\ call'[d].links \cap deleted' = {}
    <3>1. CASE d = c
      <4>1. call'[d] = r
        BY <1>2, <3>1
      <4> QED
        BY <1>1, <2>1, <4>1
    <3>2. CASE d # c
      <4>1. call'[d] = call[d]
        BY <1>2, <3>2
      <4> QED
        BY <1>1, <2>1, <4>1 DEF IInv, Drafting
    <3> QED
      BY <3>1, <3>2
  <2>2. ASSUME NEW d \in Calls, NEW e \in Calls, call'[d].at = "version locked",
               call'[e].at = "version locked", call'[d].on = call'[e].on
        PROVE  d = e
    <3>1. ASSUME NEW f \in Calls, f # c, r.at = "version locked", call'[f].at = "version locked"
          PROVE  call'[f].on # r.on
      <4>1. call'[f] = call[f]
        BY <1>2, <3>1
      <4>2. ~Writes(f, r.on)
        BY <3>1 DEF VersionFree
      <4> QED
        BY <3>1, <4>1, <4>2 DEF Writes
    <3>2. CASE d = c /\ e # c
      <4>1. call'[d] = r
        BY <1>2, <3>2
      <4> QED
        BY <2>2, <3>1, <3>2, <4>1
    <3>3. CASE d # c /\ e = c
      <4>1. call'[e] = r
        BY <1>2, <3>3
      <4> QED
        BY <2>2, <3>1, <3>3, <4>1
    <3>4. CASE d # c /\ e # c
      <4>1. call'[d] = call[d] /\ call'[e] = call[e]
        BY <1>2, <3>4
      <4> QED
        BY <2>2, <4>1 DEF IInv, Drafting
    <3> QED
      BY <3>2, <3>3, <3>4
  <2>3. \A d \in Calls : call'[d].at = "version locked" =>
          /\ version'[call'[d].on].status = "draft"
          /\ call'[d].op = "links" =>
               lesson'[call'[d].lesson].version = call'[d].on /\ call'[d].links \cap deleted' = {}
    BY <2>1
  <2> QED
    BY <2>2, <2>3 DEF Drafting
<1> QED
  BY <1>3, <1>4, <1>5, <1>6, <1>7 DEF IInv

LEMMA LibraryCalls ==
  ASSUME IInv, NEW c \in Calls, LibraryCall(c), UNCHANGED <<curriculum, grades>>
  PROVE  IInv' /\ Kept
<1>1. CASE CreateVersion(c)
  <2> DEFINE r == [Idle EXCEPT !.at = "numbered", !.op = "create version", !.on = Latest + 1]
  <2>1. /\ call' = [call EXCEPT ![c] = r] /\ Latest + 1 \in Versions /\ UNCHANGED <<library, class>>
    BY <1>1 DEF CreateVersion, class
  <2>2. DOMAIN r = CallFields /\ r.at = "numbered" /\ r.op = "create version" /\ r.on = Latest + 1
    BY DEF Idle, CallFields
  <2> HIDE DEF r
  <2> QED
    BY <2>1, <2>2, LibraryCallKeeps
<1>2. ASSUME NEW v \in Versions, NEW op \in {"create", "reorder", "clear", "extras"}, WriteVersion(c, v, op)
      PROVE  IInv' /\ Kept
  <2> DEFINE r == [Idle EXCEPT !.at = "found", !.op = op, !.on = v]
  <2>1. /\ call' = [call EXCEPT ![c] = r] /\ UNCHANGED <<library, class>>
    BY <1>2 DEF WriteVersion, class
  <2>2. DOMAIN r = CallFields /\ r.at = "found" /\ r.op = op /\ r.on = v
    BY DEF Idle, CallFields
  <2> HIDE DEF r
  <2> QED
    BY <2>1, <2>2, LibraryCallKeeps
<1>3. ASSUME NEW l \in Lessons, NEW op \in {"update", "delete", "duplicate", "links"}, NEW S,
             WriteLesson(c, l, op, S)
      PROVE  IInv' /\ Kept
  <2> DEFINE r == [Idle EXCEPT !.at = "found", !.op = op, !.on = lesson[l].version,
                               !.lesson = l, !.source = lesson[l], !.links = S]
  <2>1. /\ call' = [call EXCEPT ![c] = r] /\ UNCHANGED <<library, class>> /\ lesson[l].version > 0
    BY <1>3 DEF WriteLesson, class
  <2>2. lesson[l].version \in Versions
    <3>1. lesson[l].version \in Versions \cup {-1, 0}
      BY DEF IInv, Shapes
    <3>2. lesson[l].version # -1 /\ lesson[l].version # 0
      BY <2>1
    <3> QED
      BY <3>1, <3>2
  <2>3. DOMAIN r = CallFields /\ r.at = "found" /\ r.op = op /\ r.on = lesson[l].version /\ r.lesson = l
    BY DEF Idle, CallFields
  <2> HIDE DEF r
  <2> QED
    BY <2>1, <2>2, <2>3, LibraryCallKeeps
<1>4. CASE LockVersion(c)
  <2> DEFINE v == call[c].on
  <2>1. UNCHANGED <<library, class>> /\ call[c].at = "found" /\ VersionFree(v) /\ v \in Versions
        /\ call[c].op # "apply"
    BY <1>4 DEF LockVersion, class, IInv, Shapes, ApplyStages
  <2>2. CASE template = "live" /\ version[v].status = "draft" /\ ~Refused(c)
    <3> DEFINE r == [call[c] EXCEPT !.at = "version locked"]
    <3>1. call' = [call EXCEPT ![c] = r]
      BY <1>4, <2>2 DEF LockVersion, Goto, IInv, Shapes
    <3>2. /\ DOMAIN r = CallFields /\ r.at = "version locked" /\ r.op = call[c].op /\ r.on = v
          /\ r.lesson = call[c].lesson /\ r.links = call[c].links
      BY DEF IInv, Shapes, CallFields
    <3>3. /\ r.op \in {"update", "delete", "duplicate", "links"} => r.lesson \in Lessons
          /\ r.op = "links" => lesson[r.lesson].version = v /\ r.links \cap deleted = {}
      BY <2>2, <3>2 DEF IInv, Shapes, Refused
    <3> HIDE DEF r
    <3> QED
      BY <2>1, <2>2, <3>1, <3>2, <3>3, LibraryCallKeeps
  <2>3. CASE ~ (template = "live" /\ version[v].status = "draft" /\ ~Refused(c))
    <3>1. call' = [call EXCEPT ![c] = Done]
      BY <1>4, <2>3 DEF LockVersion, Finish
    <3> QED
      BY <2>1, <3>1, Dones, LibraryCallKeeps
  <2> QED
    BY <2>2, <2>3
<1>5. CASE CopyVersionContent(c)
  BY <1>5, CopyKeeps
<1>6. CASE \/ CreateLesson(c) \/ UpdateLesson(c) \/ DeleteLesson(c) \/ ReorderLessons(c)
           \/ DuplicateLesson(c) \/ ClearLessons(c) \/ SetExtras(c) \/ ReplaceLessonMaterials(c)
  BY <1>6, ContentWrites
<1> QED
  BY <1>1, <1>2, <1>3, <1>4, <1>5, <1>6 DEF LibraryCall

\* A transition waits for the content write under way.
LEMMA TransitionKeeps ==
  ASSUME IInv, NEW v \in Versions, Publish(v) \/ Archive(v), UNCHANGED <<curriculum, grades>>
  PROVE  IInv' /\ Kept
<1>1. PICK to \in {"published", "archived"} :
        /\ version[v].status = "draft" \/ (version[v].status = "published" /\ to = "archived")
        /\ VersionFree(v) /\ version' = [version EXCEPT ![v].status = to]
        /\ UNCHANGED <<template, lesson, deleted, program, call, curriculum, grades>>
  BY DEF Publish, Archive, Transition
<1>2. /\ \A w \in Versions : version'[w].extras = version[w].extras
      /\ \A w \in Versions \ {v} : version'[w] = version[w]
      /\ version'[v].status = to
      /\ DOMAIN version' = Versions /\ \A w \in Versions : DOMAIN version'[w] = VersionFields
  BY <1>1 DEF IInv, Shapes, VersionFields
<1>3. Kept
  BY <1>1, <1>2 DEF Kept, Of, Released
<1>4. Shapes'
  BY <1>1, <1>2 DEF IInv, Shapes
<1>5. Applying' /\ AppliedTemplateLives'
  BY <1>1, <1>3, ApplyingStays
<1>6. LinkedIsLive'
  BY <1>1 DEF IInv, LinkedIsLive
<1>7. Drafting'
  <2>1. ASSUME NEW c \in Calls, call[c].at = "version locked"
        PROVE  version'[call[c].on].status = "draft"
    <3>1. call[c].on \in Versions /\ version[call[c].on].status = "draft"
      BY <2>1 DEF IInv, Shapes, Drafting
    <3>2. call[c].on # v
      BY <1>1, <2>1 DEF VersionFree, Writes
    <3> QED
      BY <1>2, <3>1, <3>2
  <2>2. \A c \in Calls : call[c].at = "version locked" /\ call[c].op = "links" =>
          lesson[call[c].lesson].version = call[c].on /\ call[c].links \cap deleted = {}
    BY DEF IInv, Drafting
  <2>3. \A c, d \in Calls : call[c].at = "version locked" /\ call[d].at = "version locked"
                            /\ call[c].on = call[d].on => c = d
    BY DEF IInv, Drafting
  <2> QED
    BY <1>1, <2>1, <2>2, <2>3 DEF Drafting
<1> QED
  BY <1>3, <1>4, <1>5, <1>6, <1>7 DEF IInv

\* A material is deleted when nothing links it and no attach of it is under way.
LEMMA DeleteMaterialKeeps ==
  ASSUME IInv, NEW m \in Materials, DeleteMaterial(m), UNCHANGED <<curriculum, grades>>
  PROVE  IInv' /\ Kept
<1>1. /\ MaterialFree(m) /\ ~Used(m) /\ deleted' = deleted \cup {m}
      /\ UNCHANGED <<template, version, lesson, program, call, curriculum, grades>>
  BY DEF DeleteMaterial
<1>2. Kept
  BY <1>1 DEF Kept, Of
<1>3. Shapes'
  BY <1>1 DEF IInv, Shapes
<1>4. Applying' /\ AppliedTemplateLives'
  BY <1>1, <1>2, ApplyingStays
<1>5. Drafting'
  <2>1. \A c \in Calls : call[c].at = "version locked" /\ call[c].op = "links" => m \notin call[c].links
    BY <1>1 DEF MaterialFree
  <2> QED
    BY <1>1, <2>1 DEF IInv, Drafting
<1>6. LinkedIsLive'
  BY <1>1 DEF IInv, LinkedIsLive, Used
<1> QED
  BY <1>2, <1>3, <1>4, <1>5, <1>6 DEF IInv

\* A template is deleted when no class has it and none is applying it.
LEMMA DeleteTemplateKeeps ==
  ASSUME IInv, DeleteTemplate, UNCHANGED <<curriculum, grades>>
  PROVE  IInv' /\ Kept
<1>1. /\ \A c \in Calls : ~Shares(c)
      /\ program = 0 /\ template' = "deleted"
      /\ UNCHANGED <<version, lesson, deleted, program, call, curriculum, grades>>
  BY DEF DeleteTemplate
<1>2. \A c \in Calls : call[c].at \notin ApplyStages
  <2> SUFFICES ASSUME NEW c \in Calls, call[c].at \in ApplyStages PROVE FALSE
    OBVIOUS
  <2>1. call[c].op = "apply" /\ call[c].at # "new" /\ call[c].at # "done"
    BY DEF IInv, Shapes, ApplyStages
  <2> QED
    BY <1>1, <2>1 DEF Shares
<1>3. Kept /\ Shapes' /\ Drafting'
  BY <1>1 DEF IInv, Kept, Of, Shapes, Drafting
<1>4. LinkedIsLive' /\ AppliedTemplateLives'
  BY <1>1 DEF LinkedIsLive, AppliedTemplateLives
<1>5. \A c \in Calls : ~HoldsCurriculum(c)' /\ ~HoldsScoring(c)' /\ call'[c].at \notin ApplyStages
  BY <1>1, <1>2 DEF HoldsCurriculum, HoldsScoring, ApplyStages
<1>6. Applying'
  BY <1>5 DEF Applying
<1> QED
  BY <1>3, <1>4, <1>6 DEF IInv

-----------------------------------------------------------------------------
(* The requests of a class. *)

LEMMA LibraryStays ==
  ASSUME IInv, UNCHANGED library
  PROVE  /\ Kept /\ LinkedIsLive'
         /\ UNCHANGED <<template, version, lesson, deleted>>
         /\ \A v \in Versions : Titles(v)' = Titles(v) /\ (Released(v)' <=> Released(v))
<1>1. UNCHANGED <<template, version, lesson, deleted>>
  BY DEF library
<1>2. Kept /\ LinkedIsLive'
  BY <1>1 DEF Kept, Of, IInv, LinkedIsLive
<1>3. ASSUME NEW v \in Versions PROVE Titles(v)' = Titles(v) /\ (Released(v)' <=> Released(v))
  <2>1. Of(v)' = Of(v)
    BY <1>1 DEF Of
  <2> DEFINE lines == {<<lesson[l].position, lesson[l].text>> : l \in Of(v)}
  <2>2. lines' = lines
    BY <1>1, <2>1
  <2>3. Titles(v) = InOrder(lines) /\ Titles(v)' = InOrder(lines')
    BY DEF Titles, InOrder
  <2> HIDE DEF lines
  <2> QED
    BY <1>1, <2>2, <2>3 DEF Released
<1> QED
  BY <1>1, <1>2, <1>3

\* A request that reaches no content write leaves those under way as they are.
LEMMA DraftingStays ==
  ASSUME IInv, UNCHANGED library, NEW c \in Calls,
         \A d \in Calls \ {c} : call'[d] = call[d],
         call'[c] = call[c] \/ call'[c].at # "version locked"
  PROVE  Drafting'
<1>1. UNCHANGED <<version, lesson, deleted>>
  BY DEF library
<1>2. \A d \in Calls : call'[d].at = "version locked" => call'[d] = call[d]
  OBVIOUS
<1>3. \A d \in Calls : call'[d].at = "version locked" =>
        /\ version'[call'[d].on].status = "draft"
        /\ call'[d].op = "links" =>
             lesson'[call'[d].lesson].version = call'[d].on /\ call'[d].links \cap deleted' = {}
  BY <1>1, <1>2 DEF IInv, Drafting
<1>4. ASSUME NEW d \in Calls, NEW e \in Calls, call'[d].at = "version locked",
             call'[e].at = "version locked", call'[d].on = call'[e].on
      PROVE  d = e
  <2>1. call'[d] = call[d] /\ call'[e] = call[e]
    BY <1>2, <1>4
  <2> QED
    BY <1>4, <2>1 DEF IInv, Drafting
<1> QED
  BY <1>3, <1>4 DEF Drafting

\* What a request holds of the curriculum, by its record.
Reads(r) ==
  r.op = "apply" /\ (r.at \in {"written", "syncing"} \/ (r.at = "curriculum read" /\ r.row = 1))

\* A request moves on and commits nothing: what it has looked at must still be so.
LEMMA StageKeeps ==
  ASSUME IInv, NEW c \in Calls, NEW r, call' = [call EXCEPT ![c] = r], UNCHANGED <<library, class>>,
         DOMAIN r = CallFields, r.at \in {"done", "grid"} \cup ApplyStages,
         r.op = "apply" <=> r.at \in ApplyStages,
         r.op \notin {"update", "delete", "duplicate", "links"},
         r.at \in ApplyStages => r.on \in Versions /\ template = "live" /\ Released(r.on),
         Reads(r) => /\ \A d \in Calls \ {c} : ~HoldsCurriculum(d)
                     /\ r.row = 1 /\ ~r.confirm => curriculum.titles \in {<<>>, Titles(r.on)},
         r.at = "syncing" => /\ \A d \in Calls \ {c} : ~HoldsScoring(d)
                             /\ r.known = grades.score
  PROVE  IInv' /\ Kept
<1>1. /\ Kept /\ LinkedIsLive'
      /\ UNCHANGED <<template, version, lesson, deleted, program, curriculum, grades>>
      /\ \A v \in Versions : Titles(v)' = Titles(v) /\ (Released(v)' <=> Released(v))
  BY LibraryStays DEF class
<1>2. CallShapes' /\ \A d \in Calls : call'[d] = IF d = c THEN r ELSE call[d]
  BY CallGoesOn DEF IInv, ApplyStages
<1>3. Shapes'
  BY <1>1, <1>2 DEF IInv, Shapes, CallShapes
<1>4. Drafting'
  <2>1. call'[c].at # "version locked"
    BY <1>2 DEF ApplyStages
  <2> QED
    BY <1>2, <2>1, DraftingStays
<1>5. \A d \in Calls : HoldsCurriculum(d) <=> Reads(call[d])
  BY DEF HoldsCurriculum, Reads
<1>6. \A d \in Calls : HoldsCurriculum(d)' <=> Reads(call'[d])
  BY DEF HoldsCurriculum, Reads
<1>7. ASSUME NEW d \in Calls, NEW v, v = call'[d].on, call'[d].at \in ApplyStages
      PROVE  v \in Versions /\ template' = "live" /\ Released(v)' /\ Titles(v)' = Titles(v)
  <2>1. v \in Versions /\ template = "live" /\ Released(v)
    <3>1. CASE d = c
      BY <1>2, <1>7, <3>1
    <3>2. CASE d # c
      BY <1>2, <1>7, <3>2 DEF IInv, Shapes, Applying
    <3> QED
      BY <3>1, <3>2
  <2> QED
    BY <1>1, <2>1
<1>8. ASSUME NEW d \in Calls, NEW e \in Calls, Reads(call'[d]), Reads(call'[e])
      PROVE  d = e
  <2>1. CASE d # c /\ e # c
    <3>1. Reads(call[d]) /\ Reads(call[e])
      BY <1>2, <1>8, <2>1
    <3> QED
      BY <1>5, <3>1 DEF IInv, Applying
  <2>2. CASE d = c /\ e # c
    <3>1. Reads(r) /\ Reads(call[e])
      BY <1>2, <1>8, <2>2
    <3> QED
      BY <1>5, <2>2, <3>1
  <2>3. CASE d # c /\ e = c
    <3>1. Reads(r) /\ Reads(call[d])
      BY <1>2, <1>8, <2>3
    <3> QED
      BY <1>5, <2>3, <3>1
  <2> QED
    BY <2>1, <2>2, <2>3
<1>9. ASSUME NEW d \in Calls, NEW v, v = call'[d].on, Reads(call'[d]), call'[d].row = 1, ~call'[d].confirm
      PROVE  curriculum'.titles \in {<<>>, Titles(v)'}
  <2>1. call'[d].at \in ApplyStages
    BY <1>9 DEF Reads, ApplyStages
  <2>2. Titles(v)' = Titles(v)
    BY <1>7, <1>9, <2>1
  <2>3. CASE d = c
    <3>1. call'[d] = r
      BY <1>2, <2>3
    <3> QED
      BY <1>1, <1>9, <2>2, <3>1
  <2>4. CASE d # c
    <3>1. call'[d] = call[d]
      BY <1>2, <2>4
    <3> QED
      BY <1>1, <1>5, <1>9, <2>2, <3>1 DEF IInv, Applying
  <2> QED
    BY <2>3, <2>4
<1>10. ASSUME NEW d \in Calls, call'[d].at = "syncing"
       PROVE  /\ call'[d].known = grades'.score
              /\ \A e \in Calls : call'[e].at = "syncing" => e = d
  <2>1. CASE d = c
    <3>1. call'[d] = r
      BY <1>2, <2>1
    <3>2. \A e \in Calls \ {c} : call'[e].at # "syncing"
      BY <1>2, <1>10, <3>1 DEF HoldsScoring
    <3> QED
      BY <1>1, <1>10, <2>1, <3>1, <3>2
  <2>2. CASE d # c
    <3>1. call'[d] = call[d] /\ HoldsScoring(d)
      BY <1>2, <1>10, <2>2 DEF HoldsScoring
    <3>2. r.at # "syncing"
      BY <2>2, <3>1
    <3>3. \A e \in Calls : call'[e].at = "syncing" => e # c /\ HoldsScoring(e)
      BY <1>2, <3>2 DEF HoldsScoring
    <3> QED
      BY <1>1, <3>1, <3>3 DEF IInv, Applying
  <2> QED
    BY <2>1, <2>2
<1>11. Applying'
  <2>1. \A d \in Calls : call'[d].at \in ApplyStages => template' = "live" /\ Released(call[d].on)'
    BY <1>7
  <2>2. \A d \in Calls : HoldsCurriculum(d)' /\ call'[d].row = 1 /\ ~call'[d].confirm =>
          curriculum'.titles \in {<<>>, Titles(call[d].on)'}
    BY <1>6, <1>9
  <2> QED
    BY <1>6, <1>8, <1>10, <2>1, <2>2 DEF Applying, HoldsScoring
<1>12. AppliedTemplateLives'
  BY <1>1 DEF IInv, AppliedTemplateLives
<1> QED
  BY <1>1, <1>3, <1>4, <1>11, <1>12 DEF IInv

\* What the stages of an Apply have in common: its version is released, the template lives.
LEMMA AtStage ==
  ASSUME IInv, NEW c \in Calls, call[c].at \in ApplyStages
  PROVE  /\ call[c].on \in Versions /\ template = "live" /\ Released(call[c].on)
         /\ call[c].op = "apply" /\ DOMAIN call[c] = CallFields
BY DEF IInv, Shapes, Applying

LEMMA CallLeaves ==
  ASSUME IInv, NEW c \in Calls, Finish(c), UNCHANGED <<library, class>>
  PROVE  IInv' /\ Kept
<1>1. call' = [call EXCEPT ![c] = Done]
  BY DEF Finish
<1>2. Done.at \notin ApplyStages /\ ~Reads(Done)
  BY Dones DEF Reads, ApplyStages
<1> QED
  BY <1>1, <1>2, Dones, StageKeeps

LEMMA ApplyCalls ==
  ASSUME IInv, NEW c \in Calls,
         \/ \E v \in Versions, confirm \in BOOLEAN : Apply(c, v, confirm)
         \/ LockCurriculum(c) \/ UpsertProgram(c) \/ LockClassForScoring(c) \/ ApplyFails(c)
         \/ GetSessionScores(c)
  PROVE  IInv' /\ Kept
<1>1. ASSUME NEW v \in Versions, NEW confirm \in BOOLEAN, Apply(c, v, confirm)
      PROVE  IInv' /\ Kept
  <2> DEFINE r == [Idle EXCEPT !.at = "template locked", !.op = "apply", !.on = v, !.confirm = confirm]
  <2>1. /\ template = "live" /\ Released(v)
        /\ call' = [call EXCEPT ![c] = r] /\ UNCHANGED <<library, class>>
    BY <1>1 DEF Apply, Released
  <2>2. DOMAIN r = CallFields /\ r.at = "template locked" /\ r.op = "apply" /\ r.on = v
    BY DEF Idle, CallFields
  <2> HIDE DEF r
  <2>3. ~Reads(r) /\ r.at \in ApplyStages
    BY <2>2 DEF Reads, ApplyStages
  <2> QED
    BY <2>1, <2>2, <2>3, StageKeeps
<1>2. CASE LockCurriculum(c)
  <2> DEFINE v == call[c].on
  <2>1. UNCHANGED <<library, class>> /\ call[c].at = "template locked"
    BY <1>2 DEF LockCurriculum
  <2>2. CASE curriculum.titles # <<>> /\ curriculum.titles # Titles(v) /\ ~call[c].confirm
    BY <1>2, <2>1, <2>2, CallLeaves DEF LockCurriculum
  <2>3. CASE ~ (curriculum.titles # <<>> /\ curriculum.titles # Titles(v) /\ ~call[c].confirm)
    <3> DEFINE r == [call[c] EXCEPT !.at = "curriculum read", !.row = curriculum.row]
    <3>1. call' = [call EXCEPT ![c] = r]
      BY <1>2, <2>3 DEF LockCurriculum, IInv, Shapes
    <3>2. v \in Versions /\ template = "live" /\ Released(v) /\ call[c].op = "apply"
      BY <2>1, AtStage DEF ApplyStages
    <3>3. /\ DOMAIN r = CallFields /\ r.at = "curriculum read" /\ r.op = "apply" /\ r.on = v
          /\ r.row = curriculum.row /\ r.confirm = call[c].confirm
      BY <3>2 DEF IInv, Shapes, CallFields
    <3> HIDE DEF r
    <3>4. Reads(r) => /\ \A d \in Calls : ~HoldsCurriculum(d)
                      /\ r.row = 1 /\ ~r.confirm => curriculum.titles \in {<<>>, Titles(r.on)}
      BY <1>2, <2>3, <3>3 DEF Reads, LockCurriculum
    <3>5. r.at \in ApplyStages /\ r.at # "syncing"
      BY <3>3 DEF ApplyStages
    <3> QED
      BY <2>1, <3>1, <3>2, <3>3, <3>4, <3>5, StageKeeps
  <2> QED
    BY <2>2, <2>3
<1>3. CASE UpsertProgram(c)
  <2>1. UNCHANGED <<library, class>> /\ call[c].at = "curriculum read"
        /\ \A d \in Calls \ {c} : ~HoldsCurriculum(d)
    BY <1>3 DEF UpsertProgram
  <2>2. CASE version[call[c].on].status # "published"
    BY <1>3, <2>1, <2>2, CallLeaves DEF UpsertProgram
  <2>3. CASE version[call[c].on].status = "published"
    <3> DEFINE r == [call[c] EXCEPT !.at = "written"]
    <3>1. call' = [call EXCEPT ![c] = r]
      BY <1>3, <2>3 DEF UpsertProgram, Goto, IInv, Shapes
    <3>2. call[c].on \in Versions /\ template = "live" /\ Released(call[c].on) /\ call[c].op = "apply"
      BY <2>1, AtStage DEF ApplyStages
    <3>3. /\ DOMAIN r = CallFields /\ r.at = "written" /\ r.op = "apply" /\ r.on = call[c].on
          /\ r.row = call[c].row /\ r.confirm = call[c].confirm
      BY <3>2 DEF IInv, Shapes, CallFields
    <3> HIDE DEF r
    <3>4. r.row = 1 /\ ~r.confirm => curriculum.titles \in {<<>>, Titles(r.on)}
      BY <2>1, <3>2, <3>3 DEF IInv, Applying, HoldsCurriculum
    <3>5. r.at \in ApplyStages /\ r.at # "syncing"
      BY <3>3 DEF ApplyStages
    <3> QED
      BY <2>1, <3>1, <3>2, <3>3, <3>4, <3>5, StageKeeps
  <2> QED
    BY <2>2, <2>3
<1>4. CASE LockClassForScoring(c)
  <2> DEFINE r == [call[c] EXCEPT !.at = "syncing", !.known = grades.score]
  <2>1. /\ UNCHANGED <<library, class>> /\ call[c].at = "written" /\ \A d \in Calls : ~HoldsScoring(d)
        /\ call' = [call EXCEPT ![c] = r]
    BY <1>4 DEF LockClassForScoring, IInv, Shapes
  <2>2. call[c].on \in Versions /\ template = "live" /\ Released(call[c].on) /\ call[c].op = "apply"
    BY <2>1, AtStage DEF ApplyStages
  <2>3. /\ DOMAIN r = CallFields /\ r.at = "syncing" /\ r.op = "apply" /\ r.on = call[c].on
        /\ r.row = call[c].row /\ r.confirm = call[c].confirm /\ r.known = grades.score
    BY <2>2 DEF IInv, Shapes, CallFields
  <2> HIDE DEF r
  <2>4. HoldsCurriculum(c)
    BY <2>1, <2>2 DEF HoldsCurriculum
  <2>5. \A d \in Calls \ {c} : ~HoldsCurriculum(d)
    BY <2>4 DEF IInv, Applying
  <2>6. r.row = 1 /\ ~r.confirm => curriculum.titles \in {<<>>, Titles(r.on)}
    BY <2>3, <2>4 DEF IInv, Applying
  <2>7. r.at \in ApplyStages
    BY <2>3 DEF ApplyStages
  <2> QED
    BY <2>1, <2>2, <2>3, <2>5, <2>6, <2>7, StageKeeps
<1>5. CASE ApplyFails(c)
  BY <1>5, CallLeaves DEF ApplyFails
<1>6. CASE GetSessionScores(c)
  <2> DEFINE r == [Idle EXCEPT !.at = "grid", !.op = "scores", !.known = grades.id]
  <2>1. call' = [call EXCEPT ![c] = r] /\ UNCHANGED <<library, class>>
    BY <1>6 DEF GetSessionScores
  <2>2. DOMAIN r = CallFields /\ r.at = "grid" /\ r.op = "scores"
    BY DEF Idle, CallFields
  <2> HIDE DEF r
  <2>3. ~Reads(r) /\ r.at \notin ApplyStages
    BY <2>2 DEF Reads, ApplyStages
  <2> QED
    BY <2>1, <2>2, <2>3, StageKeeps
<1> QED
  BY <1>1, <1>2, <1>3, <1>4, <1>5, <1>6

\* The commit of an Apply: nobody else holds the curriculum, so nobody else is that far.
LEMMA CommitKeeps ==
  ASSUME IInv, NEW c \in Calls, CommitApply(c)
  PROVE  IInv' /\ Kept
<1> DEFINE v == call[c].on
<1>1. /\ UNCHANGED library /\ program' = v /\ Finish(c)
      /\ curriculum' = [row |-> 1, titles |-> Titles(v)] /\ grades' = Synced(c)
      /\ call[c].at \in {"written", "syncing"}
  BY DEF CommitApply
<1>2. v \in Versions /\ template = "live" /\ Released(v) /\ call[c].op = "apply"
  BY <1>1, AtStage DEF ApplyStages
<1>3. /\ Kept /\ LinkedIsLive' /\ UNCHANGED <<template, version, lesson, deleted>>
      /\ \A w \in Versions : Titles(w)' = Titles(w) /\ (Released(w)' <=> Released(w))
  BY <1>1, LibraryStays
<1>4. CallShapes' /\ \A d \in Calls : call'[d] = IF d = c THEN Done ELSE call[d]
  BY <1>1, CallEnds DEF IInv
<1>5. Shapes'
  <2>1. DOMAIN grades' = {"id", "names", "score"}
    BY <1>1 DEF Synced, IInv, Shapes
  <2> QED
    BY <1>1, <1>2, <1>3, <1>4, <2>1 DEF IInv, Shapes, CallShapes
<1>6. Drafting'
  BY <1>1, <1>4, Dones, DraftingStays
<1>7. \A d \in Calls \ {c} : ~HoldsCurriculum(d)
  BY <1>1, <1>2 DEF HoldsCurriculum, IInv, Applying
<1>8. \A d \in Calls : ~HoldsCurriculum(d)' /\ ~HoldsScoring(d)'
  <2> SUFFICES ASSUME NEW d \in Calls PROVE ~HoldsCurriculum(d)' /\ ~HoldsScoring(d)'
    OBVIOUS
  <2>1. CASE d = c
    BY <1>4, <2>1, Dones DEF HoldsCurriculum, HoldsScoring
  <2>2. CASE d # c
    <3>1. call'[d] = call[d] /\ ~HoldsCurriculum(d)
      BY <1>4, <1>7, <2>2
    <3>2. call[d].at = "syncing" => call[d].op = "apply"
      BY AtStage DEF ApplyStages
    <3> QED
      BY <3>1, <3>2 DEF HoldsCurriculum, HoldsScoring
  <2> QED
    BY <2>1, <2>2
<1>9. ASSUME NEW d \in Calls, NEW w, w = call'[d].on, call'[d].at \in ApplyStages
      PROVE  template' = "live" /\ Released(w)'
  <2>1. call'[d] = call[d]
    BY <1>4, <1>9, Dones DEF ApplyStages
  <2>2. w \in Versions /\ template = "live" /\ Released(w)
    BY <1>9, <2>1, AtStage
  <2> QED
    BY <1>3, <2>2
<1>10. Applying'
  <2>1. \A d \in Calls : call'[d].at \in ApplyStages => template' = "live" /\ Released(call[d].on)'
    BY <1>9
  <2> QED
    BY <1>8, <2>1 DEF Applying
<1>11. AppliedTemplateLives'
  <2>1. version'[program'].status \in {"published", "archived"}
    BY <1>1, <1>2, <1>3 DEF Released
  <2> QED
    BY <1>2, <1>3, <2>1 DEF AppliedTemplateLives
<1> QED
  BY <1>3, <1>5, <1>6, <1>10, <1>11 DEF IInv

\* What a class does without an Apply.
LEMMA OtherClassSteps ==
  ASSUME IInv, \/ Remove \/ \E text \in HandWritten : PutCurriculum(text)
               \/ \E c \in Calls : PutSessionScores(c)
  PROVE  IInv' /\ Kept
<1>0. UNCHANGED library
  BY DEF Remove, PutCurriculum, PutSessionScores
<1>1. /\ Kept /\ LinkedIsLive' /\ UNCHANGED <<template, version, lesson, deleted>>
      /\ \A w \in Versions : Titles(w)' = Titles(w) /\ (Released(w)' <=> Released(w))
  BY <1>0, LibraryStays
<1>2. CASE Remove \/ \E text \in HandWritten : PutCurriculum(text)
  <2>1. /\ call' = call /\ grades' = grades
        /\ program' = 0 \/ program' = program
        /\ curriculum' = curriculum \/ /\ \A c \in Calls : ~HoldsCurriculum(c)
                                       /\ curriculum'.row = 1
    BY <1>2 DEF Remove, PutCurriculum
  <2>2. Shapes'
    BY <1>1, <2>1 DEF IInv, Shapes
  <2>3. Drafting'
    BY <1>1, <2>1 DEF IInv, Drafting
  <2>4. AppliedTemplateLives'
    BY <1>1, <2>1 DEF IInv, AppliedTemplateLives
  <2>5. \A c \in Calls : /\ HoldsCurriculum(c)' <=> HoldsCurriculum(c)
                         /\ HoldsScoring(c)' <=> HoldsScoring(c)
    BY <2>1 DEF HoldsCurriculum, HoldsScoring
  <2>6. ASSUME NEW c \in Calls, call'[c].at \in ApplyStages
        PROVE  template' = "live" /\ Released(call[c].on)'
    <3>1. call[c].on \in Versions /\ template = "live" /\ Released(call[c].on)
      BY <2>1, <2>6, AtStage
    <3> QED
      BY <1>1, <2>1, <3>1 DEF Released
  <2>7. ASSUME NEW c \in Calls, NEW w, w = call[c].on, HoldsCurriculum(c), call[c].row = 1, ~call[c].confirm
        PROVE  curriculum'.titles \in {<<>>, Titles(w)'}
    <3>1. w \in Versions
      BY <2>7, AtStage DEF HoldsCurriculum, ApplyStages
    <3>2. curriculum' = curriculum
      BY <2>1, <2>7
    <3> QED
      BY <1>1, <2>7, <3>1, <3>2 DEF IInv, Applying
  <2>8. \A c \in Calls : HoldsCurriculum(c)' /\ call'[c].row = 1 /\ ~call'[c].confirm =>
          curriculum'.titles \in {<<>>, Titles(call[c].on)'}
    <3> SUFFICES ASSUME NEW c \in Calls, HoldsCurriculum(c)', call'[c].row = 1, ~call'[c].confirm
                 PROVE  curriculum'.titles \in {<<>>, Titles(call[c].on)'}
      OBVIOUS
    <3>1. PICK w : w = call[c].on
      OBVIOUS
    <3>2. curriculum'.titles \in {<<>>, Titles(w)'}
      BY <2>1, <2>5, <2>7, <3>1
    <3>3. w = call'[c].on
      BY <2>1, <3>1
    <3> QED
      BY <3>2, <3>3
  <2>9. Applying'
    BY <2>1, <2>5, <2>6, <2>8 DEF IInv, Applying
  <2> QED
    BY <1>1, <2>2, <2>3, <2>4, <2>9 DEF IInv
<1>3. ASSUME NEW c \in Calls, PutSessionScores(c)
      PROVE  IInv' /\ Kept
  <2>1. /\ call[c].at = "grid" /\ Finish(c) /\ program' = program /\ curriculum' = curriculum
        /\ \A d \in Calls : ~HoldsScoring(d)
        /\ \E s : grades' = grades \/ grades' = [grades EXCEPT !.score = s]
    BY <1>3 DEF PutSessionScores
  <2>2. CallShapes' /\ \A d \in Calls : call'[d] = IF d = c THEN Done ELSE call[d]
    BY <2>1, CallEnds DEF IInv
  <2>3. Shapes'
    <3>1. DOMAIN grades' = {"id", "names", "score"}
      BY <2>1 DEF IInv, Shapes
    <3> QED
      BY <1>1, <2>1, <2>2, <3>1 DEF IInv, Shapes, CallShapes
  <2>4. Drafting'
    BY <1>0, <2>2, Dones, DraftingStays
  <2>5. AppliedTemplateLives'
    BY <1>1, <2>1 DEF IInv, AppliedTemplateLives
  <2>6. \A d \in Calls : /\ HoldsCurriculum(d)' => HoldsCurriculum(d) /\ call'[d] = call[d]
                         /\ ~HoldsScoring(d)'
    BY <2>1, <2>2, Dones DEF HoldsCurriculum, HoldsScoring
  <2>7. ASSUME NEW d \in Calls, NEW w, w = call'[d].on, call'[d].at \in ApplyStages
        PROVE  /\ call'[d] = call[d] /\ w \in Versions /\ template' = "live" /\ Released(w)'
    <3>1. call'[d] = call[d]
      BY <2>2, <2>7, Dones DEF ApplyStages
    <3>2. w \in Versions /\ template = "live" /\ Released(w)
      BY <2>7, <3>1, AtStage
    <3> QED
      BY <1>1, <3>1, <3>2
  <2>8. ASSUME NEW d \in Calls, NEW w, w = call'[d].on, HoldsCurriculum(d)', call'[d].row = 1, ~call'[d].confirm
        PROVE  curriculum'.titles \in {<<>>, Titles(w)'}
    <3>1. HoldsCurriculum(d) /\ call'[d] = call[d]
      BY <2>6, <2>8
    <3>2. w \in Versions
      BY <2>8, <3>1, AtStage DEF HoldsCurriculum, ApplyStages
    <3> QED
      BY <1>1, <2>1, <2>8, <3>1, <3>2 DEF IInv, Applying
  <2>9. Applying'
    <3>1. \A d \in Calls : call'[d].at \in ApplyStages => template' = "live" /\ Released(call[d].on)'
      BY <2>7
    <3>2. \A d \in Calls : HoldsCurriculum(d)' /\ call'[d].row = 1 /\ ~call'[d].confirm =>
            curriculum'.titles \in {<<>>, Titles(call[d].on)'}
      BY <2>8
    <3>3. \A d, e \in Calls : HoldsCurriculum(d)' /\ HoldsCurriculum(e)' => d = e
      BY <2>6 DEF IInv, Applying
    <3> QED
      BY <2>6, <3>1, <3>2, <3>3 DEF Applying
  <2> QED
    BY <1>1, <2>3, <2>4, <2>5, <2>9 DEF IInv
<1> QED
  BY <1>2, <1>3

-----------------------------------------------------------------------------
(* The theorems. *)

LEMMA InitInv == Init => IInv
<1> SUFFICES ASSUME Init PROVE IInv
  OBVIOUS
<1>1. \A c \in Calls : call[c] = Idle
  BY DEF Init, LibraryInit
<1>2. \A c \in Calls : call[c].at = "new" /\ call[c].op = "none" /\ DOMAIN call[c] = CallFields
  BY <1>1, Dones
<1>3. \A l \in Lessons : DOMAIN lesson[l] = LessonFields /\ lesson[l].version \in {0, 1}
  BY DEF Init, LibraryInit, NoLesson, LessonFields
<1>4. 1 \in Versions
  <2>1. \A v \in Versions : v \in Nat /\ v > 0
    BY Numbers
  <2>2. Versions = 1 .. Cardinality(Versions) /\ Versions # {}
    BY LibraryConstants
  <2>3. PICK v \in Versions : TRUE
    BY <2>2
  <2>4. Cardinality(Versions) \in Nat
    BY LibraryConstants, FS_CardinalityType
  <2> QED
    BY <2>1, <2>2, <2>3, <2>4
<1>5. DOMAIN version = Versions /\ \A v \in Versions : DOMAIN version[v] = VersionFields
  BY DEF Init, LibraryInit, VersionFields
<1>6. /\ DOMAIN lesson = Lessons /\ DOMAIN call = Calls /\ program = 0 /\ deleted = {}
      /\ DOMAIN grades = {"id", "names", "score"} /\ curriculum.row \in {0, 1}
  BY DEF Init, LibraryInit
<1>7. Shapes
  BY <1>2, <1>3, <1>4, <1>5, <1>6 DEF Shapes, ApplyStages
<1>8. Drafting /\ Applying
  BY <1>2 DEF Drafting, Applying, ApplyStages, HoldsCurriculum, HoldsScoring
<1> QED
  BY <1>6, <1>7, <1>8 DEF IInv, AppliedTemplateLives, LinkedIsLive

LEMMA StepKeeps == IInv /\ [Next]_vars => IInv' /\ Kept
<1> SUFFICES ASSUME IInv, [Next]_vars PROVE IInv' /\ Kept
  OBVIOUS
<1>1. CASE UNCHANGED vars
  <2>1. Kept /\ LinkedIsLive' /\ AppliedTemplateLives' /\ Shapes' /\ Drafting'
    BY <1>1 DEF vars, Kept, Of, IInv, LinkedIsLive, AppliedTemplateLives, Shapes, Drafting
  <2>2. UNCHANGED <<template, program, curriculum, grades, call>>
    BY <1>1 DEF vars
  <2>3. Applying'
    BY <2>1, <2>2, ApplyingStays
  <2> QED
    BY <2>1, <2>3 DEF IInv
<1>2. CASE ClassStep
  BY <1>2, ApplyCalls, CommitKeeps, OtherClassSteps DEF ClassStep
<1>3. CASE LibraryStep /\ UNCHANGED <<curriculum, grades>>
  BY <1>3, TransitionKeeps, DeleteMaterialKeeps, DeleteTemplateKeeps DEF LibraryStep
<1>4. CASE (\E c \in Calls : LibraryCall(c)) /\ UNCHANGED <<curriculum, grades>>
  BY <1>4, LibraryCalls
<1> QED
  BY <1>1, <1>2, <1>3, <1>4 DEF Next

LEMMA Invariant == Spec => []IInv
<1>1. Init => IInv
  BY InitInv
<1>2. IInv /\ [Next]_vars => IInv'
  BY StepKeeps
<1> QED
  BY <1>1, <1>2, PTL DEF Spec

\* An attach that shares its materials' rows and a delete that asks for them in turn: no
\* lesson of a live template ever links a deleted material (SetLessonMaterials, DeleteMaterial).
THEOREM NoDanglingLink == Spec => []LinkedIsLive
<1>1. IInv => LinkedIsLive
  BY DEF IInv
<1> QED
  BY <1>1, Invariant, PTL

\* A class that applies a template shares its row until it commits, and a template is
\* deleted only without a class: what a class has applied is there (Apply, DeleteTemplate).
THEOREM AppliedProgramsLive == Spec => []AppliedTemplateLives
<1>1. IInv => AppliedTemplateLives
  BY DEF IInv
<1> QED
  BY <1>1, Invariant, PTL

\* A publish waits for the content write that holds the version, and the next write finds
\* it published: no step changes the content of a released version (lessonWrite, transition).
THEOREM ReleasesAreFrozen == Spec => ReleasedIsFrozen
<1> DEFINE Step == \A v \in Versions : version[v].status \in {"published", "archived"} =>
                     Content(v)' = Content(v) /\ version'[v].status \in {version[v].status, "archived"}
<1>1. IInv /\ [Next]_vars => [Step]_<<version, lesson>>
  <2> SUFFICES ASSUME IInv, [Next]_vars PROVE Step
    OBVIOUS
  <2>1. Kept
    BY StepKeeps
  <2> SUFFICES ASSUME NEW v \in Versions, version[v].status \in {"published", "archived"}
               PROVE  Content(v)' = Content(v) /\ version'[v].status \in {version[v].status, "archived"}
    OBVIOUS
  <2>2. Released(v)
    BY DEF Released
  <2> QED
    BY <2>1, <2>2, KeptIsFrozen DEF Kept
<1> HIDE DEF Step
<1>2. Spec => [][Step]_<<version, lesson>>
  BY <1>1, Invariant, PTL DEF Spec
<1> QED
  BY <1>2 DEF Step, ReleasedIsFrozen

\* The scores an Apply has looked for are the ones there are when it replaces the
\* components: the advisory lock lets no score in between (SyncTemplateComponents).
THEOREM ScoresOutliveApply == Spec => ScoresSurvive
<1> DEFINE Step == \A c \in Calls : CommitApply(c) => grades'.score = grades.score
<1>1. IInv /\ [Next]_vars => [Step]_vars
  <2> SUFFICES ASSUME IInv, NEW c \in Calls, CommitApply(c) PROVE grades'.score = grades.score
    OBVIOUS
  <2>1. grades' = Synced(c) /\ (HoldsScoring(c) \/ version[call[c].on].extras = 0)
    BY DEF CommitApply, HoldsScoring
  <2>2. CASE version[call[c].on].extras = 0 \/ call[c].known # 0
    <3>1. grades' = grades
      BY <2>1, <2>2 DEF Synced
    <3> QED
      BY <3>1
  <2>3. CASE version[call[c].on].extras # 0 /\ call[c].known = 0
    <3>1. grades.score = 0
      BY <2>1, <2>3 DEF IInv, Applying
    <3>2. grades'.score \in {0, grades.score}
      BY <2>1 DEF Synced
    <3> QED
      BY <3>1, <3>2
  <2> QED
    BY <2>2, <2>3
<1> HIDE DEF Step
<1>2. Spec => [][Step]_vars
  BY <1>1, Invariant, PTL DEF Spec
<1> QED
  BY <1>2 DEF Step, ScoresSurvive

\* The lesson list Apply compares is locked when there is one, so it is the one the commit
\* replaces: a different list goes only with a confirmation (LockCurriculum, PutCurriculum).
THEOREM OnlyConfirmedOverwrites == Spec => OverwritesOnlyConfirmed
<1> DEFINE Step == \A c \in Calls : CommitApply(c) /\ ~call[c].confirm /\ call[c].row = 1 =>
                     curriculum.titles \in {<<>>, curriculum'.titles}
<1>1. IInv /\ [Next]_vars => [Step]_vars
  <2> SUFFICES ASSUME IInv, NEW c \in Calls, CommitApply(c), ~call[c].confirm, call[c].row = 1
               PROVE  curriculum.titles \in {<<>>, curriculum'.titles}
    OBVIOUS
  <2>1. call[c].at \in {"written", "syncing"} /\ curriculum'.titles = Titles(call[c].on)
    BY DEF CommitApply
  <2>2. call[c].op = "apply"
    BY <2>1, AtStage DEF ApplyStages
  <2>3. HoldsCurriculum(c)
    BY <2>1, <2>2 DEF HoldsCurriculum
  <2> QED
    BY <2>1, <2>3 DEF IInv, Applying
<1> HIDE DEF Step
<1>2. Spec => [][Step]_vars
  BY <1>1, Invariant, PTL DEF Spec
<1> QED
  BY <1>2 DEF Step, OverwritesOnlyConfirmed
-----------------------------------------------------------------------------
(* The types: what a row of a lesson may be, and the numbers lessons are given. *)

LessonRows  == [version : Versions \cup {-1, 0}, position : Nat, text : {0, 1}, links : SUBSET Materials]
VersionRows == [status : {"none", "draft", "published", "archived"}, extras : {0, 1}]
Tables      == [Lessons -> LessonRows]

\* What a request read of a lesson and what it attaches are what the tables may hold.
Carried == \A c \in Calls : call[c].source \in LessonRows /\ call[c].links \subseteq Materials

\* A lesson is of a version there is.
Homed == \A l \in Lessons : lesson[l].version > 0 => Exists(lesson[l].version)

TInv == IInv /\ TypeOK /\ Carried /\ Homed

LEMMA Ids ==
  /\ IsFiniteSet(Lessons) /\ \A l \in Lessons : l \in Nat
  /\ IsFiniteSet(Versions) /\ \A v \in Versions : v \in Nat /\ v > 0
<1>1. IsFiniteSet(Lessons) /\ Lessons = 1 .. Cardinality(Lessons) /\ IsFiniteSet(Versions)
  BY LibraryConstants
<1>2. Cardinality(Lessons) \in Nat
  BY <1>1, FS_CardinalityType
<1>3. \A l \in 1 .. Cardinality(Lessons) : l \in Nat
  BY <1>2
<1> QED
  BY <1>1, <1>3, Numbers

LEMMA RowsAre ==
  /\ NoLesson \in LessonRows /\ GoneLesson \in LessonRows
  /\ NoLesson.version = 0 /\ GoneLesson.version = -1
BY DEF NoLesson, GoneLesson, LessonRows

\* A row that gets another place, text, links or version is a row.
LEMMA Replaced ==
  ASSUME NEW row \in LessonRows, NEW p \in Nat, NEW new, new = [row EXCEPT !.position = p]
  PROVE  new \in LessonRows /\ new.version = row.version /\ new.position = p
BY DEF LessonRows

LEMMA RowChanges ==
  ASSUME NEW row \in LessonRows
  PROVE  /\ \A p \in Nat : [row EXCEPT !.position = p] \in LessonRows
                           /\ [row EXCEPT !.position = p].version = row.version
                           /\ [row EXCEPT !.position = p].position = p
         /\ [row EXCEPT !.text = 1] \in LessonRows /\ [row EXCEPT !.text = 1].version = row.version
         /\ [row EXCEPT !.text = 1].position = row.position
         /\ \A S \in SUBSET Materials :
              /\ [row EXCEPT !.links = S] \in LessonRows /\ [row EXCEPT !.links = S].version = row.version
              /\ [row EXCEPT !.links = S].position = row.position
         /\ \A v \in Versions :
              /\ [row EXCEPT !.version = v] \in LessonRows /\ [row EXCEPT !.version = v].version = v
              /\ [row EXCEPT !.version = v].position = row.position
BY DEF LessonRows

\* A finite set of natural numbers has a largest member, unless it is empty.
LEMMA Topmost ==
  ASSUME NEW H, H \subseteq Nat, IsFiniteSet(H), H # {}
  PROVE  \E x \in H : \A y \in H : y <= x
<1> DEFINE Above(x) == {y \in H : x <= y}
<1> DEFINE T == {Above(x) : x \in H}
<1>1. IsWellFoundedOn(StrictSubsetOrdering(H), FiniteSubsetsOf(H))
  BY FS_StrictSubsetOrderingWellFounded
<1>2. \A x \in H : Above(x) \in SUBSET H
  OBVIOUS
<1>3. \A x \in H : IsFiniteSet(Above(x))
  <2> HIDE DEF Above
  <2> QED
    BY <1>2, FS_Subset
<1>4. T \subseteq FiniteSubsetsOf(H) /\ T # {}
  <2> HIDE DEF Above
  <2> QED
    BY <1>2, <1>3 DEF FiniteSubsetsOf
<1> HIDE DEF T
<1>5. \E t \in T : \A u \in T : ~ (<<u, t>> \in StrictSubsetOrdering(H))
  BY <1>1, <1>4, WFMin
<1>6. PICK x \in H : \A u \in T : ~ (<<u, Above(x)>> \in StrictSubsetOrdering(H))
  BY <1>5 DEF T
<1>7. ASSUME NEW y \in H, ~ (y <= x) PROVE FALSE
  <2>1. x \in Nat /\ y \in Nat /\ x < y
    BY <1>7
  <2>2. x \in Above(x) /\ x \notin Above(y)
    BY <2>1
  <2>3. Above(y) \subseteq Above(x)
    <3> SUFFICES ASSUME NEW z \in H, y <= z PROVE x <= z
      OBVIOUS
    <3>1. z \in Nat
      OBVIOUS
    <3> QED
      BY <2>1, <3>1
  <2>4. <<Above(y), Above(x)>> \in StrictSubsetOrdering(H)
    BY <2>2, <2>3 DEF StrictSubsetOrdering
  <2> QED
    BY <1>6, <2>4 DEF T
<1> QED
  BY <1>7

LEMMA LargestIs ==
  ASSUME NEW S, S \subseteq Nat, IsFiniteSet(S)
  PROVE  Largest(S) \in S \cup {0} /\ \A m \in S : m <= Largest(S)
<1>1. \E n \in S \cup {0} : \A m \in S : m <= n
  <2>1. CASE S = {}
    BY <2>1
  <2>2. CASE S # {}
    BY <2>2, Topmost
  <2> QED
    BY <2>1, <2>2
<1> QED
  BY <1>1 DEF Largest

\* Only the smallest unused id is among the first one.
LEMMA FirstUnused ==
  ASSUME NEW l \in Fresh(1), NEW m \in Fresh(1), TypeOK
  PROVE  l = m
<1>1. ASSUME NEW x \in Fresh(1), NEW y \in Fresh(1), x < y PROVE FALSE
  <2> DEFINE S == {z \in Unused : z < y}
  <2>1. x \in S /\ S \subseteq Lessons
    BY <1>1 DEF Fresh, Unused
  <2>2. IsFiniteSet(S)
    BY <2>1, Ids, FS_Subset
  <2>3. Cardinality(S) < 1 /\ Cardinality(S) \in Nat
    BY <2>2, FS_CardinalityType DEF Fresh
  <2>4. S = {}
    BY <2>2, <2>3, FS_EmptySet
  <2> QED
    BY <2>1, <2>4
<1>2. l \in Nat /\ m \in Nat
  BY Ids DEF Fresh, Unused
<1> QED
  BY <1>1, <1>2

\* Renumbering gives distinct numbers to the lessons of a version and changes nothing else.
LEMMA RenumberKeeps ==
  ASSUME NEW table \in Tables, Unique(table), NEW v \in Versions
  PROVE  /\ Renumber(table, v) \in Tables /\ Unique(Renumber(table, v))
         /\ \A l \in Lessons : Renumber(table, v)[l].version = table[l].version
<1> DEFINE before(l) == {m \in Lessons : table[m].version = v /\ table[m].position < table[l].position}
<1> DEFINE r == Renumber(table, v)
<1>1. \A l \in Lessons : table[l] \in LessonRows
  BY DEF Tables
<1>2. ASSUME NEW l \in Lessons PROVE IsFiniteSet(before(l)) /\ Cardinality(before(l)) \in Nat
  <2>1. before(l) \subseteq Lessons
    OBVIOUS
  <2> HIDE DEF before
  <2> QED
    BY <2>1, Ids, FS_Subset, FS_CardinalityType
<1>3. \A l \in Lessons :
        r[l] = IF table[l].version # v THEN table[l]
               ELSE [table[l] EXCEPT !.position = 1 + Cardinality(before(l))]
  BY DEF Renumber
<1>4. DOMAIN r = Lessons /\ r = [l \in Lessons |-> r[l]]
  BY DEF Renumber
<1>5. ASSUME NEW l \in Lessons, NEW m \in Lessons, table[l].version = v, table[m].version = v,
             table[l].position < table[m].position
      PROVE  Cardinality(before(l)) < Cardinality(before(m))
  <2>1. table[l].position \in Nat /\ table[m].position \in Nat
    BY <1>1 DEF LessonRows
  <2>2. before(l) \subseteq before(m)
    <3> SUFFICES ASSUME NEW x \in Lessons, table[x].position < table[l].position
                 PROVE  table[x].position < table[m].position
      OBVIOUS
    <3>1. table[x].position \in Nat
      BY <1>1 DEF LessonRows
    <3> QED
      BY <1>5, <2>1, <3>1
  <2>3. l \in before(m) /\ l \notin before(l)
    BY <1>5, <2>1
  <2>4. IsFiniteSet(before(m)) /\ Cardinality(before(l)) \in Nat /\ Cardinality(before(m)) \in Nat
    BY <1>2
  <2> HIDE DEF before
  <2>5. /\ Cardinality(before(l)) <= Cardinality(before(m))
        /\ Cardinality(before(l)) # Cardinality(before(m))
    BY <2>2, <2>3, <2>4, FS_Subset
  <2> QED
    BY <2>4, <2>5
<1> HIDE DEF before, r
<1>6. ASSUME NEW l \in Lessons
      PROVE  /\ r[l] \in LessonRows /\ r[l].version = table[l].version
             /\ r[l].position = IF table[l].version # v THEN table[l].position
                                ELSE 1 + Cardinality(before(l))
  <2>1. table[l] \in LessonRows /\ 1 + Cardinality(before(l)) \in Nat
    BY <1>1, <1>2
  <2>2. CASE table[l].version # v
    BY <1>3, <2>1, <2>2
  <2>3. CASE table[l].version = v
    <3>1. r[l] = [table[l] EXCEPT !.position = 1 + Cardinality(before(l))]
      BY <1>3, <2>3
    <3> QED
      BY <2>1, <2>3, <3>1, Replaced
  <2> QED
    BY <2>2, <2>3
<1>7. r \in Tables
  BY <1>4, <1>6 DEF Tables
<1>8. ASSUME NEW l \in Lessons, NEW m \in Lessons, l # m, r[l].version > 0, r[l].version = r[m].version
      PROVE  r[l].position # r[m].position
  <2>1. table[l].version = table[m].version /\ table[l].version > 0
        /\ table[l].position # table[m].position
    BY <1>6, <1>8 DEF Unique
  <2>2. CASE table[l].version # v
    BY <1>6, <2>1, <2>2
  <2>3. CASE table[l].version = v
    <3>1. table[l].position \in Nat /\ table[m].position \in Nat
      BY <1>1 DEF LessonRows
    <3>2. table[l].position < table[m].position \/ table[m].position < table[l].position
      BY <2>1, <3>1
    <3>3. table[m].version = v
      BY <2>1, <2>3
    <3>4. \/ Cardinality(before(l)) < Cardinality(before(m))
          \/ Cardinality(before(m)) < Cardinality(before(l))
      BY <1>5, <2>3, <3>2, <3>3
    <3>5. Cardinality(before(l)) \in Nat /\ Cardinality(before(m)) \in Nat
      BY <1>2
    <3>6. 1 + Cardinality(before(l)) # 1 + Cardinality(before(m))
      BY <3>4, <3>5
    <3> QED
      BY <1>6, <2>3, <3>3, <3>6
  <2> QED
    BY <2>2, <2>3
<1> QED
  BY <1>6, <1>7, <1>8 DEF Unique, r
-----------------------------------------------------------------------------
(* The types: each write of lessons. *)

\* A write of the content of v: the rows are rows, no two share a place, and the lessons
\* that are not as before are of v, or deleted.
Rewrites(v) ==
  /\ lesson' \in Tables /\ Unique(lesson')
  /\ \A l \in Lessons : lesson'[l].version \in {lesson[l].version, v, -1}

LEMMA TablesAre ==
  ASSUME TInv
  PROVE  lesson \in Tables /\ Unique(lesson) /\ \A l \in Lessons : lesson[l] \in LessonRows
BY DEF TInv, TypeOK, LibraryTypeOK, Tables, LessonRows

\* A table of which one row changed but for its place and version.
LEMMA OneRow ==
  ASSUME TInv, NEW k \in Lessons, NEW row \in LessonRows, NEW v,
         row.version = lesson[k].version, row.position = lesson[k].position,
         lesson' = [lesson EXCEPT ![k] = row]
  PROVE  Rewrites(v)
<1>1. lesson' \in Tables
  BY TablesAre DEF Tables
<1>2. \A l \in Lessons : lesson'[l].version = lesson[l].version /\ lesson'[l].position = lesson[l].position
  BY TablesAre DEF Tables
<1>3. Unique(lesson')
  BY <1>2, TablesAre DEF Unique
<1> QED
  BY <1>1, <1>2, <1>3 DEF Rewrites

LEMMA LessonsStay ==
  ASSUME TInv, lesson' = lesson, NEW v
  PROVE  Rewrites(v)
BY TablesAre DEF Rewrites

LEMMA CreateTyped ==
  ASSUME TInv, NEW c \in Calls, CreateLesson(c)
  PROVE  Rewrites(call[c].on)
<1> DEFINE v == call[c].on
<1> DEFINE places == {lesson[m].position : m \in Of(v)}
<1>1. v \in Versions /\ v \in Nat /\ v > 0
  BY Ids DEF CreateLesson, Commit, TInv, IInv, Shapes
<1>2. places \subseteq Nat /\ IsFiniteSet(places)
  <2>1. IsFiniteSet(Of(v)) /\ Of(v) \subseteq Lessons
    BY Ids, FS_Subset DEF Of
  <2>2. \A m \in Of(v) : lesson[m].position \in Nat
    BY <2>1, TablesAre DEF LessonRows
  <2>3. IsFiniteSet({lesson[m].position : m \in Of(v)})
    <3> DEFINE T == {lesson[m].position : m \in Of(v)}
    <3> DEFINE f == [m \in Of(v) |-> lesson[m].position]
    <3>1. f \in Surjection(Of(v), T)
      BY DEF Surjection
    <3> HIDE DEF f, T
    <3>2. IsFiniteSet(T)
      BY <2>1, <3>1, FS_Surjection
    <3> QED
      BY <3>2 DEF T
  <2>4. places \subseteq Nat
    BY <2>2
  <2> QED
    BY <2>3, <2>4
<1>3. PICK p \in Nat : p = 1 + Largest(places) /\ \A q \in places : q \in Nat /\ q < p
  <2> HIDE DEF places
  <2> DEFINE top == Largest(places)
  <2>1. top \in places \cup {0} /\ \A q \in places : q <= top
    BY <1>2, LargestIs
  <2> HIDE DEF top
  <2>2. top \in Nat
    <3>1. places \subseteq Nat
      BY <1>2
    <3>2. CASE top \in places
      BY <3>1, <3>2
    <3>3. CASE top = 0
      BY <3>3
    <3> QED
      BY <2>1, <3>2, <3>3
  <2>3. \A q \in places : q \in Nat /\ q <= top
    BY <1>2, <2>1
  <2>4. 1 + top \in Nat /\ \A q \in places : q \in Nat /\ q < 1 + top
    BY <2>2, <2>3
  <2> QED
    BY <2>4 DEF top
<1> DEFINE row == [NoLesson EXCEPT !.version = v, !.position = p]
<1>4. row \in LessonRows /\ row.version = v /\ row.position = p
  BY <1>1, <1>3 DEF NoLesson, LessonRows
<1>5. lesson' = [l \in Lessons |-> IF l \in Fresh(1) THEN row ELSE lesson[l]]
  BY <1>3 DEF CreateLesson
<1> HIDE DEF row, places
<1>6. lesson' \in Tables
  BY <1>4, <1>5, TablesAre DEF Tables
<1>7. ASSUME NEW l \in Lessons, NEW m \in Lessons, l # m, lesson'[l].version > 0,
             lesson'[l].version = lesson'[m].version
      PROVE  lesson'[l].position # lesson'[m].position
  <2>1. ASSUME NEW x \in Lessons, x \notin Fresh(1), lesson'[x].version = v
        PROVE  lesson'[x].position \in places
    BY <1>5, <2>1 DEF Of, places
  <2>2. CASE l \in Fresh(1)
    <3>1. m \notin Fresh(1)
      BY <1>7, <2>2, FirstUnused DEF TInv
    <3> QED
      BY <1>3, <1>4, <1>5, <1>7, <2>1, <2>2, <3>1
  <2>3. CASE l \notin Fresh(1) /\ m \in Fresh(1)
    BY <1>3, <1>4, <1>5, <1>7, <2>1, <2>3
  <2>4. CASE l \notin Fresh(1) /\ m \notin Fresh(1)
    BY <1>5, <1>7, <2>4, TablesAre DEF Unique
  <2> QED
    BY <2>2, <2>3, <2>4
<1>8. \A l \in Lessons : lesson'[l].version \in {lesson[l].version, v, -1}
  BY <1>4, <1>5
<1> QED
  BY <1>6, <1>7, <1>8 DEF Rewrites, Unique

LEMMA ReorderTyped ==
  ASSUME TInv, NEW c \in Calls, ReorderLessons(c)
  PROVE  Rewrites(call[c].on)
<1> DEFINE v == call[c].on
<1>1. PICK order \in [Of(v) -> 1 .. Cardinality(Of(v))] :
        /\ \A l, m \in Of(v) : l # m => order[l] # order[m]
        /\ lesson' = [l \in Lessons |->
             IF l \in Of(v) THEN [lesson[l] EXCEPT !.position = order[l]] ELSE lesson[l]]
  BY DEF ReorderLessons
<1>2. Cardinality(Of(v)) \in Nat
  BY Ids, FS_Subset, FS_CardinalityType DEF Of
<1>3. \A l \in Of(v) : order[l] \in Nat
  BY <1>1, <1>2
<1>4. ASSUME NEW l \in Lessons
      PROVE  /\ lesson'[l] \in LessonRows /\ lesson'[l].version = lesson[l].version
             /\ lesson'[l].position = IF l \in Of(v) THEN order[l] ELSE lesson[l].position
  <2>1. lesson[l] \in LessonRows
    BY TablesAre
  <2>2. CASE l \in Of(v)
    <3>1. lesson'[l] = [lesson[l] EXCEPT !.position = order[l]] /\ order[l] \in Nat
      BY <1>1, <1>3, <2>2
    <3> QED
      BY <2>1, <2>2, <3>1, Replaced
  <2>3. CASE l \notin Of(v)
    BY <1>1, <2>1, <2>3
  <2> QED
    BY <2>2, <2>3
<1>5. lesson' \in Tables
  BY <1>1, <1>4 DEF Tables
<1>6. \A l \in Lessons : l \in Of(v) <=> lesson[l].version = v
  BY DEF Of
<1>7. ASSUME NEW l \in Lessons, NEW m \in Lessons, l # m, lesson'[l].version > 0,
             lesson'[l].version = lesson'[m].version
      PROVE  lesson'[l].position # lesson'[m].position
  <2>1. lesson[l].version = lesson[m].version /\ lesson[l].version > 0
    BY <1>4, <1>7
  <2>2. CASE l \in Of(v)
    <3>1. m \in Of(v) /\ lesson'[l].position = order[l]
      BY <1>4, <1>6, <2>1, <2>2
    <3>2. lesson'[m].position = order[m] /\ order[l] # order[m]
      BY <1>1, <1>4, <1>7, <2>2, <3>1
    <3> QED
      BY <3>1, <3>2
  <2>3. CASE l \notin Of(v)
    BY <1>4, <1>6, <1>7, <2>1, <2>3, TablesAre DEF Unique
  <2> QED
    BY <2>2, <2>3
<1> QED
  BY <1>4, <1>5, <1>7 DEF Rewrites, Unique

LEMMA DeleteTyped ==
  ASSUME TInv, NEW c \in Calls, DeleteLesson(c)
  PROVE  Rewrites(call[c].on)
<1> DEFINE v == call[c].on
<1>1. v \in Versions /\ call[c].lesson \in Lessons
  BY DEF DeleteLesson, Commit, TInv, IInv, Shapes
<1>2. CASE ~Stays(c)
  BY <1>2, LessonsStay DEF DeleteLesson
<1>3. CASE Stays(c)
  <2> DEFINE table == [lesson EXCEPT ![call[c].lesson] = GoneLesson]
  <2>1. table \in Tables /\ \A l \in Lessons : table[l] = IF l = call[c].lesson THEN GoneLesson ELSE lesson[l]
    BY <1>1, RowsAre, TablesAre DEF Tables
  <2>2. lesson' = Renumber(table, v)
    BY <1>3 DEF DeleteLesson
  <2> HIDE DEF table
  <2>3. ASSUME NEW l \in Lessons, NEW m \in Lessons, l # m, table[l].version > 0,
               table[l].version = table[m].version
        PROVE  table[l].position # table[m].position
    <3>1. table[l] = lesson[l] /\ table[m] = lesson[m]
      BY <2>1, <2>3, RowsAre
    <3> QED
      BY <2>3, <3>1, TablesAre DEF Unique
  <2>4. Unique(table)
    BY <2>3 DEF Unique
  <2>5. \A l \in Lessons : table[l].version \in {lesson[l].version, -1}
    BY <2>1, RowsAre
  <2> QED
    BY <1>1, <2>1, <2>2, <2>4, <2>5, RenumberKeeps DEF Rewrites
<1> QED
  BY <1>2, <1>3

LEMMA ClearTyped ==
  ASSUME TInv, NEW c \in Calls, ClearLessons(c)
  PROVE  Rewrites(call[c].on)
<1> DEFINE v == call[c].on
<1>1. lesson' = [l \in Lessons |-> IF l \in Of(v) THEN GoneLesson ELSE lesson[l]]
  BY DEF ClearLessons
<1>2. lesson' \in Tables
  BY <1>1, RowsAre, TablesAre DEF Tables
<1>3. ASSUME NEW l \in Lessons, NEW m \in Lessons, l # m, lesson'[l].version > 0,
             lesson'[l].version = lesson'[m].version
      PROVE  lesson'[l].position # lesson'[m].position
  <2>1. lesson'[l] = lesson[l] /\ lesson'[m] = lesson[m]
    BY <1>1, <1>3, RowsAre
  <2> QED
    BY <1>3, <2>1, TablesAre DEF Unique
<1>4. \A l \in Lessons : lesson'[l].version \in {lesson[l].version, v, -1}
  BY <1>1, RowsAre
<1> QED
  BY <1>2, <1>3, <1>4 DEF Rewrites, Unique

LEMMA DuplicateTyped ==
  ASSUME TInv, NEW c \in Calls, DuplicateLesson(c)
  PROVE  Rewrites(call[c].on)
<1> DEFINE v == call[c].on  src == call[c].source  l == call[c].lesson  new == Fresh(1)
           order == Renumber(lesson, v)
           after == Stays(c)
           copy == [version |-> v, text |-> src.text,
                    position |-> 1 + (IF after THEN order[l].position ELSE src.position),
                    links |-> IF after THEN lesson[l].links ELSE {}]
           Shifted(m) == IF after /\ order[m].version = v /\ order[m].position > order[l].position
                         THEN [order[m] EXCEPT !.position = @ + 1] ELSE order[m]
           table == [m \in Lessons |-> IF m \in new THEN copy ELSE Shifted(m)]
<1>1. lesson' = IF Unique(table) THEN table ELSE lesson
  BY DEF DuplicateLesson
<1>2. v \in Versions /\ l \in Lessons /\ src \in LessonRows
  BY DEF DuplicateLesson, Commit, TInv, IInv, Shapes, Carried
<1>3. /\ \A m \in Lessons : order[m] \in LessonRows /\ order[m].version = lesson[m].version
      /\ lesson[l] \in LessonRows
  <2>1. order \in Tables /\ \A m \in Lessons : order[m].version = lesson[m].version
    <3> HIDE DEF v
    <3> QED
      BY <1>2, RenumberKeeps, TablesAre
  <2> QED
    BY <1>2, <2>1, TablesAre DEF Tables
<1> HIDE DEF order
<1>4. copy \in LessonRows /\ copy.version = v
  <2>1. /\ src.text \in {0, 1} /\ src.position \in Nat /\ order[l].position \in Nat
        /\ lesson[l].links \in SUBSET Materials
    BY <1>2, <1>3 DEF LessonRows
  <2> HIDE DEF src, after
  <2>2. /\ 1 + (IF after THEN order[l].position ELSE src.position) \in Nat
        /\ (IF after THEN lesson[l].links ELSE {}) \in SUBSET Materials
    BY <2>1
  <2> QED
    BY <1>2, <2>1, <2>2 DEF LessonRows
<1> HIDE DEF copy
<1>5. ASSUME NEW m \in Lessons
      PROVE  Shifted(m) \in LessonRows /\ Shifted(m).version = lesson[m].version
  <2>1. order[m].position + 1 \in Nat
    BY <1>3 DEF LessonRows
  <2> QED
    BY <1>3, <2>1, RowChanges
<1> HIDE DEF Shifted
<1>6. table \in Tables /\ \A m \in Lessons : table[m].version \in {lesson[m].version, v, -1}
  BY <1>4, <1>5 DEF Tables
<1> HIDE DEF table
<1> QED
  BY <1>1, <1>6, TablesAre DEF Rewrites
-----------------------------------------------------------------------------
(* The types: every step. *)

Stored ==
  /\ template \in {"live", "deleted"} /\ deleted \subseteq Materials
  /\ version \in [Versions -> VersionRows]
  /\ \A v, w \in Versions : version[v].status = "draft" /\ version[w].status = "draft" => v = w
  /\ lesson \in Tables /\ Unique(lesson)
  /\ Homed

Graded == grades.id \in Nat /\ grades.names \in {-1, 0, 1} /\ grades.score \in {0, grades.id}

LEMMA TypesAre == TInv <=> IInv /\ Stored /\ Graded /\ Carried
BY DEF TInv, TypeOK, LibraryTypeOK, IInv, Shapes, Stored, Graded, Tables, LessonRows, VersionRows

LEMMA ContentStored ==
  ASSUME TInv, NEW c \in Calls,
         \/ CreateLesson(c) \/ UpdateLesson(c) \/ DeleteLesson(c) \/ ReorderLessons(c)
         \/ DuplicateLesson(c) \/ ClearLessons(c) \/ SetExtras(c) \/ ReplaceLessonMaterials(c)
  PROVE  Stored'
<1> DEFINE v == call[c].on
<1>1. /\ call[c].at = "version locked" /\ v \in Versions /\ version[v].status = "draft"
      /\ UNCHANGED <<template, deleted>>
  BY DEF CreateLesson, UpdateLesson, DeleteLesson, ReorderLessons, DuplicateLesson, ClearLessons,
         SetExtras, ReplaceLessonMaterials, Commit, TInv, IInv, Shapes, Drafting
<1>2. Stored
  BY TypesAre
<1>3. /\ version' \in [Versions -> VersionRows]
      /\ \A w \in Versions : version'[w].status = version[w].status
  <2>1. CASE SetExtras(c)
    BY <1>2, <2>1 DEF SetExtras, Stored, VersionRows
  <2>2. CASE ~SetExtras(c)
    <3>1. version' = version
      BY <2>2 DEF CreateLesson, UpdateLesson, DeleteLesson, ReorderLessons, DuplicateLesson,
                  ClearLessons, ReplaceLessonMaterials
    <3> QED
      BY <1>2, <3>1 DEF Stored
  <2> QED
    BY <2>1, <2>2
<1>4. Rewrites(v)
  <2>1. CASE UpdateLesson(c)
    <3>1. CASE Stays(c)
      <4>1. call[c].lesson \in Lessons
        BY <2>1 DEF UpdateLesson, Commit, TInv, IInv, Shapes
      <4>2. lesson' = [lesson EXCEPT ![call[c].lesson] = [lesson[call[c].lesson] EXCEPT !.text = 1]]
        BY <2>1, <3>1 DEF UpdateLesson
      <4> QED
        BY <4>1, <4>2, OneRow, RowChanges, TablesAre
    <3>2. CASE ~Stays(c)
      BY <2>1, <3>2, LessonsStay DEF UpdateLesson
    <3> QED
      BY <3>1, <3>2
  <2>2. CASE ReplaceLessonMaterials(c)
    <3>1. call[c].lesson \in Lessons /\ call[c].links \in SUBSET Materials
      BY <2>2 DEF ReplaceLessonMaterials, Commit, TInv, IInv, Shapes, Carried
    <3>2. lesson' = [lesson EXCEPT ![call[c].lesson] = [lesson[call[c].lesson] EXCEPT !.links = call[c].links]]
      BY <2>2 DEF ReplaceLessonMaterials
    <3> DEFINE k == call[c].lesson
    <3> DEFINE row == [lesson[k] EXCEPT !.links = call[c].links]
    <3>3. row \in LessonRows /\ row.version = lesson[k].version /\ row.position = lesson[k].position
      <4>1. lesson[k] \in LessonRows
        BY <3>1, TablesAre
      <4> QED
        BY <3>1, <4>1, RowChanges
    <3>4. k \in Lessons /\ lesson' = [lesson EXCEPT ![k] = row]
      BY <3>1, <3>2
    <3> HIDE DEF row, k
    <3> QED
      BY <3>3, <3>4, OneRow
  <2>3. CASE SetExtras(c)
    BY <2>3, LessonsStay DEF SetExtras
  <2> QED
    BY <2>1, <2>2, <2>3, CreateTyped, DeleteTyped, ReorderTyped, DuplicateTyped, ClearTyped
<1>5. \A l \in Lessons : lesson'[l].version > 0 => version'[lesson'[l].version].status # "none"
  <2> SUFFICES ASSUME NEW l \in Lessons, lesson'[l].version > 0
               PROVE  version'[lesson'[l].version].status # "none"
    OBVIOUS
  <2>1. lesson'[l].version \in Versions
    <3>1. lesson'[l] \in LessonRows
      BY <1>4 DEF Rewrites, Tables
    <3> QED
      BY <3>1 DEF LessonRows
  <2>2. lesson'[l].version = v \/ lesson'[l].version = lesson[l].version
    BY <1>4 DEF Rewrites
  <2> QED
    BY <1>1, <1>2, <1>3, <2>1, <2>2 DEF Stored, Homed, Exists
<1> QED
  BY <1>1, <1>2, <1>3, <1>4, <1>5 DEF Stored, Rewrites, Unique, Homed, Exists

LEMMA CopyStored ==
  ASSUME TInv, NEW c \in Calls, CopyVersionContent(c)
  PROVE  Stored'
<1> DEFINE v == call[c].on
<1> DEFINE shown == {w \in Versions : version[w].status \in {"published", "archived"}}
<1> DEFINE released == Largest(shown)
<1> DEFINE origin == IF released > 0 THEN Of(released) ELSE {}
<1> DEFINE copies == Fresh(Cardinality(origin))
<1> DEFINE extras == IF released = 0 THEN 0 ELSE version[released].extras
<1>1. v \in Versions /\ v > 0 /\ UNCHANGED <<template, deleted>>
  BY Ids DEF CopyVersionContent, TInv, IInv, Shapes
<1>2. Stored
  BY TypesAre
<1>3. CASE Exists(v) \/ \E w \in Versions : version[w].status = "draft"
  <2>1. version' = version /\ lesson' = lesson
    BY <1>3 DEF CopyVersionContent
  <2> QED
    BY <1>1, <1>2, <2>1 DEF Stored, Unique, Homed, Exists
<1>4. CASE ~ (Exists(v) \/ \E w \in Versions : version[w].status = "draft")
  <2>1. version' = [version EXCEPT ![v] = [status |-> "draft", extras |-> extras]]
    BY <1>4 DEF CopyVersionContent
  <2>2. PICK from \in Injection(copies, origin) :
          lesson' = [l \in Lessons |-> IF l \in copies THEN [lesson[from[l]] EXCEPT !.version = v] ELSE lesson[l]]
    BY <1>4 DEF CopyVersionContent
  <2>3. released \in Versions \cup {0}
    <3>1. shown \subseteq Versions /\ shown \subseteq Nat
      BY Ids
    <3>2. IsFiniteSet(shown)
      BY <3>1, Ids, FS_Subset
    <3> HIDE DEF shown
    <3> QED
      BY <3>1, <3>2, LargestIs
  <2> HIDE DEF released
  <2>4. extras \in {0, 1}
    BY <1>2, <2>3 DEF Stored, VersionRows
  <2> HIDE DEF extras
  <2>5. /\ version' \in [Versions -> VersionRows]
        /\ \A u, w \in Versions : version'[u].status = "draft" /\ version'[w].status = "draft" => u = w
        /\ version'[v].status = "draft" /\ \A w \in Versions \ {v} : version'[w] = version[w]
    BY <1>1, <1>2, <1>4, <2>1, <2>4 DEF Stored, VersionRows
  <2>6. /\ \A l \in copies : from[l] \in origin
        /\ \A l, m \in copies : l # m => from[l] # from[m]
    <3> HIDE DEF copies, origin
    <3> QED
      BY <2>2 DEF Injection, IsInjective
  <2>7. copies \subseteq Lessons
    BY DEF Fresh, Unused
  <2>8. \A l \in origin : l \in Lessons /\ lesson[l].version = released /\ released > 0
    BY DEF Of
  <2> HIDE DEF copies, origin
  <2>9. ASSUME NEW l \in Lessons
        PROVE  /\ lesson'[l] \in LessonRows
               /\ l \in copies => lesson'[l].version = v /\ lesson'[l].position = lesson[from[l]].position
               /\ l \notin copies => lesson'[l] = lesson[l]
    <3>1. CASE l \in copies
      <4>1. lesson'[l] = [lesson[from[l]] EXCEPT !.version = v] /\ lesson[from[l]] \in LessonRows
        BY <2>2, <2>6, <2>8, <3>1, TablesAre
      <4> DEFINE row == lesson[from[l]]
      <4>2. /\ [row EXCEPT !.version = v] \in LessonRows /\ [row EXCEPT !.version = v].version = v
            /\ [row EXCEPT !.version = v].position = row.position
        <5>1. row \in LessonRows
          BY <4>1
        <5> HIDE DEF row
        <5> QED
          BY <1>1, <5>1, RowChanges
      <4> QED
        BY <3>1, <4>1, <4>2
    <3>2. CASE l \notin copies
      BY <2>2, <3>2, TablesAre
    <3> QED
      BY <3>1, <3>2
  <2>10. lesson' \in Tables
    BY <2>2, <2>9 DEF Tables
  <2>11. \A l \in Lessons : lesson[l].version # v
    BY <1>1, <1>2, <1>4 DEF Stored, Homed
  <2>12. ASSUME NEW l \in Lessons, NEW m \in Lessons, l # m, lesson'[l].version > 0,
                lesson'[l].version = lesson'[m].version
         PROVE  lesson'[l].position # lesson'[m].position
    <3>1. CASE l \in copies
      <4>1. m \in copies
        BY <2>9, <2>11, <2>12, <3>1
      <4>2. /\ from[l] \in Lessons /\ from[m] \in Lessons /\ from[l] # from[m]
            /\ lesson[from[l]].version = lesson[from[m]].version /\ lesson[from[l]].version > 0
        BY <2>6, <2>8, <2>12, <3>1, <4>1
      <4> QED
        BY <1>2, <2>9, <3>1, <4>1, <4>2 DEF Stored, Unique
    <3>2. CASE l \notin copies
      <4>1. m \notin copies
        BY <2>9, <2>11, <2>12, <3>2
      <4> QED
        BY <1>2, <2>9, <2>12, <3>2, <4>1 DEF Stored, Unique
    <3> QED
      BY <3>1, <3>2
  <2>13. ASSUME NEW l \in Lessons, lesson'[l].version > 0
         PROVE  version'[lesson'[l].version].status # "none"
    <3>1. CASE l \in copies
      BY <2>5, <2>9, <3>1
    <3>2. CASE l \notin copies
      <4>1. lesson[l].version \in Versions
        <5>1. lesson[l] \in LessonRows /\ lesson[l].version > 0
          BY <2>9, <2>13, <3>2, TablesAre
        <5> QED
          BY <5>1 DEF LessonRows
      <4> QED
        BY <1>2, <2>5, <2>9, <2>11, <2>13, <3>2, <4>1 DEF Stored, Homed, Exists
    <3> QED
      BY <3>1, <3>2
  <2> QED
    BY <1>1, <1>2, <2>5, <2>10, <2>12, <2>13 DEF Stored, Unique, Homed, Exists
<1> QED
  BY <1>3, <1>4
LEMMA NothingStored ==
  ASSUME TInv, UNCHANGED library
  PROVE  Stored'
<1>1. Stored
  BY TypesAre
<1> QED
  BY <1>1 DEF library, Stored, Unique, Homed, Exists

LEMMA CarriedOn ==
  ASSUME TInv, NEW c \in Calls, NEW r, call' = [call EXCEPT ![c] = r],
         r.source \in LessonRows, r.links \subseteq Materials
  PROVE  Carried'
<1>1. DOMAIN call = Calls /\ Carried
  BY DEF TInv, IInv, Shapes
<1> QED
  BY <1>1 DEF Carried

LEMMA CarriedAsBefore ==
  ASSUME TInv, NEW c \in Calls, NEW r, call' = [call EXCEPT ![c] = r],
         r.source = call[c].source, r.links = call[c].links
  PROVE  Carried'
<1>1. r.source \in LessonRows /\ r.links \subseteq Materials
  BY DEF TInv, Carried
<1> QED
  BY <1>1, CarriedOn

\* A request that carries no lesson: a new one, or one that is done.
LEMMA IdleCarries ==
  /\ Idle.source \in LessonRows /\ Idle.links = {}
  /\ Done.source \in LessonRows /\ Done.links = {}
BY RowsAre DEF Idle, Done

LEMMA CarriedEnds ==
  ASSUME TInv, NEW c \in Calls, Finish(c)
  PROVE  Carried'
BY IdleCarries, CarriedOn DEF Finish

LEMMA LibraryCallTyped ==
  ASSUME TInv, NEW c \in Calls, LibraryCall(c)
  PROVE  Stored' /\ Carried'
<1>1. CASE \/ CreateLesson(c) \/ UpdateLesson(c) \/ DeleteLesson(c) \/ ReorderLessons(c)
           \/ DuplicateLesson(c) \/ ClearLessons(c) \/ SetExtras(c) \/ ReplaceLessonMaterials(c)
  <2>1. Finish(c)
    BY <1>1 DEF CreateLesson, UpdateLesson, DeleteLesson, ReorderLessons, DuplicateLesson, ClearLessons,
               SetExtras, ReplaceLessonMaterials, Commit
  <2> QED
    BY <1>1, <2>1, ContentStored, CarriedEnds
<1>2. CASE CopyVersionContent(c)
  <2>1. Finish(c)
    BY <1>2 DEF CopyVersionContent
  <2> QED
    BY <1>2, <2>1, CopyStored, CarriedEnds
<1>3. CASE CreateVersion(c)
  <2> DEFINE r == [Idle EXCEPT !.at = "numbered", !.op = "create version", !.on = Latest + 1]
  <2>1. call' = [call EXCEPT ![c] = r] /\ UNCHANGED library
    BY <1>3 DEF CreateVersion
  <2>2. r.source = Idle.source /\ r.links = Idle.links
    BY DEF Idle
  <2> HIDE DEF r
  <2> QED
    BY <2>1, <2>2, IdleCarries, CarriedOn, NothingStored
<1>4. ASSUME NEW v \in Versions, NEW op, WriteVersion(c, v, op)
      PROVE  Stored' /\ Carried'
  <2> DEFINE r == [Idle EXCEPT !.at = "found", !.op = op, !.on = v]
  <2>1. call' = [call EXCEPT ![c] = r] /\ UNCHANGED library
    BY <1>4 DEF WriteVersion
  <2>2. r.source = Idle.source /\ r.links = Idle.links
    BY DEF Idle
  <2> HIDE DEF r
  <2> QED
    BY <2>1, <2>2, IdleCarries, CarriedOn, NothingStored
<1>5. ASSUME NEW l \in Lessons, NEW op, NEW S \in SUBSET Materials, WriteLesson(c, l, op, S)
      PROVE  Stored' /\ Carried'
  <2> DEFINE r == [Idle EXCEPT !.at = "found", !.op = op, !.on = lesson[l].version,
                               !.lesson = l, !.source = lesson[l], !.links = S]
  <2>1. call' = [call EXCEPT ![c] = r] /\ UNCHANGED library
    BY <1>5 DEF WriteLesson
  <2>2. r.source = lesson[l] /\ r.links = S
    BY DEF Idle
  <2> HIDE DEF r
  <2> QED
    BY <2>1, <2>2, CarriedOn, NothingStored, TablesAre
<1>6. CASE LockVersion(c)
  <2>1. UNCHANGED library /\ (Goto(c, "version locked") \/ Finish(c))
    BY <1>6 DEF LockVersion
  <2>2. CASE Goto(c, "version locked")
    <3> DEFINE r == [call[c] EXCEPT !.at = "version locked"]
    <3>1. call' = [call EXCEPT ![c] = r]
      BY <2>2 DEF Goto, TInv, IInv, Shapes
    <3>2. DOMAIN call[c] = CallFields
      BY DEF TInv, IInv, Shapes
    <3>3. r.source = call[c].source /\ r.links = call[c].links
      BY <3>2 DEF CallFields
    <3> HIDE DEF r
    <3> QED
      BY <2>1, <3>1, <3>3, CarriedAsBefore, NothingStored
  <2> QED
    BY <2>1, <2>2, CarriedEnds, NothingStored
<1>7. {} \in SUBSET Materials
  OBVIOUS
<1> QED
  BY <1>1, <1>2, <1>3, <1>4, <1>5, <1>6, <1>7 DEF LibraryCall

LEMMA LibraryStepTyped ==
  ASSUME TInv, LibraryStep
  PROVE  Stored' /\ Carried'
<1>1. Stored /\ Carried
  BY TypesAre
<1>2. ASSUME NEW v \in Versions, Publish(v) \/ Archive(v) PROVE Stored' /\ Carried'
  <2>1. /\ UNCHANGED <<template, lesson, deleted, program, call>>
        /\ \E s \in {"published", "archived"} : version' = [version EXCEPT ![v].status = s]
        /\ version[v].status \in {"draft", "published"}
    BY <1>2 DEF Publish, Archive, Transition
  <2>2. /\ version' \in [Versions -> VersionRows]
        /\ version'[v].status \in {"published", "archived"}
        /\ \A w \in Versions \ {v} : version'[w] = version[w]
    BY <1>1, <2>1 DEF Stored, VersionRows
  <2>3. \A l \in Lessons : lesson'[l].version > 0 => version'[lesson'[l].version].status # "none"
    <3> SUFFICES ASSUME NEW l \in Lessons, lesson[l].version > 0
                 PROVE  version'[lesson[l].version].status # "none"
      BY <2>1
    <3>1. lesson[l].version \in Versions
      <4>1. lesson[l] \in LessonRows
        BY TablesAre
      <4> QED
        BY <4>1 DEF LessonRows
    <3> QED
      BY <1>1, <2>2, <3>1 DEF Stored, Homed, Exists
  <2>4. \A u, w \in Versions : version'[u].status = "draft" /\ version'[w].status = "draft" => u = w
    BY <1>1, <2>2 DEF Stored
  <2> QED
    BY <1>1, <2>1, <2>2, <2>3, <2>4 DEF Stored, Carried, Unique, Homed, Exists
<1>3. ASSUME NEW m \in Materials, DeleteMaterial(m) PROVE Stored' /\ Carried'
  BY <1>1, <1>3 DEF DeleteMaterial, Stored, Carried, Unique, Homed, Exists
<1>4. ASSUME DeleteTemplate PROVE Stored' /\ Carried'
  BY <1>1, <1>4 DEF DeleteTemplate, Stored, Carried, Unique, Homed, Exists
<1> QED
  BY <1>2, <1>3, <1>4 DEF LibraryStep

\* What an apply or a teacher does to the scores: a score is of a component the class has.
LEMMA GradedStays ==
  ASSUME TInv, ClassStep
  PROVE  Graded'
<1>1. Graded /\ Stored /\ DOMAIN grades = {"id", "names", "score"}
  BY TypesAre DEF IInv, Shapes
<1>2. ASSUME NEW c \in Calls, CommitApply(c) PROVE Graded'
  <2> DEFINE names == version[call[c].on].extras
  <2>1. call[c].on \in Versions
    BY <1>2 DEF CommitApply, TInv, IInv, Shapes, ApplyStages
  <2>2. names \in {0, 1}
    BY <1>1, <2>1 DEF Stored, VersionRows
  <2>3. grades' = grades \/ grades' = [id |-> grades.id + 1, names |-> names, score |-> 0]
    BY <1>2 DEF CommitApply, Synced
  <2> HIDE DEF names
  <2> QED
    BY <1>1, <2>2, <2>3 DEF Graded
<1>3. ASSUME NEW c \in Calls, PutSessionScores(c) PROVE Graded'
  <2>1. grades' = grades \/ \E score \in {0, grades.id} : grades' = [grades EXCEPT !.score = score]
    BY <1>3 DEF PutSessionScores
  <2> QED
    BY <1>1, <2>1 DEF Graded
<1>4. CASE grades' = grades
  BY <1>1, <1>4 DEF Graded
<1> QED
  BY <1>2, <1>3, <1>4 DEF ClassStep, LockCurriculum, UpsertProgram, LockClassForScoring, ApplyFails,
     GetSessionScores, Apply, Remove, PutCurriculum, class

LEMMA ClassCarries ==
  ASSUME TInv, ClassStep
  PROVE  Stored' /\ Carried'
<1>1. UNCHANGED library
  BY DEF ClassStep, LockCurriculum, UpsertProgram, LockClassForScoring, CommitApply, ApplyFails,
     GetSessionScores, PutSessionScores, Apply, Remove, PutCurriculum
<1>2. DOMAIN call = Calls /\ \A c \in Calls : DOMAIN call[c] = CallFields
  BY DEF TInv, IInv, Shapes
<1>3. ASSUME NEW c \in Calls, NEW v, NEW confirm, Apply(c, v, confirm) PROVE Carried'
  <2> DEFINE r == [Idle EXCEPT !.at = "template locked", !.op = "apply", !.on = v, !.confirm = confirm]
  <2>1. call' = [call EXCEPT ![c] = r] /\ r.source = Idle.source /\ r.links = Idle.links
    BY <1>3 DEF Apply, Idle
  <2> HIDE DEF r
  <2> QED
    BY <2>1, IdleCarries, CarriedOn
<1>4. ASSUME NEW c \in Calls, GetSessionScores(c) PROVE Carried'
  <2> DEFINE r == [Idle EXCEPT !.at = "grid", !.op = "scores", !.known = grades.id]
  <2>1. call' = [call EXCEPT ![c] = r] /\ r.source = Idle.source /\ r.links = Idle.links
    BY <1>4 DEF GetSessionScores, Idle
  <2> HIDE DEF r
  <2> QED
    BY <2>1, IdleCarries, CarriedOn
<1>5. ASSUME NEW c \in Calls, LockCurriculum(c) PROVE Carried'
  <2>1. CASE Finish(c)
    BY <2>1, CarriedEnds
  <2>2. CASE call' = [call EXCEPT ![c].at = "curriculum read", ![c].row = curriculum.row]
    <3> DEFINE r == [[call[c] EXCEPT !.at = "curriculum read"] EXCEPT !.row = curriculum.row]
    <3>1. call' = [call EXCEPT ![c] = r]
      BY <1>2, <2>2
    <3>2. r.source = call[c].source /\ r.links = call[c].links
      BY <1>2 DEF CallFields
    <3> HIDE DEF r
    <3> QED
      BY <3>1, <3>2, CarriedAsBefore
  <2> QED
    BY <1>5, <2>1, <2>2 DEF LockCurriculum
<1>6. ASSUME NEW c \in Calls, UpsertProgram(c) PROVE Carried'
  <2>1. CASE Finish(c)
    BY <2>1, CarriedEnds
  <2>2. CASE Goto(c, "written")
    <3> DEFINE r == [call[c] EXCEPT !.at = "written"]
    <3>1. call' = [call EXCEPT ![c] = r] /\ r.source = call[c].source /\ r.links = call[c].links
      BY <1>2, <2>2 DEF Goto, CallFields
    <3> HIDE DEF r
    <3> QED
      BY <3>1, CarriedAsBefore
  <2> QED
    BY <1>6, <2>1, <2>2 DEF UpsertProgram
<1>7. ASSUME NEW c \in Calls, LockClassForScoring(c) PROVE Carried'
  <2> DEFINE r == [[call[c] EXCEPT !.at = "syncing"] EXCEPT !.known = grades.score]
  <2>1. call' = [call EXCEPT ![c] = r]
    BY <1>2, <1>7 DEF LockClassForScoring
  <2>2. r.source = call[c].source /\ r.links = call[c].links
    BY <1>2 DEF CallFields
  <2> HIDE DEF r
  <2> QED
    BY <2>1, <2>2, CarriedAsBefore
<1>8. ASSUME NEW c \in Calls, CommitApply(c) \/ ApplyFails(c) \/ PutSessionScores(c) PROVE Carried'
  <2>1. Finish(c)
    BY <1>8 DEF CommitApply, ApplyFails, PutSessionScores
  <2> QED
    BY <2>1, CarriedEnds
<1>9. ASSUME call' = call PROVE Carried'
  <2>1. Carried
    BY DEF TInv
  <2> QED
    BY <1>9, <2>1 DEF Carried
<1>10. Carried'
  BY <1>3, <1>4, <1>5, <1>6, <1>7, <1>8, <1>9 DEF ClassStep, Remove, PutCurriculum
<1> QED
  BY <1>1, <1>10, NothingStored

LEMMA InitTyped == Init => TInv
<1> SUFFICES ASSUME Init PROVE TInv
  OBVIOUS
<1>1. IInv
  BY InitInv
<1>2. 1 \in Versions
  <2>1. Cardinality(Versions) \in Nat /\ Versions = 1 .. Cardinality(Versions) /\ Versions # {}
    BY LibraryConstants, FS_CardinalityType
  <2> QED
    BY <2>1
<1>3. /\ version \in [Versions -> VersionRows] /\ version[1].status \in {"draft", "published"}
      /\ \A v \in Versions : version[v].status = "draft" => v = 1
  BY <1>2 DEF Init, LibraryInit, VersionRows
<1>4. ASSUME NEW l \in Lessons
      PROVE  /\ lesson[l] \in LessonRows /\ lesson[l].version \in {0, 1}
             /\ lesson[l].version = 1 => lesson[l].position = l
  <2>1. CASE l \in DOMAIN Outline
    <3>1. lesson[l] = [version |-> 1, position |-> l, text |-> 0, links |-> Outline[l]]
      BY <2>1 DEF Init, LibraryInit
    <3>2. Outline[l] \in SUBSET Materials
      BY <2>1, LibraryConstants
    <3>3. l \in Nat
      BY Ids
    <3> QED
      BY <1>2, <3>1, <3>2, <3>3 DEF LessonRows
  <2>2. CASE l \notin DOMAIN Outline
    <3>1. lesson[l] = NoLesson
      BY <2>2 DEF Init, LibraryInit
    <3> QED
      BY <3>1, RowsAre
  <2> QED
    BY <2>1, <2>2
<1>5. lesson \in Tables
  BY <1>4 DEF Tables, Init, LibraryInit
<1>6. Unique(lesson)
  BY <1>4 DEF Unique
<1>7. Homed
  BY <1>3, <1>4 DEF Homed, Exists
<1>8. Carried
  <2>1. \A c \in Calls : call[c] = Idle
    BY DEF Init, LibraryInit
  <2> QED
    BY <2>1, IdleCarries DEF Carried
<1>9. Graded /\ template = "live" /\ deleted = {}
  BY DEF Init, LibraryInit, Graded
<1> QED
  BY <1>1, <1>3, <1>5, <1>6, <1>7, <1>8, <1>9, TypesAre DEF Stored

\* Whatever the requests do to each other, rows stay rows: the lessons of a version have distinct
\* positions after every write (the deferred unique constraint, which only a duplicate of a lesson
\* that is gone can meet), at most one version is a draft, and a recorded score is of a component
\* the class has (lessonWrite, CreateVersion, PutSessionScores).
THEOREM ProgramTypeCorrect == Spec => []TypeOK
<1>1. Init => TInv
  BY InitTyped
<1>2. TInv /\ [Next]_vars => TInv'
  <2> SUFFICES ASSUME TInv, [Next]_vars PROVE TInv'
    OBVIOUS
  <2>1. IInv'
    BY StepKeeps DEF TInv
  <2>2. Graded /\ Stored /\ Carried
    BY TypesAre
  <2>3. CASE UNCHANGED vars
    <3>1. Graded' /\ Stored' /\ Carried'
      BY <2>2, <2>3 DEF vars, Graded, Stored, Carried, Unique, Homed, Exists
    <3> QED
      BY <2>1, <3>1, TypesAre, PTL
  <2>4. CASE ClassStep
    BY <2>1, <2>4, GradedStays, ClassCarries, TypesAre, PTL
  <2>5. CASE (LibraryStep \/ \E c \in Calls : LibraryCall(c)) /\ UNCHANGED <<curriculum, grades>>
    <3>1. Graded'
      BY <2>2, <2>5 DEF Graded
    <3>2. Stored' /\ Carried'
      BY <2>5, LibraryStepTyped, LibraryCallTyped
    <3> QED
      BY <2>1, <3>1, <3>2, TypesAre, PTL
  <2> QED
    BY <2>3, <2>4, <2>5 DEF Next
<1>3. TInv => TypeOK
  BY DEF TInv
<1> QED
  BY <1>1, <1>2, <1>3, PTL DEF Spec
=============================================================================
