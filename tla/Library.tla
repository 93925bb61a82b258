------------------------------ MODULE Library ------------------------------
(***************************************************************************)
(* One program template of the library: its numbered versions, the lessons *)
(* of each and the materials they link (features/library).                 *)
(*                                                                         *)
(* A version is drafted, published and archived; its content may change    *)
(* only while it is a draft.  What rests on row locks: a content write     *)
(* holds its version FOR UPDATE from the check to the commit (lessonWrite),*)
(* an attach holds its materials FOR SHARE (FindMaterials), a class that   *)
(* applies a version holds the template FOR SHARE (ClassProgram).          *)
(***************************************************************************)
EXTENDS Integers, FiniteSets, Functions

CONSTANTS
  Calls,      \* requests
  Versions,   \* version numbers, 1 .. a bound
  Lessons,    \* ids a lesson may have, as many as are ever created
  Materials,  \* the bank
  Outline     \* the lessons of version 1 to begin with: the materials each links

ASSUME LibraryConstants ==
  /\ Versions \subseteq Nat \ {0} /\ IsFiniteSet(Versions) /\ Versions # {}
  /\ Versions = 1 .. Cardinality(Versions)
  /\ Lessons = 1 .. Cardinality(Lessons) /\ IsFiniteSet(Lessons)
  /\ DOMAIN Outline = 1 .. Cardinality(DOMAIN Outline) /\ DOMAIN Outline \subseteq Lessons
  /\ \A l \in DOMAIN Outline : Outline[l] \subseteq Materials

VARIABLES
  template,  \* program_templates: live or deleted
  version,   \* program_template_versions: status, and what else SetLogFields, SetScoreSet
             \* and the exercise groups write
  lesson,    \* template_lessons: version, position, text, links
  deleted,   \* library_materials: the soft-deleted
  program,   \* class_programs of a class: the version it applies, 0 for no row
  call       \* the requests

library == <<template, version, lesson, deleted>>

\* A lesson id is unused (0), of a version, or of a lesson deleted (-1) and never used again.
NoLesson    == [version |-> 0, position |-> 0, text |-> 0, links |-> {}]
GoneLesson  == [NoLesson EXCEPT !.version = -1]
Of(v)       == {l \in Lessons : lesson[l].version = v}
Unused      == {l \in Lessons : lesson[l].version = 0}
Content(v)  == <<version[v].extras,
                 {<<lesson[l].position, lesson[l].text, lesson[l].links>> : l \in Of(v)}>>
Largest(S)  == CHOOSE n \in S \cup {0} : \A m \in S : m <= n
Fresh(n)    == {l \in Unused : Cardinality({m \in Unused : m < l}) < n}
Exists(v)   == version[v].status # "none"
Latest      == Largest({v \in Versions : Exists(v)})

\* SetPositions over a table: the lessons of v are numbered 1, 2, ... by their position.
Renumber(table, v) ==
  [l \in Lessons |->
     IF table[l].version # v THEN table[l]
     ELSE [table[l] EXCEPT !.position = 1 + Cardinality({m \in Lessons :
             table[m].version = v /\ table[m].position < table[l].position})]]

\* The deferred unique constraint on (version_id, position).
Unique(table) ==
  \A l, m \in Lessons : l # m /\ table[l].version > 0 /\ table[l].version = table[m].version
                        => table[l].position # table[m].position

Idle == [at |-> "new", op |-> "none", on |-> 0, lesson |-> 0, source |-> NoLesson, links |-> {},
         known |-> 0, row |-> 0, confirm |-> FALSE]
Done == [Idle EXCEPT !.at = "done"]

LibraryInit ==
  /\ template = "live"
  /\ version \in {[v \in Versions |-> IF v = 1 THEN [status |-> s, extras |-> x]
                                        ELSE [status |-> "none", extras |-> 0]] :
                    s \in {"draft", "published"}, x \in {0, 1}}
  /\ lesson = [l \in Lessons |->
       IF l \in DOMAIN Outline THEN [version |-> 1, position |-> l, text |-> 0, links |-> Outline[l]]
       ELSE NoLesson]
  /\ deleted = {}
  /\ program = 0
  /\ call = [c \in Calls |-> Idle]

Goto(c, at) == call' = [call EXCEPT ![c].at = at]
Finish(c)   == call' = [call EXCEPT ![c] = Done]

\* Mutant of Writes: LockVersion reads without FOR UPDATE.
NeverWrites(c, v) == FALSE

\* Row locks held by the requests under way: FOR UPDATE by a content write, FOR KEY SHARE
\* by the foreign key of a new class_programs row, FOR SHARE by LockTemplateForVersion.
Writes(c, v) == call[c].at = "version locked" /\ call[c].on = v

KeyShares(c, v) ==
  call[c].op = "apply" /\ call[c].at \in {"written", "syncing"} /\ call[c].on = v /\ program # v

\* Mutant of Shares: Apply leaves LockTemplateForVersion out.
NeverShares(c) == FALSE

Shares(c) == call[c].op = "apply" /\ call[c].at \notin {"new", "done"}
VersionFree(v) == \A c \in Calls : ~Writes(c, v) /\ ~KeyShares(c, v)
-----------------------------------------------------------------------------
\* CreateVersion looks for a live template without a draft, then numbers the new one ...
CreateVersion(c) ==
  /\ call[c].at = "new" /\ template = "live"
  /\ \A v \in Versions : version[v].status # "draft"
  /\ Latest + 1 \in Versions
  /\ call' = [call EXCEPT ![c] = [Idle EXCEPT !.at = "numbered", !.op = "create version",
                                              !.on = Latest + 1]]
  /\ UNCHANGED <<library, program>>

\* ... and inserts it, which two unique indexes refuse beside another draft or under a
\* number taken; the content of the latest released version is copied to new rows.
CopyVersionContent(c) ==
  LET v == call[c].on
      released == Largest({w \in Versions : version[w].status \in {"published", "archived"}})
      origin == IF released > 0 THEN Of(released) ELSE {}
      copies == Fresh(Cardinality(origin))
  IN /\ call[c].at = "numbered"
     /\ IF Exists(v) \/ \E w \in Versions : version[w].status = "draft"
        THEN UNCHANGED <<version, lesson>>
        ELSE /\ version' = [version EXCEPT ![v] =
                  [status |-> "draft", extras |-> IF released = 0 THEN 0 ELSE version[released].extras]]
             /\ Cardinality(copies) = Cardinality(origin)
             /\ \E from \in Injection(copies, origin) :
                  lesson' = [l \in Lessons |-> IF l \in copies
                                               THEN [lesson[from[l]] EXCEPT !.version = v] ELSE lesson[l]]
     /\ Finish(c)
     /\ UNCHANGED <<template, deleted, program>>

\* transition: under the version's lock, from the one status to the next.
Transition(v, from, to) ==
  /\ template = "live" /\ VersionFree(v)
  /\ version[v].status = from
  /\ version' = [version EXCEPT ![v].status = to]
  /\ UNCHANGED <<template, lesson, deleted, program, call>>

Publish(v) == Transition(v, "draft", "published")
Archive(v) == Transition(v, "published", "archived")

\* DeleteTemplate waits for the classes applying a version, then sees their programs.
DeleteTemplate ==
  /\ template = "live" /\ \A c \in Calls : ~Shares(c)
  /\ program = 0
  /\ template' = "deleted"
  /\ UNCHANGED <<version, lesson, deleted, program, call>>
-----------------------------------------------------------------------------
\* A content write of a version, or of a lesson read before the lock is taken.
WriteVersion(c, v, op) ==
  /\ call[c].at = "new" /\ Exists(v)
  /\ call' = [call EXCEPT ![c] = [Idle EXCEPT !.at = "found", !.op = op, !.on = v]]
  /\ UNCHANGED <<library, program>>

WriteLesson(c, l, op, links) ==
  /\ call[c].at = "new" /\ lesson[l].version > 0
  /\ call' = [call EXCEPT ![c] = [Idle EXCEPT !.at = "found", !.op = op, !.on = lesson[l].version,
                                  !.lesson = l, !.source = lesson[l], !.links = links]]
  /\ UNCHANGED <<library, program>>

\* SetLessonMaterials re-reads the lesson under the lock and wants its materials live.
Refused(c) ==
  /\ call[c].op = "links"
  /\ lesson[call[c].lesson].version # call[c].on \/ call[c].links \cap deleted # {}

\* lessonWrite: the lock, and the check that the version is still a draft.
LockVersion(c) ==
  LET v == call[c].on
  IN /\ call[c].at = "found" /\ VersionFree(v)
     /\ IF template = "live" /\ version[v].status = "draft" /\ ~Refused(c)
        THEN Goto(c, "version locked") ELSE Finish(c)
     /\ UNCHANGED <<library, program>>

\* The rest of a content write, under the lock; a lesson deleted meanwhile is not found.
Commit(c, op) ==
  /\ call[c].at = "version locked" /\ call[c].op = op
  /\ Finish(c)
  /\ UNCHANGED <<template, deleted, program>>

Stays(c) == lesson[call[c].lesson].version = call[c].on

CreateLesson(c) ==
  LET v == call[c].on  new == Fresh(1)
  IN /\ Commit(c, "create") /\ new # {}
     /\ lesson' = [l \in Lessons |->
          IF l \in new
          THEN [NoLesson EXCEPT !.version = v,
                                !.position = 1 + Largest({lesson[m].position : m \in Of(v)})]
          ELSE lesson[l]]
     /\ UNCHANGED version

UpdateLesson(c) ==
  /\ Commit(c, "update")
  /\ lesson' = IF Stays(c) THEN [lesson EXCEPT ![call[c].lesson].text = 1] ELSE lesson
  /\ UNCHANGED version

DeleteLesson(c) ==
  /\ Commit(c, "delete")
  /\ lesson' = IF Stays(c)
               THEN Renumber([lesson EXCEPT ![call[c].lesson] = GoneLesson], call[c].on) ELSE lesson
  /\ UNCHANGED version

\* Any order of the lessons there are; an order of other lessons is refused.
ReorderLessons(c) ==
  LET mine == Of(call[c].on)
  IN /\ Commit(c, "reorder")
     /\ \E order \in [mine -> 1 .. Cardinality(mine)] :
          /\ \A l, m \in mine : l # m => order[l] # order[m]
          /\ lesson' = [l \in Lessons |->
               IF l \in mine THEN [lesson[l] EXCEPT !.position = order[l]] ELSE lesson[l]]
     /\ UNCHANGED version

\* DuplicateLesson copies the row read before the lock to the place after it, and the
\* links that the lesson has now, if it is still there.  Only then is the copy part of
\* the renumbered order; if not, it keeps its number, unless that one is taken.
DuplicateLesson(c) ==
  LET v == call[c].on  src == call[c].source  l == call[c].lesson  new == Fresh(1)
      order == Renumber(lesson, v)
      after == Stays(c)
      copy == [version |-> v, text |-> src.text,
               position |-> 1 + (IF after THEN order[l].position ELSE src.position),
               links |-> IF after THEN lesson[l].links ELSE {}]
      Shifted(m) == IF after /\ order[m].version = v /\ order[m].position > order[l].position
                    THEN [order[m] EXCEPT !.position = @ + 1] ELSE order[m]
      table == [m \in Lessons |-> IF m \in new THEN copy ELSE Shifted(m)]
  IN /\ Commit(c, "duplicate") /\ new # {}
     /\ lesson' = IF Unique(table) THEN table ELSE lesson
     /\ UNCHANGED version

ClearLessons(c) ==
  /\ Commit(c, "clear")
  /\ lesson' = [l \in Lessons |-> IF l \in Of(call[c].on) THEN GoneLesson ELSE lesson[l]]
  /\ UNCHANGED version

\* SetLogFields, SetScoreSet and the exercise groups.
SetExtras(c) ==
  /\ Commit(c, "extras")
  /\ version' = [version EXCEPT ![call[c].on].extras = 1]
  /\ UNCHANGED lesson

ReplaceLessonMaterials(c) ==
  /\ Commit(c, "links")
  /\ lesson' = [lesson EXCEPT ![call[c].lesson].links = call[c].links]
  /\ UNCHANGED version
-----------------------------------------------------------------------------
\* MaterialUsage: the lessons of a live template, whatever their version's status.
Used(m) == template = "live" /\ \E l \in Lessons : lesson[l].version > 0 /\ m \in lesson[l].links

\* Mutant of MaterialFree: FindMaterials takes no lock.
NeverHeld(m) == TRUE

\* An attach under way holds its materials FOR SHARE.
MaterialFree(m) ==
  \A c \in Calls : ~(call[c].at = "version locked" /\ call[c].op = "links" /\ m \in call[c].links)

DeleteMaterial(m) ==
  /\ m \notin deleted /\ MaterialFree(m)
  /\ ~Used(m)
  /\ deleted' = deleted \cup {m}
  /\ UNCHANGED <<template, version, lesson, program, call>>
-----------------------------------------------------------------------------
LibraryCall(c) ==
  \/ CreateVersion(c) \/ CopyVersionContent(c) \/ LockVersion(c)
  \/ CreateLesson(c) \/ UpdateLesson(c) \/ DeleteLesson(c) \/ ReorderLessons(c) \/ DuplicateLesson(c)
  \/ ClearLessons(c) \/ SetExtras(c) \/ ReplaceLessonMaterials(c)
  \/ \E v \in Versions, op \in {"create", "reorder", "clear", "extras"} : WriteVersion(c, v, op)
  \/ \E l \in Lessons, op \in {"update", "delete", "duplicate"} : WriteLesson(c, l, op, {})
  \/ \E l \in Lessons, S \in SUBSET Materials : WriteLesson(c, l, "links", S)

LibraryStep ==
  \/ \E v \in Versions : Publish(v) \/ Archive(v)
  \/ \E m \in Materials : DeleteMaterial(m)
  \/ DeleteTemplate
-----------------------------------------------------------------------------
\* The types, the unique positions, and at most one draft.
LibraryTypeOK ==
  /\ template \in {"live", "deleted"}
  /\ version \in [Versions -> [status : {"none", "draft", "published", "archived"}, extras : {0, 1}]]
  /\ lesson \in [Lessons -> [version : Versions \cup {-1, 0}, position : Nat, text : {0, 1},
                             links : SUBSET Materials]]
  /\ Unique(lesson)
  /\ \A v, w \in Versions : version[v].status = "draft" /\ version[w].status = "draft" => v = w
  /\ deleted \subseteq Materials
  /\ program \in Versions \cup {0}

\* What was published stays as it was, whatever write was under way: "a publish that lands
\* first leaves fn unreached, one that lands second waits for this commit" (lessonWrite).
ReleasedIsFrozen ==
  [][\A v \in Versions : version[v].status \in {"published", "archived"} =>
       Content(v)' = Content(v) /\ version'[v].status \in {version[v].status, "archived"}]_<<version, lesson>>

\* No lesson of a live template links a deleted material: "a material linked from a live
\* template can never be deleted" (ListLessonMaterials).
LinkedIsLive ==
  template = "live" => \A l \in Lessons : lesson[l].version > 0 => lesson[l].links \cap deleted = {}
=============================================================================
