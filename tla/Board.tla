------------------------------- MODULE Board -------------------------------
(***************************************************************************)
(* The kanban board of one center: columns and the places of the tasks in  *)
(* them (pkg/kanban/service.go over the adapters of features/tasks).       *)
(*                                                                         *)
(* A task's position is a float that only has to be smaller or larger than *)
(* its neighbours'.  Here it counts units: One of them is the step between *)
(* whole positions, and a gap that cannot be halved into whole units is    *)
(* below minPositionGap.  Only MoveTask takes the column's advisory lock;  *)
(* the other operations read, and later write without looking again.       *)
(***************************************************************************)
EXTENDS Integers, FiniteSets

CONSTANTS
  Calls,       \* requests
  Columns,     \* ids a column may have
  Tasks,       \* ids of tasks, in the order of created_at
  FirstColumns,\* the columns of a new center
  FirstColumn, \* the one that holds tasks already, moved where they are ...
  FirstPlaces, \* ... at these positions, which may be as close as moves leave them
  MaxColumns,  \* Config.MaxColumns
  One          \* units between two whole positions

NoTask   == 0
NoColumn == "no column"

ASSUME BoardConstants ==
  /\ Tasks \subseteq Nat \ {NoTask}
  /\ DOMAIN FirstPlaces \subseteq Tasks
  /\ \A t, u \in DOMAIN FirstPlaces :
       FirstPlaces[t] \in Int /\ (t # u => FirstPlaces[t] # FirstPlaces[u])
  /\ FirstColumns \subseteq Columns /\ FirstColumn \in FirstColumns
  /\ IsFiniteSet(FirstColumns) /\ IsFiniteSet(DOMAIN FirstPlaces)
  /\ MaxColumns \in Nat /\ Cardinality(FirstColumns) <= MaxColumns
  /\ One \in Nat \ {0, 1}
  /\ NoColumn \notin Columns

VARIABLES
  columns,  \* task_columns
  task,     \* tasks: column (NoColumn: no row), position, deleted_at; and whether
            \* the place is the one a move gave it
  call,     \* the requests
  intruded  \* history: columns entered without the lock while a move held it

vars == <<columns, task, call, intruded>>

Idle == [at |-> "new", op |-> "none", task |-> NoTask, column |-> NoColumn, anchor |-> NoTask,
         to |-> NoColumn, position |-> 0, listed |-> <<>>]
Done == [Idle EXCEPT !.at = "done"]

NoRow     == [column |-> NoColumn, position |-> 0, deleted |-> FALSE, placed |-> FALSE]
Rows      == {t \in Tasks : task[t].column # NoColumn}
Alive(t)  == t \in Rows /\ ~task[t].deleted
In(k)     == {t \in Rows : task[t].column = k}
Live(k)   == {t \in In(k) : ~task[t].deleted}

\* ORDER BY position, created_at, over a table of positions.
Before(at, t, u)    == at[t] < at[u] \/ (at[t] = at[u] /\ t < u)
Place(at, t)        == Cardinality({u \in DOMAIN at : Before(at, u, t)})
Positions(table, k) ==
  [t \in {u \in Tasks : table[u].column = k /\ ~table[u].deleted} |-> table[t].position]

Top(at) ==
  IF DOMAIN at = {} THEN 0
  ELSE (CHOOSE p \in {at[t] : t \in DOMAIN at} : \A t \in DOMAIN at : p <= at[t]) - One

\* positionAfter: the task that follows the anchor, the moving one left aside.
Followers(at, moving, anchor) == {u \in DOMAIN at \ {moving} : Before(at, anchor, u)}
Next1(at, moving, anchor) ==
  CHOOSE u \in Followers(at, moving, anchor) : \A w \in Followers(at, moving, anchor) : ~Before(at, w, u)

Gap(at, moving, anchor) ==
  IF Followers(at, moving, anchor) = {} THEN 2 * One
  ELSE at[Next1(at, moving, anchor)] - at[anchor]
After(at, moving, anchor)    == at[anchor] + Gap(at, moving, anchor) \div 2
TooTight(at, moving, anchor) == Gap(at, moving, anchor) < 2

-----------------------------------------------------------------------------
Init ==
  /\ columns = FirstColumns
  /\ task = [t \in Tasks |->
       IF t \in DOMAIN FirstPlaces
       THEN [NoRow EXCEPT !.column = FirstColumn, !.position = FirstPlaces[t], !.placed = TRUE]
       ELSE NoRow]
  /\ call = [c \in Calls |-> Idle]
  /\ intruded = {}

Finish(c)  == call' = [call EXCEPT ![c] = Done]
Locked(k)  == \E c \in Calls : call[c].at = "listed" /\ call[c].column = k

\* Columns in which a live task appears, or is somewhere else, in a write outside the lock.
Intrudes(new) ==
  intruded' = intruded \cup
    {k \in Columns : Locked(k) /\ \E t \in DOMAIN Positions(new, k) :
                       t \notin Live(k) \/ new[t].position # task[t].position}
-----------------------------------------------------------------------------
\* CreateColumn counts, and its adapter counts again under the lock of the center.
CreateColumn(c, k) ==
  /\ call[c].at = "new"
  /\ k \notin columns /\ Cardinality(columns) < MaxColumns
  /\ \A d \in Calls : call[d].op # "create column" \/ call[d].column # k
  /\ call' = [call EXCEPT ![c] = [Idle EXCEPT !.at = "judged", !.op = "create column", !.column = k]]
  /\ UNCHANGED <<columns, task, intruded>>

\* Mutant of InsertColumn: the service's own count is trusted.
InsertUncounted(c) ==
  /\ call[c].at = "judged" /\ call[c].op = "create column"
  /\ columns' = columns \cup {call[c].column}
  /\ Finish(c)
  /\ UNCHANGED <<task, intruded>>

InsertColumn(c) ==
  /\ call[c].at = "judged" /\ call[c].op = "create column"
  /\ columns' = IF Cardinality(columns) < MaxColumns THEN columns \cup {call[c].column} ELSE columns
  /\ Finish(c)
  /\ UNCHANGED <<task, intruded>>

\* DeleteColumn judges the board, soft-deleted tasks included ...
DeleteColumn(c, k, to) ==
  /\ call[c].at = "new"
  /\ k \in columns /\ Cardinality(columns) > 1
  /\ to # k /\ to \in columns \cup {NoColumn}
  /\ to = NoColumn => In(k) = {}
  /\ call' = [call EXCEPT ![c] = [Idle EXCEPT !.at = "judged", !.op = "delete column", !.column = k,
                                              !.to = to]]
  /\ UNCHANGED <<columns, task, intruded>>

\* ... then moves the tasks, where they stand, and deletes the column.  The foreign key
\* refuses a target that is gone and a column with a task that came meanwhile.
RemoveColumn(c) ==
  LET k == call[c].column  to == call[c].to
      new == [t \in Tasks |-> IF t \in In(k) /\ to # NoColumn
                              THEN [task[t] EXCEPT !.column = to, !.placed = FALSE] ELSE task[t]]
  IN /\ call[c].at = "judged" /\ call[c].op = "delete column"
     /\ IF k \in columns /\ (In(k) = {} \/ to \in columns)
        THEN columns' = columns \ {k} /\ task' = new
        ELSE UNCHANGED <<columns, task>>
     /\ Intrudes(task')
     /\ Finish(c)
-----------------------------------------------------------------------------
\* CreateTask takes the place above the smallest position it reads ...
CreateTask(c, k) ==
  /\ call[c].at = "new" /\ k \in columns
  /\ call' = [call EXCEPT ![c] = [Idle EXCEPT !.at = "judged", !.op = "create task", !.column = k,
                                              !.position = Top(Positions(task, k))]]
  /\ UNCHANGED <<columns, task, intruded>>

\* ... and inserts there, if the column still exists.
InsertTask(c, t) ==
  LET k == call[c].column
  IN /\ call[c].at = "judged" /\ call[c].op = "create task"
     /\ \A u \in Tasks : u \notin Rows => t <= u
     /\ t \notin Rows
     /\ task' = IF k \in columns
                THEN [task EXCEPT ![t] = [NoRow EXCEPT !.column = k, !.position = call[c].position]]
                ELSE task
     /\ Intrudes(task')
     /\ Finish(c)
     /\ UNCHANGED columns

\* UpdateTask writes the whole row it read, the place with it.
UpdateTask(c, t) ==
  /\ call[c].at = "new" /\ Alive(t)
  /\ call' = [call EXCEPT ![c] = [Idle EXCEPT !.at = "judged", !.op = "update task", !.task = t,
                                  !.column = task[t].column, !.position = task[t].position]]
  /\ UNCHANGED <<columns, task, intruded>>

WriteTask(c) ==
  LET t == call[c].task
      same == task[t].column = call[c].column /\ task[t].position = call[c].position
  IN /\ call[c].at = "judged" /\ call[c].op = "update task"
     /\ task' = IF Alive(t) /\ call[c].column \in columns
                THEN [task EXCEPT ![t] = [column |-> call[c].column, position |-> call[c].position,
                                          deleted |-> FALSE, placed |-> @.placed /\ same]]
                ELSE task
     /\ Intrudes(task')
     /\ Finish(c)
     /\ UNCHANGED columns

DeleteTask(t) ==
  /\ Alive(t)
  /\ task' = [task EXCEPT ![t].deleted = TRUE, ![t].placed = FALSE]
  /\ UNCHANGED <<columns, call, intruded>>

\* A restored task is where it was, whatever has moved there since.
RestoreTask(t) ==
  /\ t \in Rows /\ task[t].deleted
  /\ task' = [task EXCEPT ![t].deleted = FALSE]
  /\ Intrudes(task')
  /\ UNCHANGED <<columns, call>>
-----------------------------------------------------------------------------
MoveTask(c, t, k, a) ==
  /\ call[c].at = "new" /\ Alive(t) /\ k \in columns
  /\ call' = [call EXCEPT ![c] = [Idle EXCEPT !.at = "judged", !.op = "move task", !.task = t,
                                              !.column = k, !.anchor = a]]
  /\ UNCHANGED <<columns, task, intruded>>

\* Mutant of ListColumnPositions: a move to the top takes no lock.
ListUnlocked(c) ==
  LET at == Positions(task, call[c].column)
      t == call[c].task  a == call[c].anchor
  IN /\ call[c].at = "judged" /\ call[c].op = "move task"
     /\ a # NoTask => ~Locked(call[c].column)
     /\ IF a # NoTask /\ (a = t \/ a \notin DOMAIN at)
        THEN Finish(c)
        ELSE call' = [call EXCEPT ![c].at = "listed", ![c].listed = at]
     /\ UNCHANGED <<columns, task, intruded>>

\* The lock is taken and the column listed; the anchor must be a live task in it.
ListColumnPositions(c) ==
  LET at == Positions(task, call[c].column)
      t == call[c].task  a == call[c].anchor
  IN /\ call[c].at = "judged" /\ call[c].op = "move task"
     /\ ~Locked(call[c].column)
     /\ IF a # NoTask /\ (a = t \/ a \notin DOMAIN at)
        THEN Finish(c)
        ELSE call' = [call EXCEPT ![c].at = "listed", ![c].listed = at]
     /\ UNCHANGED <<columns, task, intruded>>

\* RenormalizeColumn: whole positions in the listed order, for the tasks still there.
Renormalized(c) ==
  [t \in Tasks |->
     IF t \in DOMAIN call[c].listed /\ t \in Live(call[c].column)
     THEN [task[t] EXCEPT !.position = Place(call[c].listed, t) * One] ELSE task[t]]

\* Mutant of MustRenormalize: a gap is halved as long as it is there.
NeverRenormalize(c) == FALSE

MustRenormalize(c) ==
  call[c].anchor # NoTask /\ TooTight(call[c].listed, call[c].task, call[c].anchor)

\* The place in the listing, or in the second one after a renormalisation; then the row
\* is written and all of it commits.  The task, the column or, in the second listing, the
\* anchor may be gone.
CommitMove(c) ==
  LET k == call[c].column  t == call[c].task  a == call[c].anchor
      base   == IF MustRenormalize(c) THEN Renormalized(c) ELSE task
      listed == IF MustRenormalize(c) THEN Positions(base, k) ELSE call[c].listed
      found  == a = NoTask \/ a \in DOMAIN listed
      place  == IF a = NoTask THEN Top(listed) ELSE After(listed, t, a)
  IN /\ call[c].at = "listed"
     /\ task' = IF found /\ Alive(t) /\ k \in columns
                THEN [base EXCEPT ![t] = [column |-> k, position |-> place, deleted |-> FALSE,
                                          placed |-> TRUE]]
                ELSE task
     /\ Finish(c)
     /\ UNCHANGED <<columns, intruded>>
-----------------------------------------------------------------------------
Next ==
  \/ \E c \in Calls :
       \/ InsertColumn(c) \/ RemoveColumn(c) \/ WriteTask(c) \/ ListColumnPositions(c) \/ CommitMove(c)
       \/ \E k \in Columns : CreateColumn(c, k) \/ CreateTask(c, k)
       \/ \E k \in Columns, to \in Columns \cup {NoColumn} : DeleteColumn(c, k, to)
       \/ \E t \in Tasks : InsertTask(c, t) \/ UpdateTask(c, t)
       \/ \E t \in Tasks, k \in Columns, a \in Tasks \cup {NoTask} : MoveTask(c, t, k, a)
  \/ \E t \in Tasks : DeleteTask(t) \/ RestoreTask(t)

Spec == Init /\ [][Next]_vars
-----------------------------------------------------------------------------
\* A request, and the table of positions a move has listed.
IsRequest(r) ==
  /\ r \in [at : {"new", "judged", "listed", "done"},
            op : {"none", "create column", "delete column", "create task", "update task", "move task"},
            task : Tasks \cup {NoTask}, column : Columns \cup {NoColumn},
            anchor : Tasks \cup {NoTask}, to : Columns \cup {NoColumn},
            position : Int, listed : {r.listed}]
  /\ DOMAIN r.listed \subseteq Tasks
  /\ \A t \in DOMAIN r.listed : r.listed[t] \in Int

\* The types, and the foreign key: a task, deleted or not, is in a column of the center.
TypeOK ==
  /\ columns \subseteq Columns
  /\ task \in [Tasks -> [column : Columns \cup {NoColumn}, position : Int, deleted : BOOLEAN,
                         placed : BOOLEAN]]
  /\ \A t \in Rows : task[t].column \in columns
  /\ DOMAIN call = Calls /\ \A c \in Calls : IsRequest(call[c])
  /\ intruded \subseteq Columns

\* The cap holds however many requests passed the count of CreateColumn together
\* (kanban/README.md, "Column cap contract").
ColumnCap == Cardinality(columns) <= MaxColumns

\* Two tasks that moves have put in a column are never in one place, unless something
\* outside the lock entered the column while a move held it: "two simultaneous moves
\* after the same anchor cannot compute the same midpoint" (kanban/README.md).
PlacedApart ==
  \A t, u \in Tasks :
    /\ t # u /\ Alive(t) /\ Alive(u) /\ task[t].column = task[u].column
    /\ task[t].placed /\ task[u].placed /\ task[t].column \notin intruded
    => task[t].position # task[u].position

\* A move does not reorder the other tasks that moves have placed in the column, nor any
\* of them through the renormalisation it needed: positionInColumn's "would then
\* overwrite it and silently undo the move".
OrderSurvives ==
  [][\A c \in Calls : CommitMove(c) =>
       \A t, u \in {w \in Tasks : Alive(w) /\ task[w].placed} \ {call[c].task} :
         task[t].column = task[u].column /\ task[t].position < task[u].position
           => task'[t].position < task'[u].position]_vars
=============================================================================
