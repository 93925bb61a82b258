----------------------------- MODULE BoardProofs -----------------------------
(***************************************************************************)
(* What holds of Board for any number of requests, columns and tasks, any  *)
(* first places and any cap.  A move relies on the table of positions it   *)
(* listed when it took the lock of the column: that table stays true of    *)
(* every task a move has placed, and of every task of the column as long   *)
(* as nothing has entered the column without the lock.                     *)
(***************************************************************************)
EXTENDS Board, FiniteSetTheorems, WellFoundedInduction, TLAPS

-----------------------------------------------------------------------------
(* Tables of positions. *)

Table(at) ==
  /\ DOMAIN at \subseteq Nat /\ IsFiniteSet(DOMAIN at)
  /\ \A t \in DOMAIN at : at[t] \in Int

\* The tasks that stand before t.
Ahead(at, t) == {u \in DOMAIN at : Before(at, u, t)}

LEMMA PlaceIsNat ==
  ASSUME NEW at, Table(at), NEW t
  PROVE  Place(at, t) \in Nat
<1>1. Ahead(at, t) \subseteq DOMAIN at
  BY DEF Ahead
<1>2. IsFiniteSet(Ahead(at, t))
  BY <1>1, FS_Subset DEF Table
<1> QED
  BY <1>2, FS_CardinalityType DEF Place, Ahead

\* Before orders the tasks of a table, and a place is a natural number that grows with it.
LEMMA PlacesInOrder ==
  ASSUME NEW at, Table(at), NEW t \in DOMAIN at, NEW u \in DOMAIN at, t # u
  PROVE  /\ Place(at, t) \in Nat /\ Place(at, u) \in Nat
         /\ Before(at, t, u) \/ Before(at, u, t)
         /\ Before(at, t, u) => Place(at, t) < Place(at, u) /\ at[t] <= at[u]
         /\ at[t] < at[u] => Before(at, t, u)
<1>1. \A x, y \in DOMAIN at : at[x] \in Int /\ at[y] \in Int /\ x \in Nat /\ y \in Nat
  BY DEF Table
<1>2. Ahead(at, t) \subseteq DOMAIN at /\ Ahead(at, u) \subseteq DOMAIN at
  BY DEF Ahead
<1>3. IsFiniteSet(Ahead(at, t)) /\ IsFiniteSet(Ahead(at, u))
  BY <1>2, FS_Subset DEF Table
<1>4. Place(at, t) = Cardinality(Ahead(at, t)) /\ Place(at, u) = Cardinality(Ahead(at, u))
  BY DEF Place, Ahead
<1>5. Place(at, t) \in Nat /\ Place(at, u) \in Nat
  BY <1>3, <1>4, FS_CardinalityType
<1>6. Before(at, t, u) \/ Before(at, u, t)
  BY <1>1 DEF Before
<1>7. ASSUME Before(at, t, u) PROVE Place(at, t) < Place(at, u)
  <2>1. \A x \in DOMAIN at : Before(at, x, t) => Before(at, x, u)
    BY <1>1, <1>7 DEF Before
  <2>2. Ahead(at, t) \subseteq Ahead(at, u)
    BY <2>1 DEF Ahead
  <2>3. t \in Ahead(at, u) /\ t \notin Ahead(at, t)
    BY <1>1, <1>7 DEF Ahead, Before
  <2>4. /\ Cardinality(Ahead(at, t)) <= Cardinality(Ahead(at, u))
        /\ Cardinality(Ahead(at, t)) # Cardinality(Ahead(at, u))
    BY <1>3, <2>2, <2>3, FS_Subset
  <2> QED
    BY <1>4, <1>5, <2>4
<1> QED
  BY <1>1, <1>5, <1>6, <1>7 DEF Before

LEMMA LeastNumber ==
  ASSUME NEW N \in SUBSET Nat, N # {}
  PROVE  \E n \in N : \A m \in N : n <= m
<1>1. PICK n \in N : \A m \in N : ~ (<<m, n>> \in OpToRel(<, Nat))
  BY NatLessThanWellFounded, WFMin
<1>2. \A m \in N : m < n => <<m, n>> \in OpToRel(<, Nat)
  BY DEF OpToRel
<1>3. \A m \in N : ~(m < n)
  BY <1>1, <1>2
<1>4. n \in Nat /\ \A m \in N : m \in Nat
  OBVIOUS
<1>5. \A m \in N : n <= m
  BY <1>3, <1>4
<1> QED
  BY <1>5

\* Some task of a set is before all others of it.
LEMMA FirstOf ==
  ASSUME NEW at, Table(at), NEW S, S \subseteq DOMAIN at, S # {}
  PROVE  \E u \in S : \A w \in S : ~Before(at, w, u)
<1> DEFINE N == {Place(at, u) : u \in S}
<1>1. \A u \in S : Place(at, u) \in Nat
  BY PlaceIsNat
<1>2. N \in SUBSET Nat /\ N # {}
  BY <1>1
<1>3. PICK n \in N : \A m \in N : n <= m
  BY <1>2, LeastNumber
<1>4. PICK u \in S : n = Place(at, u)
  OBVIOUS
<1>5. ASSUME NEW w \in S, Before(at, w, u) PROVE FALSE
  <2>1. w # u
    BY <1>5 DEF Table, Before
  <2>2. Place(at, w) < Place(at, u) /\ Place(at, w) \in Nat /\ Place(at, u) \in Nat
    BY <1>5, <2>1, PlacesInOrder
  <2>3. Place(at, u) <= Place(at, w)
    BY <1>3, <1>4
  <2> QED
    BY <2>2, <2>3
<1> QED
  BY <1>5

\* The top of a column is above all of its tasks.
LEMMA TopIsAbove ==
  ASSUME NEW at, Table(at)
  PROVE  Top(at) \in Int /\ \A t \in DOMAIN at : Top(at) < at[t]
<1>1. CASE DOMAIN at = {}
  BY <1>1 DEF Top
<1>2. CASE DOMAIN at # {}
  <2> DEFINE V == {at[t] : t \in DOMAIN at}
             Least(p) == \A t \in DOMAIN at : p <= at[t]
             q == CHOOSE p \in V : Least(p)
  <2>1. PICK u \in DOMAIN at : \A w \in DOMAIN at : ~Before(at, w, u)
    BY <1>2, FirstOf
  <2>2. at[u] \in V /\ Least(at[u])
    BY <2>1 DEF Table, Before
  <2>3. q \in V /\ Least(q)
    BY <2>2
  <2>4. Top(at) = q - One
    BY <1>2 DEF Top
  <2>5. q \in Int
    BY <2>3 DEF Table
  <2> HIDE DEF q
  <2> QED
    BY <2>3, <2>4, <2>5, BoardConstants DEF Table
<1> QED
  BY <1>1, <1>2

\* The place after an anchor is nobody's, unless the gap is too tight to be halved.
LEMMA AfterIsFree ==
  ASSUME NEW at, Table(at), NEW moving, NEW a \in DOMAIN at
  PROVE  /\ After(at, moving, a) \in Int
         /\ ~TooTight(at, moving, a) => \A u \in DOMAIN at \ {moving} : at[u] # After(at, moving, a)
<1> DEFINE F == Followers(at, moving, a)
           g == Gap(at, moving, a)
           n == Next1(at, moving, a)
<1>0. at[a] \in Int /\ \A u \in DOMAIN at : at[u] \in Int
  BY DEF Table
<1>1. F \subseteq DOMAIN at
  BY DEF Followers
<1>2. F # {} => n \in F /\ \A w \in F : ~Before(at, w, n)
  BY <1>1, FirstOf DEF Next1
<1>3. g \in Int /\ (F = {} => g = 2 * One) /\ (F # {} => g = at[n] - at[a])
  BY <1>0, <1>1, <1>2, BoardConstants DEF Gap
<1>4. After(at, moving, a) = at[a] + g \div 2 /\ (TooTight(at, moving, a) <=> g < 2)
  BY DEF After, TooTight
<1>5. ASSUME NEW u \in DOMAIN at \ {moving}, g >= 2
      PROVE  at[u] # at[a] + g \div 2
  <2>1. CASE at[u] <= at[a]
    <3> HIDE DEF g
    <3> QED
      BY <1>0, <1>3, <1>5, <2>1
  <2>2. CASE at[u] > at[a]
    <3>1. u \in F
      BY <1>0, <2>2 DEF Followers, Before
    <3>2. ~Before(at, u, n) /\ n \in DOMAIN at /\ g = at[n] - at[a]
      BY <1>1, <1>2, <1>3, <3>1
    <3>3. at[n] <= at[u] /\ at[n] \in Int
      BY <1>0, <3>2 DEF Before
    <3> HIDE DEF g, n
    <3> QED
      BY <1>0, <1>3, <1>5, <3>2, <3>3
  <2> QED
    BY <1>0, <2>1, <2>2
<1>6. After(at, moving, a) \in Int
  <2> HIDE DEF g
  <2> QED
    BY <1>0, <1>3, <1>4
<1> QED
  BY <1>3, <1>4, <1>5, <1>6

-----------------------------------------------------------------------------
(* The invariant. *)

\* What a request carries at the step it is at.
Carries(r) ==
  /\ r.op \in {"create column", "delete column", "create task", "update task", "move task"} => r.column \in Columns
  /\ r.op \in {"update task", "move task"} => r.task \in Tasks
  /\ r.op = "delete column" => r.to # r.column
  /\ r.at = "listed" =>
       /\ r.op = "move task" /\ Table(r.listed)
       /\ r.anchor # NoTask => r.anchor \in DOMAIN r.listed \ {r.task}

Requests == \A c \in Calls : Carries(call[c])

\* One move at a time holds the lock of a column.
Lock ==
  \A c, d \in Calls :
    call[c].at = "listed" /\ call[d].at = "listed" /\ call[c].column = call[d].column => c = d

\* What a move listed is still so of a task that a move has placed, and of every task
\* unless something has entered the column.
Faithful ==
  \A c \in Calls : call[c].at = "listed" =>
    \A t \in Live(call[c].column) :
      task[t].placed \/ call[c].column \notin intruded =>
        t \in DOMAIN call[c].listed /\ call[c].listed[t] = task[t].position

\* A deleted task has lost the place a move gave it, so a restored one has none.
Standing == \A t \in Tasks : task[t].placed => Alive(t)

Finite == IsFiniteSet(columns) /\ IsFiniteSet(Rows)

IInv == TypeOK /\ Requests /\ Lock /\ Faithful /\ Standing /\ Finite /\ ColumnCap /\ PlacedApart

-----------------------------------------------------------------------------
(* Requests. *)

LEMMA IdleIs == IsRequest(Idle) /\ Carries(Idle) /\ Idle.at = "new" /\ DOMAIN Idle.listed = {}
BY DEF Idle, IsRequest, Carries

LEMMA DoneIs == IsRequest(Done) /\ Carries(Done) /\ Done.at = "done"
<1>1. Done = [at |-> "done", op |-> "none", task |-> NoTask, column |-> NoColumn, anchor |-> NoTask,
              to |-> NoColumn, position |-> 0, listed |-> <<>>]
  BY DEF Done, Idle
<1>2. DOMAIN Done.listed = {}
  BY <1>1
<1> QED
  BY <1>1, <1>2 DEF IsRequest, Carries

\* No request takes the lock, and none that has it is touched.
Calm == \A c \in Calls : call'[c].at = "listed" => call[c].at = "listed" /\ call'[c] = call[c]

\* The requests are what they should be.
Sound == DOMAIN call' = Calls /\ (\A d \in Calls : IsRequest(call'[d])) /\ Requests'

\* What enters a column that a move holds is noted.
Noted ==
  /\ intruded \subseteq intruded' /\ intruded' \subseteq Columns
  /\ \A k \in Columns \ intruded' : Locked(k) =>
       \A t \in Live(k)' : t \in Live(k) /\ task'[t].position = task[t].position

LEMMA Called ==
  ASSUME IInv, NEW c \in Calls, NEW r, IsRequest(r), Carries(r), call' = [call EXCEPT ![c] = r]
  PROVE  Sound /\ (r.at # "listed" => Calm)
<1>1. DOMAIN call = Calls
  BY DEF IInv, TypeOK
<1>2. DOMAIN call' = Calls /\ \A d \in Calls : call'[d] = IF d = c THEN r ELSE call[d]
  BY <1>1
<1>3. \A d \in Calls : IsRequest(call'[d])
  BY <1>2 DEF IInv, TypeOK
<1>4. Requests'
  BY <1>2 DEF IInv, Requests
<1>5. r.at # "listed" => Calm
  BY <1>2 DEF Calm
<1> QED
  BY <1>2, <1>3, <1>4, <1>5 DEF Sound

LEMMA Finished ==
  ASSUME IInv, NEW c \in Calls, Finish(c)
  PROVE  Sound /\ Calm
BY Called, DoneIs DEF Finish

LEMMA Untouched == ASSUME IInv, call' = call PROVE Sound /\ Calm
BY DEF IInv, TypeOK, Requests, Sound, Calm

\* A step that takes no lock, places no task and enters no column that is neither unlocked
\* nor noted.
LEMMA Frame ==
  ASSUME IInv, Calm, Noted,
         \A t \in Tasks : Alive(t)' /\ task'[t].placed =>
           /\ Alive(t) /\ task[t].placed
           /\ task'[t].column = task[t].column /\ task'[t].position = task[t].position
  PROVE  Lock' /\ Faithful' /\ PlacedApart'
<1>1. Lock'
  BY DEF Calm, IInv, Lock
<1>2. Faithful'
  <2> SUFFICES ASSUME NEW c \in Calls, (call[c].at = "listed")', NEW t \in Live(call[c].column)',
                      (task[t].placed \/ call[c].column \notin intruded)'
               PROVE  (t \in DOMAIN call[c].listed /\ call[c].listed[t] = task[t].position)'
    BY DEF Faithful
  <2>1. call'[c] = call[c] /\ call[c].at = "listed" /\ call[c].column \in Columns
    BY DEF Calm, IInv, Requests, Carries
  <2>2. t \in Tasks /\ Alive(t)' /\ task'[t].column = call[c].column
    BY <2>1 DEF Live, In, Rows, Alive
  <2>3. CASE task'[t].placed
    <3>1. t \in Live(call[c].column) /\ task[t].placed /\ task'[t].position = task[t].position
      BY <2>2, <2>3 DEF Live, In, Alive
    <3> QED
      BY <2>1, <3>1 DEF IInv, Faithful
  <2>4. CASE call[c].column \notin intruded'
    <3>1. Locked(call[c].column)
      BY <2>1 DEF Locked
    <3>2. t \in Live(call[c].column) /\ task'[t].position = task[t].position
      BY <2>1, <2>4, <3>1 DEF Noted
    <3>3. call[c].column \notin intruded
      BY <2>4 DEF Noted
    <3> QED
      BY <2>1, <3>2, <3>3 DEF IInv, Faithful
  <2> QED
    BY <2>1, <2>3, <2>4
<1>3. PlacedApart'
  BY DEF IInv, PlacedApart, Noted
<1> QED
  BY <1>1, <1>2, <1>3

LEMMA IntrudesNotes == ASSUME IInv, Intrudes(task') PROVE Noted
<1>1. \A k \in Columns : Live(k)' = DOMAIN Positions(task', k)
  BY BoardConstants DEF Live, In, Rows, Positions
<1> QED
  BY <1>1 DEF Intrudes, IInv, TypeOK, Noted

\* A step that leaves the tasks alone.
LEMMA TasksStay ==
  ASSUME IInv, Calm, UNCHANGED <<task, intruded>>
  PROVE  Lock' /\ Faithful' /\ PlacedApart' /\ Standing' /\ Rows' = Rows
<1>1. Noted
  BY DEF Noted, IInv, TypeOK, Live, In, Rows
<1>2. Lock' /\ Faithful' /\ PlacedApart'
  BY <1>1, Frame DEF Alive, Rows
<1> QED
  BY <1>2 DEF IInv, Standing, Alive, Rows

-----------------------------------------------------------------------------
(* The steps. *)

\* The positions of the live tasks of a column are a table.
LEMMA PositionsAre ==
  ASSUME IInv, NEW k \in Columns
  PROVE  /\ Table(Positions(task, k)) /\ DOMAIN Positions(task, k) = Live(k)
         /\ DOMAIN Positions(task, k) \subseteq Tasks
         /\ \A t \in Live(k) : Positions(task, k)[t] = task[t].position /\ task[t].position \in Int
<1>1. DOMAIN Positions(task, k) = Live(k) /\ Live(k) \subseteq Rows /\ Rows \subseteq Tasks
  BY BoardConstants DEF Positions, Live, In, Rows
<1>2. \A t \in Live(k) : Positions(task, k)[t] = task[t].position /\ task[t].position \in Int
  BY <1>1 DEF Positions, IInv, TypeOK
<1>3. IsFiniteSet(Live(k))
  BY <1>1, FS_Subset DEF IInv, Finite
<1> QED
  BY <1>1, <1>2, <1>3, BoardConstants DEF Table

LEMMA NewRequest ==
  ASSUME IInv, NEW c \in Calls, NEW r, IsRequest(r), Carries(r), r.at # "listed",
         call' = [call EXCEPT ![c] = r], UNCHANGED <<columns, task, intruded>>
  PROVE  IInv'
<1>1. Sound /\ Calm
  BY Called
<1>2. Lock' /\ Faithful' /\ PlacedApart' /\ Standing' /\ Rows' = Rows
  BY <1>1, TasksStay
<1>3. TypeOK'
  BY <1>1, <1>2 DEF IInv, TypeOK, Sound
<1>4. Finite' /\ ColumnCap'
  BY <1>2 DEF IInv, Finite, ColumnCap
<1> QED
  BY <1>1, <1>2, <1>3, <1>4 DEF IInv, Sound

\* A request that has been judged.
Judged ==
  {r \in [at : {"judged"},
          op : {"create column", "delete column", "create task", "update task", "move task"},
          task : Tasks \cup {NoTask}, column : Columns, anchor : Tasks \cup {NoTask},
          to : Columns \cup {NoColumn}, position : Int, listed : {<<>>}] :
     /\ r.op \in {"update task", "move task"} => r.task \in Tasks
     /\ r.op = "delete column" => r.to # r.column}

LEMMA JudgedIs ==
  ASSUME NEW r \in Judged
  PROVE  IsRequest(r) /\ Carries(r) /\ r.at # "listed"
<1>1. DOMAIN <<>> = {}
  OBVIOUS
<1>2. r.listed = <<>> /\ r.at = "judged"
  BY DEF Judged
<1>3. IsRequest(r)
  BY <1>1, <1>2 DEF Judged, IsRequest
<1>4. Carries(r)
  BY <1>2 DEF Judged, Carries
<1> QED
  BY <1>2, <1>3, <1>4

LEMMA RequestsKeep ==
  ASSUME IInv, NEW c \in Calls,
         \/ \E k \in Columns : CreateColumn(c, k) \/ CreateTask(c, k)
         \/ \E k \in Columns, to \in Columns \cup {NoColumn} : DeleteColumn(c, k, to)
         \/ \E t \in Tasks : UpdateTask(c, t)
         \/ \E t \in Tasks, k \in Columns, a \in Tasks \cup {NoTask} : MoveTask(c, t, k, a)
  PROVE  IInv'
<1>0. UNCHANGED <<columns, task, intruded>>
  BY DEF CreateColumn, CreateTask, DeleteColumn, UpdateTask, MoveTask
<1>zero. 0 \in Int
  OBVIOUS
<1> DEFINE Asks(r) == IsRequest(r) /\ Carries(r) /\ r.at # "listed" /\ call' = [call EXCEPT ![c] = r]
<1>1. ASSUME NEW k \in Columns, CreateColumn(c, k)
      PROVE  \E r : Asks(r)
  <2> DEFINE r == [Idle EXCEPT !.at = "judged", !.op = "create column", !.column = k]
  <2>1. r \in Judged
    BY <1>zero DEF Idle, Judged
  <2>2. IsRequest(r) /\ Carries(r) /\ r.at # "listed"
    BY <2>1, JudgedIs
  <2> QED
    BY <1>1, <2>2 DEF CreateColumn
<1>2. ASSUME NEW k \in Columns, CreateTask(c, k)
      PROVE  \E r : Asks(r)
  <2> DEFINE p == Top(Positions(task, k))
             r == [Idle EXCEPT !.at = "judged", !.op = "create task", !.column = k, !.position = p]
  <2>1. p \in Int
    BY PositionsAre, TopIsAbove
  <2>2. call' = [call EXCEPT ![c] = r]
    BY <1>2 DEF CreateTask
  <2> HIDE DEF p
  <2>3. r \in Judged
    BY <2>1 DEF Idle, Judged
  <2>4. IsRequest(r) /\ Carries(r) /\ r.at # "listed"
    BY <2>3, JudgedIs
  <2> QED
    BY <2>2, <2>4
<1>3. ASSUME NEW k \in Columns, NEW to \in Columns \cup {NoColumn}, DeleteColumn(c, k, to)
      PROVE  \E r : Asks(r)
  <2> DEFINE r == [Idle EXCEPT !.at = "judged", !.op = "delete column", !.column = k, !.to = to]
  <2>1. to # k
    BY <1>3 DEF DeleteColumn
  <2>2. r \in Judged
    BY <1>zero, <2>1 DEF Idle, Judged
  <2>3. IsRequest(r) /\ Carries(r) /\ r.at # "listed"
    BY <2>2, JudgedIs
  <2> QED
    BY <1>3, <2>3 DEF DeleteColumn
<1>4. ASSUME NEW t \in Tasks, UpdateTask(c, t)
      PROVE  \E r : Asks(r)
  <2> DEFINE k == task[t].column
             p == task[t].position
             r == [Idle EXCEPT !.at = "judged", !.op = "update task", !.task = t, !.column = k, !.position = p]
  <2>1. p \in Int /\ k \in Columns
    BY <1>4 DEF UpdateTask, Alive, Rows, IInv, TypeOK
  <2>2. call' = [call EXCEPT ![c] = r]
    BY <1>4 DEF UpdateTask
  <2> HIDE DEF p, k
  <2>3. r \in Judged
    BY <2>1 DEF Idle, Judged
  <2>4. IsRequest(r) /\ Carries(r) /\ r.at # "listed"
    BY <2>3, JudgedIs
  <2> QED
    BY <2>2, <2>4
<1>5. ASSUME NEW t \in Tasks, NEW k \in Columns, NEW a \in Tasks \cup {NoTask}, MoveTask(c, t, k, a)
      PROVE  \E r : Asks(r)
  <2> DEFINE r == [Idle EXCEPT !.at = "judged", !.op = "move task", !.task = t, !.column = k, !.anchor = a]
  <2>1. r \in Judged
    BY <1>zero DEF Idle, Judged
  <2>2. IsRequest(r) /\ Carries(r) /\ r.at # "listed"
    BY <2>1, JudgedIs
  <2> QED
    BY <1>5, <2>2 DEF MoveTask
<1>6. \E r : Asks(r)
  BY <1>1, <1>2, <1>3, <1>4, <1>5
<1> QED
  BY <1>0, <1>6, NewRequest

LEMMA InsertColumnKeeps ==
  ASSUME IInv, NEW c \in Calls, InsertColumn(c)
  PROVE  IInv'
<1>1. Sound /\ Calm
  BY Finished DEF InsertColumn
<1>2. Lock' /\ Faithful' /\ PlacedApart' /\ Standing' /\ Rows' = Rows
  BY <1>1, TasksStay, Zenon DEF InsertColumn
<1>3. call[c].column \in Columns
  BY DEF InsertColumn, IInv, Requests, Carries
<1>4. columns \subseteq columns' /\ columns' \subseteq Columns
  BY <1>3 DEF InsertColumn, IInv, TypeOK
<1>5. TypeOK'
  BY <1>1, <1>2, <1>4 DEF InsertColumn, IInv, TypeOK, Sound
<1>6. IsFiniteSet(columns') /\ Cardinality(columns') <= MaxColumns
  <2>1. CASE columns' = columns
    BY <2>1 DEF IInv, Finite, ColumnCap
  <2>2. CASE columns' = columns \cup {call[c].column} /\ Cardinality(columns) < MaxColumns
    <3> DEFINE k == call[c].column
    <3>1. /\ IsFiniteSet(columns \cup {k})
          /\ Cardinality(columns \cup {k}) = IF k \in columns THEN Cardinality(columns) ELSE Cardinality(columns) + 1
      BY FS_AddElement DEF IInv, Finite
    <3>2. Cardinality(columns) \in Nat
      BY FS_CardinalityType DEF IInv, Finite
    <3> QED
      BY <2>2, <3>1, <3>2, BoardConstants
  <2> QED
    BY <2>1, <2>2 DEF InsertColumn
<1> QED
  BY <1>1, <1>2, <1>5, <1>6 DEF IInv, Finite, ColumnCap, Sound

\* A step that writes tasks and places none.
LEMMA WriteKeeps ==
  ASSUME IInv, Sound, Calm, Noted,
         columns' \subseteq columns,
         task' \in [Tasks -> [column : Columns \cup {NoColumn}, position : Int, deleted : BOOLEAN,
                              placed : BOOLEAN]],
         \A t \in Rows' : task'[t].column \in columns',
         IsFiniteSet(Rows'),
         \A t \in Tasks : task'[t].placed =>
           /\ task[t].placed /\ task'[t].column = task[t].column
           /\ task'[t].position = task[t].position /\ task'[t].deleted = task[t].deleted
  PROVE  IInv'
<1>1. Standing'
  BY DEF IInv, Standing, Alive, Rows
<1>2. Lock' /\ Faithful' /\ PlacedApart'
  BY Frame DEF IInv, Standing
<1>3. TypeOK'
  BY DEF IInv, TypeOK, Sound, Noted
<1>4. IsFiniteSet(columns') /\ Cardinality(columns') <= MaxColumns
  <2>1. /\ IsFiniteSet(columns') /\ Cardinality(columns') <= Cardinality(columns)
    BY FS_Subset DEF IInv, Finite
  <2>2. Cardinality(columns') \in Nat /\ Cardinality(columns) \in Nat
    BY <2>1, FS_CardinalityType DEF IInv, Finite
  <2> QED
    BY <2>1, <2>2, BoardConstants DEF IInv, ColumnCap
<1> QED
  BY <1>1, <1>2, <1>3, <1>4 DEF IInv, Finite, ColumnCap, Sound

LEMMA RemoveColumnKeeps ==
  ASSUME IInv, NEW c \in Calls, RemoveColumn(c)
  PROVE  IInv'
<1> DEFINE k == call[c].column
           to == call[c].to
<1>1. Sound /\ Calm /\ Noted /\ to # k
  BY Finished, IntrudesNotes DEF RemoveColumn, IInv, Requests, Carries
<1>2. \/ UNCHANGED <<columns, task>>
      \/ /\ columns' = columns \ {k} /\ (In(k) = {} \/ to \in columns)
         /\ task' = [t \in Tasks |-> IF t \in In(k) /\ to # NoColumn
                                     THEN [task[t] EXCEPT !.column = to, !.placed = FALSE] ELSE task[t]]
  BY DEF RemoveColumn
<1>3. CASE UNCHANGED <<columns, task>>
  BY <1>1, <1>3, WriteKeeps DEF IInv, TypeOK, Finite, Rows
<1>4. CASE /\ columns' = columns \ {k} /\ (In(k) = {} \/ to \in columns)
           /\ task' = [t \in Tasks |-> IF t \in In(k) /\ to # NoColumn
                                       THEN [task[t] EXCEPT !.column = to, !.placed = FALSE] ELSE task[t]]
  <2>1. \A t \in Tasks :
          \/ /\ t \in In(k) /\ to # NoColumn /\ to \in columns
             /\ task'[t] = [task[t] EXCEPT !.column = to, !.placed = FALSE]
          \/ t \notin In(k) /\ task'[t] = task[t]
    <3>1. columns \subseteq Columns /\ NoColumn \notin Columns
      BY BoardConstants DEF IInv, TypeOK
    <3>2. In(k) # {} => to # NoColumn
      BY <1>4, <3>1
    <3> HIDE DEF k, to
    <3> QED
      BY <1>4, <3>1, <3>2
  <2>2. \A t \in Tasks :
          /\ task'[t] \in [column : Columns \cup {NoColumn}, position : Int, deleted : BOOLEAN, placed : BOOLEAN]
          /\ t \in Rows' <=> t \in Rows
          /\ t \in Rows' => task'[t].column \in columns'
          /\ task'[t].placed => task'[t] = task[t]
    <3> SUFFICES ASSUME NEW t \in Tasks
                 PROVE  /\ task'[t] \in [column : Columns \cup {NoColumn}, position : Int, deleted : BOOLEAN,
                                         placed : BOOLEAN]
                        /\ t \in Rows' <=> t \in Rows
                        /\ t \in Rows' => task'[t].column \in columns'
                        /\ task'[t].placed => task'[t] = task[t]
      OBVIOUS
    <3>1. task[t] \in [column : Columns \cup {NoColumn}, position : Int, deleted : BOOLEAN, placed : BOOLEAN]
      BY DEF IInv, TypeOK
    <3>2. CASE t \in In(k) /\ to # NoColumn /\ to \in columns /\ task'[t] = [task[t] EXCEPT !.column = to, !.placed = FALSE]
      <4>1. task'[t].column = to /\ task'[t].placed = FALSE /\ to \in Columns
        BY <3>1, <3>2 DEF IInv, TypeOK
      <4>2. task'[t] \in [column : Columns \cup {NoColumn}, position : Int, deleted : BOOLEAN, placed : BOOLEAN]
        BY <3>1, <3>2, <4>1
      <4> QED
        BY <1>1, <1>4, <3>2, <4>1, <4>2 DEF Rows, In
    <3>3. CASE t \notin In(k) /\ task'[t] = task[t]
      BY <1>4, <3>1, <3>3 DEF Rows, In, IInv, TypeOK
    <3> QED
      BY <2>1, <3>2, <3>3
  <2>3. Rows' = Rows
    BY <2>2 DEF Rows
  <2>4. task' \in [Tasks -> [column : Columns \cup {NoColumn}, position : Int, deleted : BOOLEAN, placed : BOOLEAN]]
    BY <1>4, <2>2, Zenon
  <2>5. \A t \in Rows' : task'[t].column \in columns'
    BY <2>2 DEF Rows
  <2>6. columns' \subseteq columns /\ IsFiniteSet(Rows')
    BY <1>4, <2>3 DEF IInv, Finite
  <2>7. \A t \in Tasks : task'[t].placed =>
           /\ task[t].placed /\ task'[t].column = task[t].column
           /\ task'[t].position = task[t].position /\ task'[t].deleted = task[t].deleted
    BY <2>2
  <2> QED
    BY <1>1, <2>4, <2>5, <2>6, <2>7, WriteKeeps
<1> QED
  BY <1>2, <1>3, <1>4

\* The rows when one of them is written.
LEMMA RowWritten ==
  ASSUME IInv, NEW t \in Tasks, NEW row,
         row \in [column : columns, position : Int, deleted : BOOLEAN, placed : BOOLEAN],
         task' = [task EXCEPT ![t] = row], columns' = columns
  PROVE  /\ task' \in [Tasks -> [column : Columns \cup {NoColumn}, position : Int, deleted : BOOLEAN,
                                 placed : BOOLEAN]]
         /\ Rows' = Rows \cup {t} /\ IsFiniteSet(Rows')
         /\ \A u \in Rows' : task'[u].column \in columns'
         /\ task'[t] = row /\ \A u \in Tasks \ {t} : task'[u] = task[u]
<1>1. columns \subseteq Columns /\ NoColumn \notin columns
  BY BoardConstants DEF IInv, TypeOK
<1>2. row \in [column : Columns \cup {NoColumn}, position : Int, deleted : BOOLEAN, placed : BOOLEAN]
  BY <1>1
<1>3. task'[t] = row /\ \A u \in Tasks \ {t} : task'[u] = task[u]
  BY DEF IInv, TypeOK
<1>4. task' \in [Tasks -> [column : Columns \cup {NoColumn}, position : Int, deleted : BOOLEAN, placed : BOOLEAN]]
  BY <1>2 DEF IInv, TypeOK
<1>5. Rows' = Rows \cup {t}
  BY <1>1, <1>3 DEF Rows
<1>6. IsFiniteSet(Rows')
  BY <1>5, FS_AddElement DEF IInv, Finite
<1>7. \A u \in Rows' : task'[u].column \in columns'
  BY <1>3, <1>5 DEF IInv, TypeOK
<1> QED
  BY <1>3, <1>4, <1>5, <1>6, <1>7

\* A step that writes one row of a task that no move has placed, or not there.
LEMMA RowKeeps ==
  ASSUME IInv, Sound, Calm, Noted, NEW t \in Tasks, NEW row,
         row \in [column : columns, position : Int, deleted : BOOLEAN, placed : BOOLEAN],
         task' = [task EXCEPT ![t] = row], columns' = columns,
         row.placed => task[t].placed /\ row.column = task[t].column /\ row.position = task[t].position
                         /\ row.deleted = task[t].deleted
  PROVE  IInv'
<1>1. /\ task' \in [Tasks -> [column : Columns \cup {NoColumn}, position : Int, deleted : BOOLEAN,
                              placed : BOOLEAN]]
      /\ Rows' = Rows \cup {t} /\ IsFiniteSet(Rows')
      /\ \A u \in Rows' : task'[u].column \in columns'
      /\ task'[t] = row /\ \A u \in Tasks \ {t} : task'[u] = task[u]
  BY RowWritten
<1>2. \A u \in Tasks : task'[u].placed =>
        /\ task[u].placed /\ task'[u].column = task[u].column
        /\ task'[u].position = task[u].position /\ task'[u].deleted = task[u].deleted
  BY <1>1
<1> QED
  BY <1>1, <1>2, WriteKeeps

LEMMA NothingWritten ==
  ASSUME IInv, Sound, Calm, Noted, UNCHANGED <<columns, task>>
  PROVE  IInv'
BY WriteKeeps DEF IInv, TypeOK, Finite, Rows

LEMMA InsertTaskKeeps ==
  ASSUME IInv, NEW c \in Calls, NEW t \in Tasks, InsertTask(c, t)
  PROVE  IInv'
<1> DEFINE k == call[c].column
           p == call[c].position
           row == [NoRow EXCEPT !.column = k, !.position = p]
<1>1. Sound /\ Calm /\ Noted /\ columns' = columns
  BY Finished, IntrudesNotes DEF InsertTask
<1>2. p \in Int
  BY DEF IInv, TypeOK, IsRequest
<1>3. \/ k \in columns /\ task' = [task EXCEPT ![t] = row]
      \/ task' = task
  BY DEF InsertTask
<1>4. CASE task' = task
  BY <1>1, <1>4, NothingWritten
<1>5. CASE k \in columns /\ task' = [task EXCEPT ![t] = row]
  <2> HIDE DEF k, p
  <2>1. row \in [column : columns, position : Int, deleted : BOOLEAN, placed : BOOLEAN] /\ row.placed = FALSE
    BY <1>2, <1>5 DEF NoRow
  <2> HIDE DEF row
  <2> QED
    BY <1>1, <1>5, <2>1, RowKeeps
<1> QED
  BY <1>3, <1>4, <1>5

LEMMA WriteTaskKeeps ==
  ASSUME IInv, NEW c \in Calls, WriteTask(c)
  PROVE  IInv'
<1> DEFINE t == call[c].task
           k == call[c].column
           p == call[c].position
           same == task[t].column = k /\ task[t].position = p
           row == [column |-> k, position |-> p, deleted |-> FALSE, placed |-> task[t].placed /\ same]
<1>1. Sound /\ Calm /\ Noted /\ columns' = columns
  BY Finished, IntrudesNotes DEF WriteTask
<1>2. p \in Int /\ t \in Tasks
  BY DEF WriteTask, IInv, TypeOK, IsRequest, Requests, Carries
<1>3. \/ Alive(t) /\ k \in columns /\ task' = [task EXCEPT ![t] = row]
      \/ task' = task
  BY DEF WriteTask
<1>4. CASE task' = task
  BY <1>1, <1>4, NothingWritten
<1>5. CASE Alive(t) /\ k \in columns /\ task' = [task EXCEPT ![t] = row]
  <2> HIDE DEF k, p, t
  <2>1. task[t].deleted = FALSE
    BY <1>2, <1>5 DEF Alive, IInv, TypeOK
  <2>2. row \in [column : columns, position : Int, deleted : BOOLEAN, placed : BOOLEAN]
    BY <1>2, <1>5
  <2>3. row.placed => task[t].placed /\ row.column = task[t].column /\ row.position = task[t].position
                        /\ row.deleted = task[t].deleted
    BY <2>1
  <2> HIDE DEF row
  <2> QED
    BY <1>1, <1>2, <1>5, <2>2, <2>3, RowKeeps
<1> QED
  BY <1>3, <1>4, <1>5

LEMMA DeletionKeeps ==
  ASSUME IInv, NEW t \in Tasks, DeleteTask(t) \/ RestoreTask(t)
  PROVE  IInv'
<1> DEFINE row == [task[t] EXCEPT !.deleted = ~task[t].deleted, !.placed = FALSE]
<1>1. t \in Rows /\ columns' = columns /\ call' = call
  BY DEF DeleteTask, RestoreTask, Alive
<1>2. task[t] \in [column : columns, position : Int, deleted : BOOLEAN, placed : BOOLEAN]
  BY <1>1 DEF IInv, TypeOK
<1>3. row \in [column : columns, position : Int, deleted : BOOLEAN, placed : BOOLEAN] /\ row.placed = FALSE
  BY <1>2
<1>4. task' = [task EXCEPT ![t] = row]
  <2>1. CASE DeleteTask(t)
    BY <1>2, <2>1 DEF DeleteTask, Alive
  <2>2. CASE RestoreTask(t)
    <3>1. task[t].placed = FALSE /\ task[t].deleted
      BY <1>2, <2>2 DEF RestoreTask, IInv, Standing, Alive
    <3> QED
      BY <1>2, <2>2, <3>1 DEF RestoreTask
  <2> QED
    BY <2>1, <2>2
<1>5. Noted
  <2>1. CASE DeleteTask(t)
    <3>1. /\ row.deleted = TRUE /\ task'[t] = row /\ \A u \in Tasks \ {t} : task'[u] = task[u]
      BY <1>2, <1>4, <2>1 DEF DeleteTask, Alive, IInv, TypeOK
    <3>2. intruded' = intruded
      BY <2>1 DEF DeleteTask
    <3> HIDE DEF row
    <3> QED
      BY <3>1, <3>2 DEF Noted, Live, In, Rows, IInv, TypeOK
  <2>2. CASE RestoreTask(t)
    BY <2>2, IntrudesNotes DEF RestoreTask
  <2> QED
    BY <2>1, <2>2
<1> HIDE DEF row
<1>6. Sound /\ Calm
  BY <1>1, Untouched
<1> QED
  BY <1>1, <1>3, <1>4, <1>5, <1>6, RowKeeps

\* The lock is free when a move takes it, and the table it lists is the column as it is.
LEMMA ListKeeps ==
  ASSUME IInv, NEW c \in Calls, ListColumnPositions(c)
  PROVE  IInv'
<1> DEFINE k == call[c].column
           at == Positions(task, k)
           r == [call[c] EXCEPT !.at = "listed", !.listed = at]
<1>1. /\ UNCHANGED <<columns, task, intruded>> /\ ~Locked(k)
      /\ call[c].at = "judged" /\ call[c].op = "move task"
      /\ k \in Columns /\ IsRequest(call[c]) /\ Carries(call[c])
  BY DEF ListColumnPositions, IInv, TypeOK, Requests, Carries
<1>2. /\ Table(at) /\ DOMAIN at = Live(k) /\ DOMAIN at \subseteq Tasks
      /\ \A t \in Live(k) : at[t] = task[t].position /\ task[t].position \in Int
  BY <1>1, PositionsAre
<1>3. CASE Finish(c)
  <2>1. Sound /\ Calm
    BY <1>3, Finished
  <2>2. Noted
    BY <1>1 DEF Noted, Live, In, Rows, IInv, TypeOK
  <2> QED
    BY <1>1, <2>1, <2>2, NothingWritten
<1>4. CASE /\ call[c].anchor # NoTask => call[c].anchor # call[c].task /\ call[c].anchor \in DOMAIN at
           /\ call' = [call EXCEPT ![c].at = "listed", ![c].listed = at]
  <2>1. call' = [call EXCEPT ![c] = r]
    BY <1>1, <1>4 DEF IInv, TypeOK
  <2> HIDE DEF at
  <2>2. /\ r.at = "listed" /\ r.listed = at /\ r.op = call[c].op /\ r.task = call[c].task
        /\ r.column = k /\ r.anchor = call[c].anchor /\ r.to = call[c].to /\ r.position = call[c].position
    BY <1>1 DEF IsRequest
  <2>3. IsRequest(r)
    <3>1. r \in [at : {"new", "judged", "listed", "done"},
                 op : {"none", "create column", "delete column", "create task", "update task", "move task"},
                 task : Tasks \cup {NoTask}, column : Columns \cup {NoColumn},
                 anchor : Tasks \cup {NoTask}, to : Columns \cup {NoColumn},
                 position : Int, listed : {at}]
      BY <1>1 DEF IsRequest
    <3> HIDE DEF r
    <3> QED
      BY <1>2, <2>2, <3>1 DEF IsRequest
  <2> HIDE DEF r, k
  <2>4. Carries(r)
    BY <1>1, <1>2, <1>4, <2>2 DEF Carries
  <2>5. Sound
    BY <2>1, <2>3, <2>4, Called
  <2>6. call'[c] = r /\ \A d \in Calls \ {c} : call'[d] = call[d]
    BY <2>1 DEF IInv, TypeOK
  <2>7. Lock'
    <3> SUFFICES ASSUME NEW d \in Calls \ {c}, call[d].at = "listed", call[d].column = k PROVE FALSE
      BY <2>2, <2>6 DEF IInv, Lock
    <3> QED
      BY <1>1 DEF Locked
  <2>8. Faithful'
    <3>1. \A q : Live(q)' = Live(q)
      BY <1>1 DEF Live, In, Rows
    <3>2. ASSUME NEW t \in Live(k) PROVE t \in DOMAIN r.listed /\ r.listed[t] = task[t].position
      BY <1>2, <2>2
    <3> SUFFICES ASSUME NEW d \in Calls, call'[d].at = "listed", NEW t \in Live(call'[d].column),
                        task[t].placed \/ call'[d].column \notin intruded
                 PROVE  t \in DOMAIN call'[d].listed /\ call'[d].listed[t] = task[t].position
      BY <1>1, <3>1, Zenon DEF Faithful
    <3>3. CASE d = c
      BY <2>2, <2>6, <3>2, <3>3
    <3>4. CASE d # c
      <4>1. call'[d] = call[d]
        BY <2>6, <3>4
      <4> QED
        BY <4>1 DEF IInv, Faithful
    <3> QED
      BY <3>3, <3>4
  <2>9. PlacedApart' /\ Standing' /\ Rows' = Rows
    BY <1>1 DEF IInv, PlacedApart, Standing, Alive, Rows
  <2>10. TypeOK' /\ Finite' /\ ColumnCap' /\ Requests'
    BY <1>1, <2>5, <2>9 DEF IInv, TypeOK, Finite, ColumnCap, Sound
  <2> QED
    BY <2>7, <2>8, <2>9, <2>10 DEF IInv
<1> QED
  BY <1>3, <1>4 DEF ListColumnPositions

-----------------------------------------------------------------------------
(* The commit of a move. *)

\* The tasks and the listing a commit computes the place from, and that place.
Base(c)   == IF MustRenormalize(c) THEN Renormalized(c) ELSE task
Second(c) == IF MustRenormalize(c) THEN Positions(Base(c), call[c].column) ELSE call[c].listed
Dest(c)   == IF call[c].anchor = NoTask THEN Top(Second(c)) ELSE After(Second(c), call[c].task, call[c].anchor)
Moved(c)  == [column |-> call[c].column, position |-> Dest(c), deleted |-> FALSE, placed |-> TRUE]

LEMMA CommitIs ==
  ASSUME NEW c, CommitMove(c)
  PROVE  /\ call[c].at = "listed" /\ Finish(c) /\ UNCHANGED <<columns, intruded>>
         /\ \/ task' = task
            \/ /\ call[c].anchor = NoTask \/ call[c].anchor \in DOMAIN Second(c)
               /\ Alive(call[c].task) /\ call[c].column \in columns
               /\ task' = [Base(c) EXCEPT ![call[c].task] = Moved(c)]
BY DEF CommitMove, Base, Second, Dest, Moved

\* What a move that holds the lock carries.
LEMMA ListedIs ==
  ASSUME IInv, NEW c \in Calls, call[c].at = "listed"
  PROVE  /\ call[c].column \in Columns /\ call[c].task \in Tasks /\ Table(call[c].listed)
         /\ call[c].anchor # NoTask => call[c].anchor \in DOMAIN call[c].listed \ {call[c].task}
BY DEF IInv, Requests, Carries

\* A renormalisation changes no more than the positions of the live tasks of the column.
LEMMA BaseIs ==
  ASSUME IInv, NEW c \in Calls, call[c].at = "listed", NEW u \in Tasks
  PROVE  /\ DOMAIN Base(c) = Tasks
         /\ Base(c)[u] \in [column : Columns \cup {NoColumn}, position : Int, deleted : BOOLEAN, placed : BOOLEAN]
         /\ Base(c)[u].column = task[u].column /\ Base(c)[u].deleted = task[u].deleted
         /\ Base(c)[u].placed = task[u].placed
         /\ u \notin Live(call[c].column) => Base(c)[u] = task[u]
         /\ ~MustRenormalize(c) => Base(c)[u] = task[u]
         /\ MustRenormalize(c) /\ u \in Live(call[c].column) /\ u \in DOMAIN call[c].listed =>
              Base(c)[u].position = Place(call[c].listed, u) * One
<1> DEFINE listed == call[c].listed
           p == Place(listed, u) * One
<1>1. Place(listed, u) \in Nat /\ One \in Nat
  BY ListedIs, PlaceIsNat, BoardConstants
<1>2. p \in Int
  BY <1>1
<1>3. task[u] \in [column : Columns \cup {NoColumn}, position : Int, deleted : BOOLEAN, placed : BOOLEAN]
  BY DEF IInv, TypeOK
<1>4. DOMAIN task = Tasks
  BY DEF IInv, TypeOK
<1>5. CASE ~MustRenormalize(c)
  BY <1>3, <1>4, <1>5 DEF Base
<1>6. CASE MustRenormalize(c) /\ u \in DOMAIN listed /\ u \in Live(call[c].column)
  <2>1. Base(c)[u] = [task[u] EXCEPT !.position = p] /\ DOMAIN Base(c) = Tasks
    BY <1>6 DEF Base, Renormalized
  <2> HIDE DEF p
  <2>2. Base(c)[u] \in [column : Columns \cup {NoColumn}, position : Int, deleted : BOOLEAN, placed : BOOLEAN]
    BY <1>2, <1>3, <2>1
  <2>3. /\ Base(c)[u].position = p /\ Base(c)[u].column = task[u].column
        /\ Base(c)[u].deleted = task[u].deleted /\ Base(c)[u].placed = task[u].placed
    BY <1>3, <2>1
  <2> QED
    BY <1>6, <2>1, <2>2, <2>3 DEF p
<1>7. CASE MustRenormalize(c) /\ ~(u \in DOMAIN listed /\ u \in Live(call[c].column))
  <2>1. Base(c)[u] = task[u] /\ DOMAIN Base(c) = Tasks
    BY <1>7 DEF Base, Renormalized
  <2> QED
    BY <1>3, <1>7, <2>1
<1> QED
  BY <1>5, <1>6, <1>7

\* Two tasks of which the listing is right keep their order, and a renormalisation sets
\* them a whole step apart.
LEMMA BaseInOrder ==
  ASSUME IInv, NEW c \in Calls, call[c].at = "listed",
         NEW u \in Live(call[c].column), NEW w \in Live(call[c].column), u # w,
         u \in DOMAIN call[c].listed, w \in DOMAIN call[c].listed,
         call[c].listed[u] = task[u].position, call[c].listed[w] = task[w].position
  PROVE  /\ task[u].position < task[w].position => Base(c)[u].position < Base(c)[w].position
         /\ MustRenormalize(c) => \/ Base(c)[u].position + One <= Base(c)[w].position
                                  \/ Base(c)[w].position + One <= Base(c)[u].position
<1> DEFINE listed == call[c].listed
           m == Place(listed, u)
           n == Place(listed, w)
<1>1. /\ m \in Nat /\ n \in Nat /\ (Before(listed, u, w) \/ Before(listed, w, u))
      /\ Before(listed, u, w) => m < n
      /\ task[u].position < task[w].position => Before(listed, u, w)
  BY ListedIs, PlacesInOrder
<1>2. Before(listed, w, u) => n < m
  BY ListedIs, PlacesInOrder
<1>3. u \in Tasks /\ w \in Tasks
  BY DEF Live, In, Rows
<1>4. CASE ~MustRenormalize(c)
  BY <1>3, <1>4, BaseIs
<1>5. CASE MustRenormalize(c)
  <2>1. Base(c)[u].position = m * One /\ Base(c)[w].position = n * One
    BY <1>3, <1>5, BaseIs
  <2>2. One \in Nat \ {0}
    BY BoardConstants
  <2> HIDE DEF m, n
  <2>3. \A i, j \in Nat : i < j => i * One + One <= j * One
    <3> SUFFICES ASSUME NEW i \in Nat, NEW j \in Nat, i < j PROVE i * One + One <= j * One
      OBVIOUS
    <3>1. PICK d \in Nat : j = i + 1 + d
      <4>1. j - i - 1 \in Nat /\ j = i + 1 + (j - i - 1)
        OBVIOUS
      <4> QED
        BY <4>1
    <3>2. d * One \in Nat /\ i * One \in Nat
      BY <2>2
    <3>3. j * One = i * One + One + d * One
      BY <2>2, <3>1
    <3> QED
      BY <2>2, <3>2, <3>3
  <2>4. m * One \in Int /\ n * One \in Int
    BY <1>1, <2>2
  <2>5. m < n => m * One + One <= n * One
    BY <1>1, <2>3
  <2>6. n < m => n * One + One <= m * One
    BY <1>1, <2>3
  <2>7. m < n => m * One < n * One
    BY <2>2, <2>4, <2>5
  <2> QED
    BY <1>1, <1>2, <2>1, <2>5, <2>6, <2>7
<1> QED
  BY <1>4, <1>5

\* The listing the place is computed from is true of the base.
LEMMA SecondIs ==
  ASSUME IInv, NEW c \in Calls, call[c].at = "listed"
  PROVE  /\ Table(Second(c))
         /\ MustRenormalize(c) => DOMAIN Second(c) = Live(call[c].column)
         /\ \A u \in Live(call[c].column) :
              u \in DOMAIN call[c].listed /\ call[c].listed[u] = task[u].position =>
                u \in DOMAIN Second(c) /\ Second(c)[u] = Base(c)[u].position
<1> DEFINE k == call[c].column
<1>1. k \in Columns /\ Table(call[c].listed) /\ Live(k) \subseteq Tasks
  BY ListedIs DEF Live, In, Rows
<1>2. CASE ~MustRenormalize(c)
  BY <1>1, <1>2, BaseIs DEF Second
<1>3. CASE MustRenormalize(c)
  <2>1. Second(c) = Positions(Base(c), k)
    BY <1>3 DEF Second
  <2>2. DOMAIN Second(c) = {u \in Tasks : Base(c)[u].column = k /\ ~Base(c)[u].deleted}
    BY <2>1 DEF Positions
  <2>3. DOMAIN Second(c) = Live(k)
    <3>1. \A u \in Tasks : Base(c)[u].column = task[u].column /\ Base(c)[u].deleted = task[u].deleted
      BY BaseIs
    <3>2. k # NoColumn
      BY <1>1, BoardConstants
    <3>3. Live(k) = {u \in Tasks : task[u].column = k /\ ~task[u].deleted}
      BY <3>2 DEF Live, In, Rows
    <3> QED
      BY <2>2, <3>1, <3>3
  <2>4. \A u \in Live(k) : Second(c)[u] = Base(c)[u].position
    BY <2>1, <2>2, <2>3 DEF Positions
  <2>5. \A u \in Live(k) : Second(c)[u] \in Int
    BY <1>1, <2>4, BaseIs
  <2>6. Live(k) \subseteq Nat /\ IsFiniteSet(Live(k))
    BY <1>1, PositionsAre DEF Table
  <2> QED
    BY <1>3, <2>3, <2>4, <2>5, <2>6 DEF Table
<1> QED
  BY <1>2, <1>3

\* After a renormalisation no gap of a column that nothing has entered is too tight.
LEMMA GapIsWide ==
  ASSUME IInv, NEW c \in Calls, call[c].at = "listed", call[c].column \notin intruded,
         call[c].anchor # NoTask, call[c].anchor \in DOMAIN Second(c)
  PROVE  ~TooTight(Second(c), call[c].task, call[c].anchor)
<1> DEFINE at == Second(c)
           t == call[c].task
           a == call[c].anchor
           F == Followers(at, t, a)
           n == Next1(at, t, a)
<1>1. CASE ~MustRenormalize(c)
  BY <1>1 DEF MustRenormalize, Second
<1>2. CASE MustRenormalize(c) /\ F = {}
  <2>1. Gap(at, t, a) = 2 * One
    BY <1>2 DEF Gap
  <2> QED
    BY <2>1, BoardConstants DEF TooTight
<1>3. CASE MustRenormalize(c) /\ F # {}
  <2>1. Table(at) /\ DOMAIN at = Live(call[c].column)
    BY <1>3, SecondIs
  <2>2. F \subseteq DOMAIN at
    BY DEF Followers
  <2>3. n \in F
    BY <1>3, <2>1, <2>2, FirstOf DEF Next1
  <2>4. n \in Live(call[c].column) /\ a \in Live(call[c].column) /\ Before(at, a, n)
    BY <2>1, <2>3 DEF Followers
  <2>5. at[n] \in Int /\ at[a] \in Int /\ n \in Nat /\ a \in Nat
    BY <2>1, <2>4 DEF Table
  <2>6. a # n /\ at[a] <= at[n]
    BY <2>4, <2>5 DEF Before
  <2>7. \A u \in Live(call[c].column) : u \in DOMAIN call[c].listed /\ call[c].listed[u] = task[u].position
    BY DEF IInv, Faithful
  <2>8. at[n] = Base(c)[n].position /\ at[a] = Base(c)[a].position
    BY <2>4, <2>7, SecondIs
  <2>9. at[a] + One <= at[n] \/ at[n] + One <= at[a]
    <3>1. \/ Base(c)[a].position + One <= Base(c)[n].position
          \/ Base(c)[n].position + One <= Base(c)[a].position
      BY <1>3, <2>4, <2>6, <2>7, BaseInOrder
    <3> QED
      BY <2>8, <3>1
  <2>10. Gap(at, t, a) = at[n] - at[a]
    BY <1>3 DEF Gap
  <2>11. One \in Nat /\ One >= 2
    BY BoardConstants
  <2> HIDE DEF at, n, F
  <2>12. Gap(at, t, a) >= 2
    BY <2>5, <2>6, <2>9, <2>10, <2>11
  <2>13. Gap(at, t, a) \in Int
    BY <2>5, <2>10
  <2> QED
    BY <2>12, <2>13 DEF TooTight, at
<1> QED
  BY <1>1, <1>2, <1>3

\* No other task is where a move goes.
LEMMA DestIsFree ==
  ASSUME IInv, NEW c \in Calls, call[c].at = "listed",
         call[c].anchor = NoTask \/ call[c].anchor \in DOMAIN Second(c)
  PROVE  /\ Dest(c) \in Int
         /\ call[c].column \notin intruded =>
              \A u \in Live(call[c].column) \ {call[c].task} : Base(c)[u].position # Dest(c)
<1>1. Table(Second(c))
  BY SecondIs
<1>2. Dest(c) \in Int
  BY <1>1, TopIsAbove, AfterIsFree DEF Dest
<1>3. ASSUME call[c].column \notin intruded, NEW u \in Live(call[c].column) \ {call[c].task}
      PROVE  Base(c)[u].position # Dest(c)
  <2>1. u \in DOMAIN call[c].listed /\ call[c].listed[u] = task[u].position
    BY <1>3 DEF IInv, Faithful
  <2>2. u \in DOMAIN Second(c) /\ Second(c)[u] = Base(c)[u].position
    BY <2>1, SecondIs
  <2>3. CASE call[c].anchor = NoTask
    <3>1. Dest(c) < Second(c)[u] /\ Second(c)[u] \in Int
      BY <1>1, <2>2, <2>3, TopIsAbove DEF Dest, Table
    <3> QED
      BY <1>2, <2>2, <3>1
  <2>4. CASE call[c].anchor # NoTask
    <3>1. ~TooTight(Second(c), call[c].task, call[c].anchor)
      BY <1>3, <2>4, GapIsWide
    <3>2. Second(c)[u] # After(Second(c), call[c].task, call[c].anchor)
      BY <1>1, <1>3, <2>2, <2>4, <3>1, AfterIsFree
    <3> QED
      BY <2>2, <2>4, <3>2 DEF Dest
  <2> QED
    BY <2>3, <2>4
<1> QED
  BY <1>2, <1>3

LEMMA CommitKeeps ==
  ASSUME IInv, NEW c \in Calls, CommitMove(c)
  PROVE  IInv'
<1> DEFINE k == call[c].column
           t == call[c].task
           a == call[c].anchor
<1>1. call[c].at = "listed" /\ Finish(c) /\ UNCHANGED <<columns, intruded>>
  BY CommitIs
<1>2. k \in Columns /\ t \in Tasks /\ Table(call[c].listed)
  BY <1>1, ListedIs
<1>3. Sound /\ Calm
  BY <1>1, Finished
<1>4. CASE task' = task
  <2>1. Noted
    BY <1>1, <1>4 DEF Noted, Live, In, Rows, IInv, TypeOK
  <2> QED
    BY <1>1, <1>3, <1>4, <2>1, NothingWritten
<1>5. CASE /\ a = NoTask \/ a \in DOMAIN Second(c)
           /\ Alive(t) /\ k \in columns /\ task' = [Base(c) EXCEPT ![t] = Moved(c)]
  <2> DEFINE Row == [column : Columns \cup {NoColumn}, position : Int, deleted : BOOLEAN, placed : BOOLEAN]
  <2>1. /\ Dest(c) \in Int
        /\ k \notin intruded => \A u \in Live(k) \ {t} : Base(c)[u].position # Dest(c)
    BY <1>1, <1>5, DestIsFree
  <2>2. /\ Moved(c) \in Row /\ Moved(c).column = k /\ Moved(c).position = Dest(c)
        /\ Moved(c).deleted = FALSE /\ Moved(c).placed = TRUE
    BY <1>2, <2>1 DEF Moved
  <2>3. DOMAIN Base(c) = Tasks /\ \A u \in Tasks : Base(c)[u] \in Row
    BY <1>1, <1>2, BaseIs
  <2>4. task'[t] = Moved(c) /\ \A u \in Tasks \ {t} : task'[u] = Base(c)[u]
    BY <1>2, <1>5, <2>3
  <2>5. task' \in [Tasks -> Row]
    <3>1. \A u \in Tasks : task'[u] \in Row
      BY <2>2, <2>3, <2>4
    <3>2. task' = [u \in Tasks |-> task'[u]]
      BY <1>5, <2>3
    <3> HIDE DEF Row
    <3> QED
      BY <3>1, <3>2
  <2>6. \A u \in Tasks \ {t} :
          /\ task'[u].column = task[u].column /\ task'[u].deleted = task[u].deleted
          /\ task'[u].placed = task[u].placed
          /\ u \notin Live(k) => task'[u].position = task[u].position
    BY <1>1, <2>4, BaseIs
  <2>7. Rows' = Rows
    <3>1. t \in Rows /\ k # NoColumn
      BY <1>2, <1>5, BoardConstants DEF Alive
    <3> QED
      BY <2>2, <2>4, <2>6, <3>1 DEF Rows
  <2>8. \A u \in Rows' : task'[u].column \in columns'
    BY <1>1, <1>5, <2>2, <2>4, <2>6, <2>7 DEF IInv, TypeOK, Rows
  <2>9. TypeOK' /\ Finite' /\ ColumnCap' /\ Requests'
    BY <1>1, <1>3, <2>5, <2>7, <2>8 DEF IInv, TypeOK, Finite, ColumnCap, Sound
  <2>10. Standing'
    <3> SUFFICES ASSUME NEW u \in Tasks, task'[u].placed PROVE Alive(u)'
      BY DEF Standing
    <3>1. CASE u = t
      BY <1>5, <2>2, <2>4, <2>7, <3>1 DEF Alive
    <3>2. CASE u # t
      BY <2>6, <2>7, <3>2 DEF IInv, Standing, Alive
    <3> QED
      BY <3>1, <3>2
  <2>11. Lock'
    BY <1>3 DEF Calm, IInv, Lock
  <2>12. \A d \in Calls : call'[d].at = "listed" =>
           /\ call'[d] = call[d] /\ call[d].at = "listed" /\ call[d].column # k
    <3> SUFFICES ASSUME NEW d \in Calls, call'[d].at = "listed"
                 PROVE  call'[d] = call[d] /\ call[d].at = "listed" /\ call[d].column # k
      OBVIOUS
    <3>1. call'[d] = call[d] /\ call[d].at = "listed"
      BY <1>3 DEF Calm
    <3>2. d # c
      BY <1>1, DoneIs DEF Finish, IInv, TypeOK
    <3> QED
      BY <1>1, <3>1, <3>2 DEF IInv, Lock
  <2>13. Faithful'
    <3> SUFFICES ASSUME NEW d \in Calls, (call[d].at = "listed")', NEW u \in Live(call[d].column)',
                        (task[u].placed \/ call[d].column \notin intruded)'
                 PROVE  (u \in DOMAIN call[d].listed /\ call[d].listed[u] = task[u].position)'
      BY DEF Faithful
    <3> DEFINE q == call[d].column
    <3>1. call'[d] = call[d] /\ call[d].at = "listed" /\ q # k
      BY <2>12
    <3>2. u \in Tasks /\ task'[u].column = q /\ ~task'[u].deleted /\ u \in Rows
      BY <2>7, <3>1 DEF Live, In, Rows
    <3>3. u # t
      BY <2>2, <2>4, <3>1, <3>2
    <3>4. task[u].column = q /\ u \in Live(q) /\ u \notin Live(k)
      BY <2>6, <3>1, <3>2, <3>3 DEF Live, In
    <3>5. task'[u].position = task[u].position /\ task'[u].placed = task[u].placed
      BY <2>6, <3>2, <3>3, <3>4
    <3>6. u \in DOMAIN call[d].listed /\ call[d].listed[u] = task[u].position
      BY <1>1, <3>1, <3>4, <3>5 DEF IInv, Faithful
    <3> QED
      BY <3>1, <3>5, <3>6
  <2>14. PlacedApart'
    <3> SUFFICES ASSUME NEW x \in Tasks, NEW y \in Tasks, x # y, Alive(x)', Alive(y)',
                        task'[x].column = task'[y].column, task'[x].placed, task'[y].placed,
                        task'[x].column \notin intruded
                 PROVE  task'[x].position # task'[y].position
      BY <1>1, Zenon DEF PlacedApart
    <3>1. \A u \in Tasks \ {t} : Alive(u)' => Alive(u)
      BY <2>6, <2>7 DEF Alive
    <3>2. \A u \in Tasks \ {t} : Alive(u)' /\ task'[u].column = k => u \in Live(k)
      BY <2>6, <3>1 DEF Alive, Live, In
    <3>3. CASE x = t \/ y = t
      BY <1>1, <2>1, <2>2, <2>4, <3>2, <3>3
    <3>4. CASE x # t /\ y # t /\ task'[x].column # k
      <4>1. x \notin Live(k) /\ y \notin Live(k)
        BY <2>6, <3>4 DEF Live, In
      <4>2. task'[x].position = task[x].position /\ task'[y].position = task[y].position
        BY <2>6, <3>4, <4>1
      <4> QED
        BY <2>6, <3>1, <3>4, <4>2 DEF IInv, PlacedApart
    <3>5. CASE x # t /\ y # t /\ task'[x].column = k
      <4>1. x \in Live(k) /\ y \in Live(k) /\ k \notin intruded
        BY <3>2, <3>5
      <4>2. \A u \in Live(k) : u \in DOMAIN call[c].listed /\ call[c].listed[u] = task[u].position
        BY <1>1, <4>1 DEF IInv, Faithful
      <4>3. task[x].position # task[y].position
        BY <2>6, <3>1, <3>5 DEF IInv, PlacedApart
      <4>4. task[x].position < task[y].position \/ task[y].position < task[x].position
        BY <4>3 DEF IInv, TypeOK
      <4>5. /\ task[x].position < task[y].position => Base(c)[x].position < Base(c)[y].position
            /\ task[y].position < task[x].position => Base(c)[y].position < Base(c)[x].position
        BY <1>1, <4>1, <4>2, BaseInOrder
      <4>6. Base(c)[x].position \in Int /\ Base(c)[y].position \in Int
        BY <2>3
      <4>7. Base(c)[x].position # Base(c)[y].position
        BY <4>4, <4>5, <4>6
      <4> QED
        BY <2>4, <3>5, <4>7
    <3> QED
      BY <3>3, <3>4, <3>5
  <2> QED
    BY <2>9, <2>10, <2>11, <2>13, <2>14 DEF IInv
<1> QED
  BY <1>4, <1>5, CommitIs

-----------------------------------------------------------------------------
(* The results. *)

LEMMA InitInv == Init => IInv
<1> SUFFICES ASSUME Init PROVE IInv
  OBVIOUS
<1>1. DOMAIN FirstPlaces \subseteq Tasks /\ FirstColumn \in Columns /\ FirstColumn # NoColumn
  BY BoardConstants
<1>2. ASSUME NEW t \in Tasks
      PROVE  /\ task[t] \in [column : Columns \cup {NoColumn}, position : Int, deleted : BOOLEAN, placed : BOOLEAN]
             /\ t \in DOMAIN FirstPlaces => /\ task[t].column = FirstColumn /\ task[t].position = FirstPlaces[t]
                                            /\ task[t].deleted = FALSE
             /\ t \notin DOMAIN FirstPlaces => task[t].column = NoColumn /\ task[t].placed = FALSE
  <2> DEFINE p == FirstPlaces[t]
  <2>1. CASE t \in DOMAIN FirstPlaces
    <3>1. p \in Int
      BY <2>1, BoardConstants
    <3>2. task[t] = [NoRow EXCEPT !.column = FirstColumn, !.position = p, !.placed = TRUE]
      BY <2>1 DEF Init
    <3> HIDE DEF p
    <3>3. /\ task[t] \in [column : Columns, position : Int, deleted : BOOLEAN, placed : BOOLEAN]
          /\ task[t].column = FirstColumn /\ task[t].position = p /\ task[t].deleted = FALSE
      BY <1>1, <3>1, <3>2 DEF NoRow
    <3> QED
      BY <2>1, <3>3 DEF p
  <2>2. CASE t \notin DOMAIN FirstPlaces
    <3>1. task[t] = NoRow
      BY <2>2 DEF Init
    <3>2. 0 \in Int
      OBVIOUS
    <3> QED
      BY <2>2, <3>1, <3>2 DEF NoRow
  <2> QED
    BY <2>1, <2>2
<1>3. Rows = DOMAIN FirstPlaces
  <2>1. \A t \in Tasks : t \in DOMAIN FirstPlaces <=> task[t].column # NoColumn
    BY <1>1, <1>2
  <2> QED
    BY <1>1, <2>1 DEF Rows
<1>4. /\ DOMAIN task = Tasks
      /\ task \in [Tasks -> [column : Columns \cup {NoColumn}, position : Int, deleted : BOOLEAN, placed : BOOLEAN]]
  <2>1. task = [t \in Tasks |-> task[t]]
    BY DEF Init
  <2> QED
    BY <1>2, <2>1
<1>5. \A c \in Calls : call[c] = Idle
  BY DEF Init
<1>6. TypeOK
  <2>1. columns \subseteq Columns /\ intruded \subseteq Columns /\ DOMAIN call = Calls
    BY BoardConstants DEF Init
  <2>2. \A t \in Rows : task[t].column \in columns
    BY <1>1, <1>2, <1>3, BoardConstants DEF Init
  <2> QED
    BY <1>4, <1>5, <2>1, <2>2, IdleIs DEF TypeOK
<1>7. Requests /\ Lock /\ Faithful
  BY <1>5, IdleIs DEF Requests, Lock, Faithful
<1>8. Standing
  BY <1>2, <1>3 DEF Standing, Alive
<1>9. Finite /\ ColumnCap
  BY <1>3, BoardConstants DEF Init, Finite, ColumnCap
<1>10. PlacedApart
  <2>1. \A t, u \in DOMAIN FirstPlaces : t # u => FirstPlaces[t] # FirstPlaces[u]
    BY BoardConstants
  <2>2. \A t \in DOMAIN FirstPlaces : task[t].position = FirstPlaces[t]
    BY <1>1, <1>2
  <2> QED
    BY <1>3, <2>1, <2>2 DEF PlacedApart, Alive
<1> QED
  BY <1>6, <1>7, <1>8, <1>9, <1>10 DEF IInv

LEMMA StepKeeps == IInv /\ [Next]_vars => IInv'
<1> SUFFICES ASSUME IInv, [Next]_vars PROVE IInv'
  OBVIOUS
<1>1. ASSUME NEW c \in Calls,
             \/ InsertColumn(c) \/ RemoveColumn(c) \/ WriteTask(c) \/ ListColumnPositions(c) \/ CommitMove(c)
             \/ \E t \in Tasks : InsertTask(c, t)
      PROVE  IInv'
  BY <1>1, InsertColumnKeeps, RemoveColumnKeeps, WriteTaskKeeps, ListKeeps, CommitKeeps, InsertTaskKeeps
<1>2. ASSUME NEW c \in Calls,
             \/ \E k \in Columns : CreateColumn(c, k) \/ CreateTask(c, k)
             \/ \E k \in Columns, to \in Columns \cup {NoColumn} : DeleteColumn(c, k, to)
             \/ \E t \in Tasks : UpdateTask(c, t)
             \/ \E t \in Tasks, k \in Columns, a \in Tasks \cup {NoTask} : MoveTask(c, t, k, a)
      PROVE  IInv'
  BY <1>2, RequestsKeep
<1>3. ASSUME NEW t \in Tasks, DeleteTask(t) \/ RestoreTask(t) PROVE IInv'
  BY <1>3, DeletionKeeps
<1>4. CASE UNCHANGED vars
  <2>1. Sound /\ Calm
    BY <1>4, Untouched DEF vars
  <2>2. Noted
    BY <1>4 DEF vars, Noted, Live, In, Rows, IInv, TypeOK
  <2> QED
    BY <1>4, <2>1, <2>2, NothingWritten DEF vars
<1> QED
  BY <1>1, <1>2, <1>3, <1>4 DEF Next

LEMMA InvHolds == Spec => []IInv
BY InitInv, StepKeeps, PTL DEF Spec

\* The board is well-typed, and no task, deleted or not, is in a column that is gone.
THEOREM BoardTypeCorrect == Spec => []TypeOK
<1>1. IInv => TypeOK
  BY DEF IInv
<1> QED
  BY <1>1, InvHolds, PTL

\* A center never has more columns than the cap, however many requests have passed the count
\* of CreateColumn together.
THEOREM CapHolds == Spec => []ColumnCap
<1>1. IInv => ColumnCap
  BY DEF IInv
<1> QED
  BY <1>1, InvHolds, PTL

\* No two tasks that moves have put in a column share a place, whatever the moves, the
\* renormalisations and the operations outside the lock, unless one of these entered the
\* column while a move held it.
THEOREM MovesApart == Spec => []PlacedApart
<1>1. IInv => PlacedApart
  BY DEF IInv
<1> QED
  BY <1>1, InvHolds, PTL

\* A move leaves the others that moves have placed in the order they had, renormalised or not,
\* also in a column that was entered without the lock.
THEOREM MovesKeepOrder == Spec => OrderSurvives
<1>1. ASSUME IInv, NEW c \in Calls, CommitMove(c),
             NEW t \in {w \in Tasks : Alive(w) /\ task[w].placed} \ {call[c].task},
             NEW u \in {w \in Tasks : Alive(w) /\ task[w].placed} \ {call[c].task},
             task[t].column = task[u].column, task[t].position < task[u].position
      PROVE  task'[t].position < task'[u].position
  <2> DEFINE k == call[c].column
  <2>1. call[c].at = "listed"
    BY <1>1, CommitIs
  <2>2. CASE task' = task
    BY <1>1, <2>2
  <2>3. CASE task' = [Base(c) EXCEPT ![call[c].task] = Moved(c)]
    <3>1. task'[t] = Base(c)[t] /\ task'[u] = Base(c)[u]
      BY <1>1, <2>1, <2>3, BaseIs
    <3>2. CASE task[t].column # k
      <4>1. t \notin Live(k) /\ u \notin Live(k)
        BY <1>1, <3>2 DEF Live, In
      <4> QED
        BY <1>1, <2>1, <3>1, <4>1, BaseIs
    <3>3. CASE task[t].column = k
      <4>1. t \in Live(k) /\ u \in Live(k)
        BY <1>1, <3>3 DEF Alive, Live, In
      <4>2. t # u
        <5>1. task[t].position \in Int
          BY <1>1 DEF IInv, TypeOK
        <5> QED
          BY <1>1, <5>1
      <4>3. /\ t \in DOMAIN call[c].listed /\ call[c].listed[t] = task[t].position
            /\ u \in DOMAIN call[c].listed /\ call[c].listed[u] = task[u].position
        BY <1>1, <2>1, <4>1 DEF IInv, Faithful
      <4> QED
        BY <1>1, <2>1, <3>1, <4>1, <4>2, <4>3, BaseInOrder
    <3> QED
      BY <3>2, <3>3
  <2> QED
    BY <1>1, <2>2, <2>3, CommitIs
<1>2. IInv => [\A c \in Calls : CommitMove(c) =>
        \A t, u \in {w \in Tasks : Alive(w) /\ task[w].placed} \ {call[c].task} :
          task[t].column = task[u].column /\ task[t].position < task[u].position
            => task'[t].position < task'[u].position]_vars
  BY <1>1
<1> QED
  BY <1>2, InvHolds, PTL DEF OrderSurvives
=============================================================================
