--------------------------- MODULE ZaloLinkProofs ---------------------------
(***************************************************************************)
(* Proofs about ZaloLink, for any number of link attempts, unlinks and     *)
(* uses of a session.                                                      *)
(***************************************************************************)
EXTENDS ZaloLink, TLAPS

\* live is the set of the goroutines that run.
Living == live = {a \in Attempts : attempt[a] \in Running}

\* An Unlink waits for every attempt begun before it.
Waiting ==
  \A u \in Unlinkers :
    /\ unlinker[u].before \subseteq Begun
    /\ unlinker[u].pc = "join" => unlinker[u].on \in Attempts
    /\ unlinker[u].pc = "cancel" =>
         \A a \in unlinker[u].before \ unlinker[u].todo : attempt[a] = "done"
    /\ unlinker[u].pc = "join" =>
         \A a \in unlinker[u].before \ (unlinker[u].todo \cup {unlinker[u].on}) :
           attempt[a] = "done"
    /\ unlinker[u].pc = "delete" => \A a \in unlinker[u].before : attempt[a] = "done"

\* The attempts begun before an Unlink that returned are over and not stored.
Revoked == account.cred \notin revoked /\ \A a \in revoked : attempt[a] = "done"

LinkInv == TypeOK /\ Living /\ Waiting /\ Revoked

Harmless == {"new", "login", "retire", "done"}

\* An attempt begun after baseCancel never gets past its login.
Based ==
  /\ Baseless => \A a \in Attempts : attempt[a] = "login" => a \in ended
  /\ closing \in {"joining", "closed"} =>
       \A a \in Attempts \ awaited : attempt[a] \in Harmless
  /\ closing = "closed" => \A a \in awaited : attempt[a] = "done"

-----------------------------------------------------------------------------
\* Type correctness.

LEMMA TypeInit == Init => TypeOK
<1> SUFFICES ASSUME Init PROVE TypeOK OBVIOUS
<1>1. NoAccount \in Account BY DEF Account
<1>2. unlinker \in [Unlinkers -> Unlinker] BY DEF Init, Unlinker
<1>3. user \in [Users -> User]
  <2>1. [pc |-> "idle", kind |-> "send", since |-> 0, acc |-> NoAccount] \in User
    BY <1>1 DEF User
  <2> QED BY <2>1, Zenon DEF Init
<1>4. account \in Account
  BY <1>1, EarlierAttempts DEF Init, Account
<1>5. attempt \in [Attempts -> Running \cup {"new", "done"}] BY DEF Init
<1> QED BY <1>2, <1>3, <1>4, <1>5 DEF Init, TypeOK, LinkState, Final

LEMMA StatusType == ASSUME TypeOK, NEW s \in {"linked", "expired"}, UpdateStatus(s)
                    PROVE  account' \in Account
<1>1. CASE account = NoAccount BY <1>1 DEF UpdateStatus, Account
<1>2. CASE account # NoAccount
  <2>1. account \in [cred : Attempts, status : {"linked", "expired"}]
    BY <1>2 DEF TypeOK, Account
  <2>2. account' = [account EXCEPT !.status = s] BY <1>2 DEF UpdateStatus
  <2>3. account' \in [cred : Attempts, status : {"linked", "expired"}] BY <2>1, <2>2
  <2> QED BY <2>3 DEF Account
<1> QED BY <1>1, <1>2

LEMMA RunType ==
  ASSUME TypeOK, NEW a \in Attempts, Begin(a) \/ Deadline(a) \/ LoginSucceeds(a) \/ Run(a)
  PROVE  TypeOK'
<1> USE DEF TypeOK, store, shutdown, ghost, Goto, Show, Running, Writing, LinkState, Final
<1>1. CASE Begin(a) BY <1>1 DEF Begin
<1>2. CASE Deadline(a) BY <1>2 DEF Deadline
<1>3. CASE LoginSucceeds(a) BY <1>3 DEF LoginSucceeds
<1>4. CASE LoginFails(a) BY <1>4 DEF LoginFails
<1>5. CASE IsCurrent(a) BY <1>5 DEF IsCurrent
<1>6. CASE Upsert(a) BY <1>6 DEF Upsert, Account
<1>7. CASE PersistFails(a) BY <1>7 DEF PersistFails, Account
<1>8. CASE Put(a) BY <1>8 DEF Put
<1>9. CASE Report(a) BY <1>9 DEF Report
<1>10. CASE Retire(a) BY <1>10 DEF Retire
<1> QED BY <1>1, <1>2, <1>3, <1>4, <1>5, <1>6, <1>7, <1>8, <1>9, <1>10 DEF Run

LEMMA UnlinkType ==
  ASSUME TypeOK, NEW u \in Unlinkers, Unlink(u) \/ Unlinking(u)
  PROVE  TypeOK'
<1> USE DEF TypeOK, store, manager, shutdown, ghost
<1>0. unlinker[u] \in Unlinker OBVIOUS
<1>1. CASE Unlink(u)
  <2> DEFINE r == [[[unlinker[u] EXCEPT !.pc = "cancel"] EXCEPT !.before = Begun]
                      EXCEPT !.todo = live]
  <2>1. Begun \subseteq Attempts /\ live \subseteq Attempts BY DEF Begun
  <2>2. r \in Unlinker BY <1>0, <2>1, Zenon DEF Unlinker
  <2>3. unlinker' = [unlinker EXCEPT ![u] = r] BY <1>1 DEF Unlink
  <2>4. unlinker' \in [Unlinkers -> Unlinker] BY <2>2, <2>3, Zenon
  <2> QED BY <1>1, <2>4 DEF Unlink
<1>2. ASSUME NEW a \in Attempts, CancelOne(u, a) PROVE TypeOK'
  <2> DEFINE t == unlinker[u].todo \ {a}
             r == [[[unlinker[u] EXCEPT !.pc = "join"] EXCEPT !.on = a] EXCEPT !.todo = t]
  <2>1. t \in SUBSET Attempts BY <1>0 DEF Unlinker
  <2>2. r \in Unlinker BY <1>0, <2>1, Zenon DEF Unlinker
  <2>3. unlinker' = [unlinker EXCEPT ![u] = r] BY <1>0, <1>2 DEF CancelOne, Unlinker
  <2>4. unlinker' \in [Unlinkers -> Unlinker] BY <2>2, <2>3, Zenon
  <2> QED BY <1>2, <2>4 DEF CancelOne
<1>3. CASE JoinOne(u)
  <2> DEFINE r == [[unlinker[u] EXCEPT !.pc = "cancel"] EXCEPT !.on = None]
  <2>1. r \in Unlinker BY <1>0, Zenon DEF Unlinker
  <2>2. unlinker' = [unlinker EXCEPT ![u] = r] BY <1>3 DEF JoinOne
  <2>3. unlinker' \in [Unlinkers -> Unlinker] BY <2>1, <2>2, Zenon
  <2> QED BY <1>3, <2>3 DEF JoinOne
<1>4. CASE UnlinkEvicts(u)
  <2>1. unlinker' \in [Unlinkers -> Unlinker] BY <1>4 DEF UnlinkEvicts, Unlinker
  <2> QED BY <1>4, <2>1 DEF UnlinkEvicts, Evict
<1>5. CASE Delete(u)
  <2>1. unlinker' \in [Unlinkers -> Unlinker] BY <1>5 DEF Delete, Unlinker
  <2>2. unlinker[u].before \subseteq Attempts BY <1>0 DEF Unlinker
  <2> QED BY <1>5, <2>1, <2>2 DEF Delete, Account
<1>6. CASE DeleteFails(u)
  <2>1. unlinker' \in [Unlinkers -> Unlinker] BY <1>6 DEF DeleteFails, Unlinker
  <2> QED BY <1>6, <2>1 DEF DeleteFails, Account
<1> QED BY <1>1, <1>2, <1>3, <1>4, <1>5, <1>6 DEF Unlinking

LEMMA UserType ==
  ASSUME TypeOK, NEW x \in Users, StartSend(x) \/ ListLinked(x) \/ SessionFor(x)
  PROVE  TypeOK'
<1> USE DEF TypeOK, store, manager, shutdown, ghost, Evict, UserGoes, UserAt, Served
<1>0. user[x] \in User OBVIOUS
<1>a. ASSUME NEW p \in {"listed", "lookup", "since", "put", "revive", "use", "expire", "mark", "done"},
             UserGoes(x, p)
      PROVE  user' \in [Users -> User]
  <2>1. [user[x] EXCEPT !.pc = p] \in User BY <1>0, Zenon DEF User
  <2> QED BY <1>a, <2>1
<1>1. CASE StartSend(x) BY <1>1, <1>a DEF StartSend
<1>2. CASE ListLinked(x)
  <2> DEFINE r == [[user[x] EXCEPT !.pc = "listed"] EXCEPT !.kind = "probe"]
  <2>1. r \in User BY <1>0, Zenon DEF User
  <2>2. user' = [user EXCEPT ![x] = r] BY <1>2 DEF ListLinked
  <2>3. user' \in [Users -> User] BY <2>1, <2>2, Zenon
  <2> QED BY <1>2, <2>3 DEF ListLinked
<1>3. CASE Lookup(x)
  <2>1. user' \in [Users -> User] BY <1>3, <1>a DEF Lookup
  <2> QED BY <1>3, <2>1 DEF Lookup
<1>4. CASE NoteEvictions(x)
  <2> DEFINE r == [[user[x] EXCEPT !.pc = "read"] EXCEPT !.since = evictions]
  <2>1. r \in User BY <1>0, Zenon DEF User
  <2>2. user' = [user EXCEPT ![x] = r] BY <1>4 DEF NoteEvictions
  <2>3. user' \in [Users -> User] BY <2>1, <2>2, Zenon
  <2> QED BY <1>4, <2>3 DEF NoteEvictions
<1>5. CASE GetByTeacher(x)
  <2> DEFINE r == [[user[x] EXCEPT !.pc = "relogin"] EXCEPT !.acc = account]
  <2>1. r \in User BY <1>0, Zenon DEF User
  <2>2. user' = [user EXCEPT ![x] = r] \/ UserGoes(x, "done") BY <1>5 DEF GetByTeacher
  <2>3. user' \in [Users -> User] BY <2>1, <2>2, <1>a
  <2> QED BY <1>5, <2>3 DEF GetByTeacher
<1>6. CASE Relogin(x)
  <2>1. user' \in [Users -> User] BY <1>6, <1>a DEF Relogin
  <2> QED BY <1>6, <2>1 DEF Relogin
<1>7. CASE PutUnlessEvicted(x)
  <2>1. user' \in [Users -> User] BY <1>7, <1>a DEF PutUnlessEvicted
  <2>2. user[x].acc.cred \in Attempts \cup {None}
    BY <1>0 DEF User, Account, NoAccount
  <2> QED BY <1>7, <2>1, <2>2 DEF PutUnlessEvicted
<1>8. CASE RecordHealthy(x)
  <2>1. user' \in [Users -> User] BY <1>8, <1>a DEF RecordHealthy
  <2>2. account' \in Account BY <1>8, StatusType DEF RecordHealthy
  <2> QED BY <1>8, <2>1, <2>2 DEF RecordHealthy
<1>9. CASE CallZalo(x)
  <2>1. user' \in [Users -> User] BY <1>9, <1>a DEF CallZalo
  <2> QED BY <1>9, <2>1 DEF CallZalo
<1>10. CASE ExpireEvicts(x) BY <1>10, <1>a DEF ExpireEvicts
<1>11. CASE ExpireMarks(x)
  <2>1. user' \in [Users -> User] BY <1>11, <1>a DEF ExpireMarks
  <2>2. account' \in Account BY <1>11, StatusType DEF ExpireMarks
  <2> QED BY <1>11, <2>1, <2>2 DEF ExpireMarks
<1>12. CASE VerifyAccount(x)
  <2> DEFINE r == [[user[x] EXCEPT !.pc = "lookup"] EXCEPT !.kind = "verify"]
  <2>1. r \in User BY <1>0, Zenon DEF User
  <2>2. user' = [user EXCEPT ![x] = r] \/ UserGoes(x, "lookup") BY <1>12 DEF VerifyAccount
  <2>3. user' \in [Users -> User] BY <2>1, <2>2, <1>a
  <2> QED BY <1>12, <2>3 DEF VerifyAccount
<1>13. CASE SweepStops(x) BY <1>13, <1>a DEF SweepStops
<1> QED
  BY <1>1, <1>2, <1>3, <1>4, <1>5, <1>6, <1>7, <1>8, <1>9, <1>10, <1>11, <1>12, <1>13
  DEF SessionFor

LEMMA TypeStep == TypeOK /\ [Next]_vars => TypeOK'
<1> SUFFICES ASSUME TypeOK, [Next]_vars PROVE TypeOK' OBVIOUS
<1>1. CASE Sweep BY <1>1 DEF Sweep, TypeOK, store, shutdown, ghost
<1>2. CASE Close
  BY <1>2 DEF Close, CloseStarts, CloseCancels, CloseNotes, CloseReturns, TypeOK,
              store, manager, ghost
<1>3. CASE UNCHANGED vars BY <1>3 DEF TypeOK, vars, store, manager, shutdown, ghost
<1> QED BY <1>1, <1>2, <1>3, RunType, UnlinkType, UserType DEF Next

-----------------------------------------------------------------------------
\* The steps of an attempt, as far as the others see them.

\* A step of attempt a moves only a, from where it was to where it may go next,
\* and leaves live as the set of those that run.
LEMMA RunMoves ==
  ASSUME TypeOK, Living, NEW a \in Attempts,
         Begin(a) \/ Deadline(a) \/ LoginSucceeds(a) \/ Run(a)
  PROVE  /\ Living'
         /\ attempt[a] # "done"
         /\ \A b \in Attempts : b # a => attempt'[b] = attempt[b]
         /\ UNCHANGED <<unlinker, user, shutdown, revoked>>
<1> USE DEF TypeOK, Living, store, shutdown, ghost, Goto, Running, Writing
<1>1. CASE Begin(a) BY <1>1 DEF Begin
<1>2. CASE Deadline(a) BY <1>2 DEF Deadline
<1>3. CASE LoginSucceeds(a) BY <1>3 DEF LoginSucceeds
<1>4. CASE LoginFails(a) BY <1>4 DEF LoginFails
<1>5. CASE IsCurrent(a) BY <1>5 DEF IsCurrent
<1>6. CASE Upsert(a) BY <1>6 DEF Upsert
<1>7. CASE PersistFails(a) BY <1>7 DEF PersistFails
<1>8. CASE Put(a) BY <1>8 DEF Put
<1>9. CASE Report(a) BY <1>9 DEF Report
<1>10. CASE Retire(a) BY <1>10 DEF Retire
<1> QED BY <1>1, <1>2, <1>3, <1>4, <1>5, <1>6, <1>7, <1>8, <1>9, <1>10 DEF Run

\* A step of an Unlink or of a use leaves the attempts alone.
LEMMA UnlinkMoves ==
  ASSUME NEW u \in Unlinkers, Unlink(u) \/ Unlinking(u)
  PROVE  UNCHANGED <<live, attempt, user, closing, awaited>> /\ ended \subseteq ended'
BY DEF Unlink, Unlinking, CancelOne, JoinOne, UnlinkEvicts, Delete, DeleteFails,
       store, manager, shutdown, ghost

LEMMA UserMoves ==
  ASSUME NEW x \in Users, StartSend(x) \/ ListLinked(x) \/ SessionFor(x)
  PROVE  UNCHANGED <<manager, unlinker, shutdown, ghost>>
BY DEF StartSend, ListLinked, SessionFor, VerifyAccount, SweepStops, Lookup,
       NoteEvictions, GetByTeacher, Relogin, PutUnlessEvicted, RecordHealthy, CallZalo, ExpireEvicts, ExpireMarks

LEMMA CloseMoves ==
  ASSUME Close \/ Sweep
  PROVE  UNCHANGED <<store, live, attempt, unlinker, user, ghost>> /\ ended \subseteq ended'
BY DEF Close, CloseStarts, CloseCancels, CloseNotes, CloseReturns, Sweep, store, manager,
       shutdown, ghost

LEMMA LivingStep == TypeOK /\ Living /\ [Next]_vars => Living'
<1> SUFFICES ASSUME TypeOK, Living, [Next]_vars PROVE Living' OBVIOUS
<1>1. ASSUME UNCHANGED <<live, attempt>> PROVE Living' BY <1>1 DEF Living
<1>2. CASE UNCHANGED vars BY <1>1, <1>2 DEF vars, manager
<1>3. ASSUME NEW u \in Unlinkers, Unlink(u) \/ Unlinking(u) PROVE Living'
  BY <1>1, <1>3, UnlinkMoves
<1>4. ASSUME NEW x \in Users, StartSend(x) \/ ListLinked(x) \/ SessionFor(x) PROVE Living'
  BY <1>1, <1>4, UserMoves DEF manager
<1>5. CASE Close \/ Sweep BY <1>1, <1>5, CloseMoves
<1> QED BY <1>2, <1>3, <1>4, <1>5, RunMoves DEF Next

-----------------------------------------------------------------------------
\* What waits for an attempt: Unlink.

\* An Unlink that is left alone still has behind it what it had, however the
\* attempts go on.
LEMMA StillWaiting ==
  ASSUME TypeOK, Waiting, unlinker' = unlinker,
         \A a \in Attempts : attempt[a] = "done" => attempt'[a] = "done",
         \A a \in Attempts : attempt[a] # "new" => attempt'[a] # "new"
  PROVE  Waiting'
<1> SUFFICES ASSUME NEW u \in Unlinkers
             PROVE  /\ unlinker[u].before \subseteq Begun'
                    /\ unlinker[u].pc = "join" => unlinker[u].on \in Attempts
                    /\ unlinker[u].pc = "cancel" =>
                         \A a \in unlinker[u].before \ unlinker[u].todo : attempt'[a] = "done"
                    /\ unlinker[u].pc = "join" =>
                         \A a \in unlinker[u].before \ (unlinker[u].todo \cup {unlinker[u].on}) :
                           attempt'[a] = "done"
                    /\ unlinker[u].pc = "delete" =>
                         \A a \in unlinker[u].before : attempt'[a] = "done"
  BY DEF Waiting
<1>1. unlinker[u].before \subseteq Begun BY DEF Waiting
<1>2. unlinker[u].before \subseteq Attempts BY <1>1 DEF Begun
<1> QED BY <1>1, <1>2 DEF Waiting, Begun

\* A step of attempt a only moves it forward.
LEMMA RunForward ==
  ASSUME TypeOK, NEW a \in Attempts,
         Begin(a) \/ Deadline(a) \/ LoginSucceeds(a) \/ Run(a)
  PROVE  attempt[a] # "new" => attempt'[a] # "new"
<1> USE DEF TypeOK, Goto
<1>1. CASE Begin(a) BY <1>1 DEF Begin
<1>2. CASE Deadline(a) BY <1>2 DEF Deadline
<1>3. CASE LoginSucceeds(a) BY <1>3 DEF LoginSucceeds
<1>4. CASE Run(a)
  BY <1>4 DEF Run, LoginFails, IsCurrent, Upsert, PersistFails, Put, Report, Retire
<1> QED BY <1>1, <1>2, <1>3, <1>4

\* What Waiting says of one Unlink.
WaitingOn(r) ==
  /\ r.before \subseteq Begun
  /\ r.pc = "join" => r.on \in Attempts
  /\ r.pc = "cancel" => \A a \in r.before \ r.todo : attempt[a] = "done"
  /\ r.pc = "join" => \A a \in r.before \ (r.todo \cup {r.on}) : attempt[a] = "done"
  /\ r.pc = "delete" => \A a \in r.before : attempt[a] = "done"

\* A step of the Unlink u changes only u, so what it waits for is looked at alone.
LEMMA OneWaits ==
  ASSUME Waiting, NEW u \in Unlinkers, attempt' = attempt,
         \A v \in Unlinkers : v # u => unlinker'[v] = unlinker[v],
         WaitingOn(unlinker'[u])
  PROVE  Waiting'
<1> SUFFICES ASSUME NEW v \in Unlinkers PROVE WaitingOn(unlinker'[v])
  BY DEF Waiting, WaitingOn, Begun
<1>1. CASE v = u BY <1>1
<1>2. CASE v # u BY <1>2 DEF Waiting, WaitingOn
<1> QED BY <1>1, <1>2

LEMMA UnlinkWaits ==
  ASSUME TypeOK, Living, Waiting, NEW u \in Unlinkers, Unlink(u) \/ Unlinking(u)
  PROVE  Waiting'
<1> DEFINE r == unlinker[u]
<1>0. /\ r \in Unlinker /\ unlinker \in [Unlinkers -> Unlinker] BY DEF TypeOK
<1>1. WaitingOn(r) BY DEF Waiting, WaitingOn
<1>2. attempt' = attempt BY UnlinkMoves
<1>3. ASSUME NEW q, unlinker' = [unlinker EXCEPT ![u] = q], WaitingOn(q) PROVE Waiting'
  BY <1>0, <1>2, <1>3, OneWaits
<1>4. CASE Unlink(u)
  <2> DEFINE q == [[[r EXCEPT !.pc = "cancel"] EXCEPT !.before = Begun] EXCEPT !.todo = live]
  <2>1. unlinker' = [unlinker EXCEPT ![u] = q] BY <1>4 DEF Unlink
  <2>2. q.pc = "cancel" /\ q.before = Begun /\ q.todo = live BY <1>0 DEF Unlinker
  <2>3. \A a \in Begun \ live : attempt[a] = "done"
    BY DEF TypeOK, Living, Begun, Running, Writing
  <2> QED BY <1>3, <2>1, <2>2, <2>3 DEF WaitingOn
<1>5. ASSUME NEW a \in Attempts, CancelOne(u, a) PROVE Waiting'
  <2> DEFINE q == [[[r EXCEPT !.pc = "join"] EXCEPT !.on = a] EXCEPT !.todo = r.todo \ {a}]
  <2>1. unlinker' = [unlinker EXCEPT ![u] = q] BY <1>5 DEF CancelOne
  <2>2. /\ q.pc = "join" /\ q.on = a /\ q.before = r.before
        /\ q.todo = r.todo \ {a} /\ r.pc = "cancel"
    BY <1>0, <1>5 DEF CancelOne, Unlinker
  <2> HIDE DEF q, r
  <2> QED BY <1>1, <1>3, <2>1, <2>2 DEF WaitingOn
<1>6. CASE JoinOne(u)
  <2> DEFINE q == [[r EXCEPT !.pc = "cancel"] EXCEPT !.on = None]
  <2>1. unlinker' = [unlinker EXCEPT ![u] = q] BY <1>6 DEF JoinOne
  <2>2. /\ q.pc = "cancel" /\ q.before = r.before /\ q.todo = r.todo
        /\ r.pc = "join" /\ attempt[r.on] = "done"
    BY <1>0, <1>6 DEF JoinOne, Unlinker
  <2> HIDE DEF q, r
  <2> QED BY <1>1, <1>3, <2>1, <2>2 DEF WaitingOn
<1>7. CASE UnlinkEvicts(u)
  <2> DEFINE q == [r EXCEPT !.pc = "delete"]
  <2>1. unlinker' = [unlinker EXCEPT ![u] = q] BY <1>7 DEF UnlinkEvicts
  <2>2. /\ q.pc = "delete" /\ q.before = r.before /\ r.pc = "cancel" /\ r.todo = {}
    BY <1>0, <1>7 DEF UnlinkEvicts, Unlinker
  <2> HIDE DEF q, r
  <2> QED BY <1>1, <1>3, <2>1, <2>2 DEF WaitingOn
<1>8. CASE Delete(u)
  <2> DEFINE q == [r EXCEPT !.pc = "done"]
  <2>1. unlinker' = [unlinker EXCEPT ![u] = q] BY <1>8 DEF Delete
  <2>2. q.pc = "done" /\ q.before = r.before BY <1>0 DEF Unlinker
  <2> HIDE DEF q, r
  <2> QED BY <1>1, <1>3, <2>1, <2>2 DEF WaitingOn
<1>9. CASE DeleteFails(u)
  <2> DEFINE q == [r EXCEPT !.pc = "failed"]
  <2>1. unlinker' = [unlinker EXCEPT ![u] = q] BY <1>9 DEF DeleteFails
  <2>2. q.pc = "failed" /\ q.before = r.before BY <1>0 DEF Unlinker
  <2> HIDE DEF q, r
  <2> QED BY <1>1, <1>3, <2>1, <2>2 DEF WaitingOn
<1> QED BY <1>4, <1>5, <1>6, <1>7, <1>8, <1>9 DEF Unlinking

LEMMA WaitingStep == TypeOK /\ Living /\ Waiting /\ [Next]_vars => Waiting'
<1> SUFFICES ASSUME TypeOK, Living, Waiting, [Next]_vars PROVE Waiting' OBVIOUS
<1>1. ASSUME UNCHANGED <<attempt, unlinker>> PROVE Waiting' BY <1>1, StillWaiting
<1>2. CASE UNCHANGED vars BY <1>1, <1>2 DEF vars, manager
<1>3. ASSUME NEW a \in Attempts, Begin(a) \/ Deadline(a) \/ LoginSucceeds(a) \/ Run(a)
      PROVE  Waiting'
  <2>1. unlinker' = unlinker BY <1>3, RunMoves
  <2>2. \A b \in Attempts : attempt[b] = "done" => attempt'[b] = "done" BY <1>3, RunMoves
  <2>3. \A b \in Attempts : attempt[b] # "new" => attempt'[b] # "new"
    BY <1>3, RunMoves, RunForward
  <2> QED BY <2>1, <2>2, <2>3, StillWaiting
<1>4. ASSUME NEW x \in Users, StartSend(x) \/ ListLinked(x) \/ SessionFor(x) PROVE Waiting'
  BY <1>1, <1>4, UserMoves DEF manager
<1>5. CASE Close \/ Sweep BY <1>1, <1>5, CloseMoves
<1> QED BY <1>2, <1>3, <1>4, <1>5, UnlinkWaits DEF Next

-----------------------------------------------------------------------------
\* Unlink sticks.

\* Only the goroutine of an attempt stores the attempt's credentials.
LEMMA RunStores ==
  ASSUME NEW a \in Attempts, Begin(a) \/ Deadline(a) \/ LoginSucceeds(a) \/ Run(a)
  PROVE  account' = account \/ account'.cred = a
BY DEF Begin, Deadline, LoginSucceeds, Run, LoginFails, IsCurrent, Upsert, PersistFails,
       Put, Report, Retire, store

\* A status update keeps the credentials.
LEMMA StatusKeeps ==
  ASSUME TypeOK, NEW s, UpdateStatus(s) PROVE account'.cred = account.cred
BY DEF TypeOK, Account, UpdateStatus, NoAccount

LEMMA UserStores ==
  ASSUME TypeOK, NEW x \in Users, StartSend(x) \/ ListLinked(x) \/ SessionFor(x)
  PROVE  account'.cred = account.cred
<1>1. CASE RecordHealthy(x) BY <1>1, StatusKeeps DEF RecordHealthy
<1>2. CASE ExpireMarks(x) BY <1>2, StatusKeeps DEF ExpireMarks
<1>3. CASE StartSend(x) \/ ListLinked(x) BY <1>3 DEF StartSend, ListLinked, store
<1>4. CASE \/ VerifyAccount(x) \/ SweepStops(x) \/ Lookup(x) \/ NoteEvictions(x)
           \/ GetByTeacher(x) \/ Relogin(x) \/ PutUnlessEvicted(x) \/ CallZalo(x)
           \/ ExpireEvicts(x)
  BY <1>4 DEF VerifyAccount, SweepStops, Lookup, NoteEvictions, GetByTeacher, Relogin,
              PutUnlessEvicted, CallZalo, ExpireEvicts, store
<1> QED BY <1>1, <1>2, <1>3, <1>4 DEF SessionFor

\* Delete finds every attempt it revokes done; no other step of an Unlink
\* touches the row or what is revoked.
LEMMA UnlinkRevokes ==
  ASSUME TypeOK, Waiting, Revoked, NEW u \in Unlinkers, Unlink(u) \/ Unlinking(u)
  PROVE  Revoked'
<1>1. attempt' = attempt BY UnlinkMoves
<1>2. CASE Delete(u)
  <2>1. \A a \in unlinker[u].before : attempt[a] = "done" BY <1>2 DEF Delete, Waiting
  <2>2. revoked' = revoked \cup unlinker[u].before /\ account'.cred = None
    BY <1>2 DEF Delete, NoAccount
  <2>3. revoked' \subseteq Attempts
    BY <2>2 DEF TypeOK, Waiting, Begun
  <2> QED BY <1>1, <2>1, <2>2, <2>3, NoneIsNoAttempt DEF Revoked
<1>3. CASE ~Delete(u)
  <2>1. revoked' = revoked /\ (account' = account \/ account' = NoAccount)
    BY <1>3 DEF Unlink, Unlinking, CancelOne, JoinOne, UnlinkEvicts, DeleteFails, store, ghost
  <2>2. None \notin revoked BY NoneIsNoAttempt DEF TypeOK
  <2> QED BY <1>1, <2>1, <2>2 DEF Revoked, NoAccount
<1> QED BY <1>2, <1>3

LEMMA RevokedStep == TypeOK /\ Living /\ Waiting /\ Revoked /\ [Next]_vars => Revoked'
<1> SUFFICES ASSUME TypeOK, Living, Waiting, Revoked, [Next]_vars PROVE Revoked' OBVIOUS
<1>1. CASE UNCHANGED vars BY <1>1 DEF vars, store, manager, ghost, Revoked
<1>2. ASSUME NEW a \in Attempts, Begin(a) \/ Deadline(a) \/ LoginSucceeds(a) \/ Run(a)
      PROVE  Revoked'
  <2>1. a \notin revoked BY <1>2, RunMoves DEF Revoked
  <2>2. account' = account \/ account'.cred = a BY <1>2, RunStores
  <2>3. revoked' = revoked BY <1>2, RunMoves
  <2>4. \A b \in Attempts : attempt[b] = "done" => attempt'[b] = "done" BY <1>2, RunMoves
  <2> QED BY <2>1, <2>2, <2>3, <2>4 DEF Revoked, TypeOK
<1>3. ASSUME NEW x \in Users, StartSend(x) \/ ListLinked(x) \/ SessionFor(x) PROVE Revoked'
  BY <1>3, UserMoves, UserStores DEF Revoked, manager, ghost
<1>4. CASE Close \/ Sweep BY <1>4, CloseMoves DEF Revoked, store, ghost
<1> QED BY <1>1, <1>2, <1>3, <1>4, UnlinkRevokes DEF Next

LEMMA LinkInvHolds == Spec => []LinkInv
<1>1. Init => LinkInv
  <2> SUFFICES ASSUME Init PROVE LinkInv OBVIOUS
  <2>1. TypeOK BY TypeInit
  <2>2. Living BY DEF Init, Living, Running, Writing
  <2>3. Waiting BY DEF Init, Waiting
  <2>4. Revoked BY DEF Init, Revoked
  <2> QED BY <2>1, <2>2, <2>3, <2>4 DEF LinkInv
<1>2. LinkInv /\ [Next]_vars => LinkInv'
  BY TypeStep, LivingStep, WaitingStep, RevokedStep DEF LinkInv
<1> QED BY <1>1, <1>2, PTL DEF Spec

\* Every variable keeps its type.
THEOREM LinkTypeCorrect == Spec => []TypeOK
<1>1. LinkInv => TypeOK BY DEF LinkInv
<1> QED BY <1>1, LinkInvHolds, PTL

\* Once an Unlink has returned, no attempt begun before it brings the account
\* back, whatever the number of attempts, unlinks and sends (Service.Unlink).
THEOREM UnlinkIsFinal == Spec => []UnlinkSticks
<1>1. LinkInv => UnlinkSticks BY DEF LinkInv, Revoked, UnlinkSticks
<1> QED BY <1>1, LinkInvHolds, PTL

-----------------------------------------------------------------------------
\* Nothing writes after Close.

\* A step of attempt a, seen from Close: it does not pass a login whose context
\* is over, and a goroutine that is harmless and past its login stays harmless.
LEMMA RunHarmless ==
  ASSUME TypeOK, NEW a \in Attempts,
         Begin(a) \/ Deadline(a) \/ LoginSucceeds(a) \/ Run(a)
  PROVE  /\ ended \subseteq ended'
         /\ Baseless /\ attempt'[a] = "login" => attempt[a] = "login" \/ a \in ended'
         /\ attempt[a] \in Harmless =>
              attempt'[a] \in Harmless \/ (attempt[a] = "login" /\ a \notin ended)
<1> USE DEF TypeOK, Goto, Harmless, Running, Writing
<1>1. CASE Begin(a) BY <1>1 DEF Begin
<1>2. CASE Deadline(a) BY <1>2 DEF Deadline
<1>3. CASE LoginSucceeds(a) BY <1>3 DEF LoginSucceeds
<1>4. CASE LoginFails(a) BY <1>4 DEF LoginFails
<1>5. CASE IsCurrent(a) BY <1>5 DEF IsCurrent
<1>6. CASE Upsert(a) BY <1>6 DEF Upsert
<1>7. CASE PersistFails(a) BY <1>7 DEF PersistFails
<1>8. CASE Put(a) BY <1>8 DEF Put
<1>9. CASE Report(a) BY <1>9 DEF Report
<1>10. CASE Retire(a) BY <1>10 DEF Retire
<1> QED BY <1>1, <1>2, <1>3, <1>4, <1>5, <1>6, <1>7, <1>8, <1>9, <1>10 DEF Run

LEMMA RunBased ==
  ASSUME TypeOK, Living, Based, NEW a \in Attempts,
         Begin(a) \/ Deadline(a) \/ LoginSucceeds(a) \/ Run(a)
  PROVE  Based'
<1>1. closing' = closing /\ awaited' = awaited BY RunMoves DEF shutdown
<1>2. \A b \in Attempts : b # a => attempt'[b] = attempt[b] BY RunMoves
<1>3. Baseless => \A b \in Attempts : attempt'[b] = "login" => b \in ended'
  <2> SUFFICES ASSUME Baseless, NEW b \in Attempts, attempt'[b] = "login"
               PROVE  b \in ended'
    OBVIOUS
  <2>1. CASE b = a BY <2>1, RunHarmless DEF Based
  <2>2. CASE b # a BY <2>2, <1>2, RunHarmless DEF Based
  <2> QED BY <2>1, <2>2
<1>4. closing \in {"joining", "closed"} =>
        \A b \in Attempts \ awaited : attempt'[b] \in Harmless
  <2> SUFFICES ASSUME closing \in {"joining", "closed"}, NEW b \in Attempts \ awaited
               PROVE  attempt'[b] \in Harmless
    OBVIOUS
  <2>1. Baseless BY DEF Baseless
  <2>2. CASE b = a BY <2>1, <2>2, RunHarmless DEF Based
  <2>3. CASE b # a BY <2>3, <1>2 DEF Based
  <2> QED BY <2>2, <2>3
<1>5. closing = "closed" => \A b \in awaited : attempt'[b] = "done"
  BY <1>2, RunMoves DEF Based, TypeOK
<1> QED BY <1>1, <1>3, <1>4, <1>5 DEF Based, Baseless

LEMMA CloseBased ==
  ASSUME TypeOK, Living, Based, Close PROVE Based'
<1>1. CASE CloseStarts BY <1>1 DEF CloseStarts, Based, Baseless, manager
<1>2. CASE CloseCancels
  <2>1. \A a \in Attempts : attempt[a] = "login" => a \in live
    BY DEF Living, Running
  <2> QED BY <1>2, <2>1 DEF CloseCancels, Based, Baseless
<1>3. CASE CloseNotes
  <2>1. \A a \in Attempts \ live : attempt[a] \in Harmless
    BY DEF TypeOK, Living, Running, Harmless
  <2> QED BY <1>3, <2>1 DEF CloseNotes, Based, Baseless
<1>4. CASE CloseReturns BY <1>4 DEF CloseReturns, Based, Baseless, manager
<1> QED BY <1>1, <1>2, <1>3, <1>4 DEF Close

LEMMA BasedStep == TypeOK /\ Living /\ Based /\ [Next]_vars => Based'
<1> SUFFICES ASSUME TypeOK, Living, Based, [Next]_vars PROVE Based' OBVIOUS
<1>1. ASSUME UNCHANGED <<attempt, closing, awaited>>, ended \subseteq ended' PROVE Based'
  BY <1>1 DEF Based, Baseless
<1>2. CASE UNCHANGED vars BY <1>1, <1>2 DEF vars, manager, shutdown
<1>3. ASSUME NEW u \in Unlinkers, Unlink(u) \/ Unlinking(u) PROVE Based'
  BY <1>1, <1>3, UnlinkMoves
<1>4. ASSUME NEW x \in Users, StartSend(x) \/ ListLinked(x) \/ SessionFor(x) PROVE Based'
  BY <1>1, <1>4, UserMoves DEF manager, shutdown
<1>5. CASE Sweep BY <1>1, <1>5 DEF Sweep, shutdown
<1> QED BY <1>2, <1>3, <1>4, <1>5, CloseBased, RunBased DEF Next

\* When Close has returned, no attempt can write, not even one begun since
\* (LinkManager.Close and the order in Service.Close).
THEOREM ClosedIsQuiet == Spec => []QuietAfterClose
<1>1. Init => Based BY DEF Init, Based, Baseless
<1>2. LinkInv /\ Based /\ [Next]_vars => Based' BY BasedStep DEF LinkInv
<1>3. Based => QuietAfterClose
  BY DEF Based, QuietAfterClose, Harmless, Writing
<1> QED BY <1>1, <1>2, <1>3, LinkInvHolds, PTL DEF Spec

-----------------------------------------------------------------------------
\* A late scan is dropped.

\* A late attempt was replaced before its scan and has written nothing.
Late == \A a \in late : attempt[a] \in {"check", "retire", "done"} /\ active # a

\* Credential c can be stored: its attempt went past the check and was not late.
Checked(c) == c \notin late /\ (c \in Attempts => attempt[c] \notin {"new", "login", "check"})

Sound == Checked(account.cred) /\ Checked(cache) /\ \A x \in Users : Checked(user[x].acc.cred)

LEMMA NoneChecked == TypeOK => Checked(None)
BY NoneIsNoAttempt DEF TypeOK, Checked

LEMMA RunLate ==
  ASSUME TypeOK, Late, NEW a \in Attempts,
         Begin(a) \/ Deadline(a) \/ LoginSucceeds(a) \/ Run(a)
  PROVE  /\ Late'
         /\ \A c \in Attempts \cup {None} : Checked(c) => Checked(c)'
         /\ account' = account \/ (account'.cred = a /\ Checked(a)')
         /\ cache' = cache \/ (cache' = a /\ Checked(a)')
         /\ user' = user
<1> USE DEF TypeOK, Goto, Late, Checked, store, ghost
<1>1. CASE Begin(a) BY <1>1 DEF Begin
<1>2. CASE Deadline(a) BY <1>2 DEF Deadline
<1>3. CASE LoginSucceeds(a) BY <1>3 DEF LoginSucceeds
<1>4. CASE LoginFails(a) BY <1>4 DEF LoginFails
<1>5. CASE IsCurrent(a) BY <1>5 DEF IsCurrent
<1>6. CASE Upsert(a) BY <1>6 DEF Upsert
<1>7. CASE PersistFails(a) BY <1>7 DEF PersistFails
<1>8. CASE Put(a) BY <1>8 DEF Put
<1>9. CASE Report(a) BY <1>9 DEF Report
<1>10. CASE Retire(a) BY <1>10 DEF Retire
<1> QED BY <1>1, <1>2, <1>3, <1>4, <1>5, <1>6, <1>7, <1>8, <1>9, <1>10 DEF Run

LEMMA RunSound ==
  ASSUME TypeOK, Late, Sound, NEW a \in Attempts,
         Begin(a) \/ Deadline(a) \/ LoginSucceeds(a) \/ Run(a)
  PROVE  Sound'
<1>1. /\ account.cred \in Attempts \cup {None}
      /\ cache \in Attempts \cup {None}
      /\ \A x \in Users : user[x].acc.cred \in Attempts \cup {None}
  BY DEF TypeOK, Account, NoAccount, User
<1>2. /\ Checked(account.cred)' /\ Checked(cache)'
  <2>1. CASE account' = account /\ cache' = cache BY <1>1, <2>1, RunLate DEF Sound, Checked
  <2>2. CASE account' # account /\ cache' = cache BY <1>1, <2>2, RunLate DEF Sound, Checked
  <2>3. CASE account' = account /\ cache' # cache BY <1>1, <2>3, RunLate DEF Sound, Checked
  <2>4. CASE account' # account /\ cache' # cache BY <1>1, <2>4, RunLate DEF Sound, Checked
  <2> QED BY <2>1, <2>2, <2>3, <2>4
<1>3. \A x \in Users : Checked(user[x].acc.cred)'
  BY <1>1, RunLate DEF Sound, Checked
<1> QED BY <1>2, <1>3 DEF Sound

LEMMA UnlinkSound ==
  ASSUME TypeOK, Late, Sound, NEW u \in Unlinkers, Unlink(u) \/ Unlinking(u)
  PROVE  Late' /\ Sound'
<1>1. UNCHANGED <<attempt, user, late>> /\ (active' = active \/ active' = None)
  BY DEF Unlink, Unlinking, CancelOne, JoinOne, UnlinkEvicts, Delete, DeleteFails,
         store, manager, shutdown, ghost
<1>2. account' = account \/ account' = NoAccount
  BY DEF Unlink, Unlinking, CancelOne, JoinOne, UnlinkEvicts, Delete, DeleteFails, store
<1>3. cache' = cache \/ cache' = None
  BY DEF Unlink, Unlinking, CancelOne, JoinOne, UnlinkEvicts, Delete, DeleteFails,
         store, Evict
<1>4. Late' BY <1>1, NoneIsNoAttempt DEF TypeOK, Late
<1>5. \A c : Checked(c)' <=> Checked(c) BY <1>1 DEF Checked
<1>6. account' = account \/ account'.cred = None BY <1>2 DEF NoAccount
<1> QED BY <1>1, <1>3, <1>4, <1>5, <1>6, NoneChecked DEF Sound, Checked

LEMMA UserSound ==
  ASSUME TypeOK, Late, Sound, NEW x \in Users, StartSend(x) \/ ListLinked(x) \/ SessionFor(x)
  PROVE  Late' /\ Sound'
<1>1. UNCHANGED <<attempt, active, late>> BY UserMoves DEF manager, ghost
<1>2. account'.cred = account.cred BY UserStores
<1>3. cache' \in {cache, None, user[x].acc.cred}
  BY DEF StartSend, ListLinked, SessionFor, VerifyAccount, SweepStops, Lookup,
         NoteEvictions, GetByTeacher, Relogin, PutUnlessEvicted, RecordHealthy,
         CallZalo, ExpireEvicts, ExpireMarks, Evict, store
<1>4. \A y \in Users : user'[y].acc \in {user[y].acc, account}
  <2>1. user \in [Users -> User] BY DEF TypeOK
  <2>2. ASSUME NEW p, UserGoes(x, p) PROVE \A y \in Users : user'[y].acc = user[y].acc
    BY <2>1, <2>2 DEF UserGoes, User
  <2>3. CASE ListLinked(x) \/ VerifyAccount(x)
    <3>1. CASE UserGoes(x, "lookup") BY <2>2, <3>1
    <3>2. CASE ~UserGoes(x, "lookup")
      BY <2>1, <2>3, <3>2 DEF ListLinked, VerifyAccount, User
    <3> QED BY <3>1, <3>2
  <2>4. CASE NoteEvictions(x) BY <2>1, <2>4 DEF NoteEvictions, User
  <2>5. CASE GetByTeacher(x)
    <3>1. CASE UserGoes(x, "done") BY <2>2, <3>1
    <3>2. CASE ~UserGoes(x, "done")
      <4>1. user' = [user EXCEPT ![x] = [[user[x] EXCEPT !.pc = "relogin"]
                                                  EXCEPT !.acc = account]]
        BY <2>5, <3>2 DEF GetByTeacher
      <4> QED BY <2>1, <4>1 DEF User
    <3> QED BY <3>1, <3>2
  <2>6. CASE \E p : UserGoes(x, p) BY <2>2, <2>6
  <2> QED
    BY <2>3, <2>4, <2>5, <2>6
    DEF StartSend, SessionFor, SweepStops, Lookup, Relogin, PutUnlessEvicted, RecordHealthy,
        CallZalo, ExpireEvicts, ExpireMarks
<1>5. \A c : Checked(c)' <=> Checked(c) BY <1>1 DEF Checked
<1>6. Late' BY <1>1 DEF Late
<1>7. Checked(account'.cred) BY <1>2 DEF Sound
<1>8. Checked(cache') BY <1>3, NoneChecked DEF Sound
<1>9. \A y \in Users : Checked(user'[y].acc.cred) BY <1>4 DEF Sound
<1>10. Sound' BY <1>1, <1>7, <1>8, <1>9 DEF Sound, Checked
<1> QED BY <1>6, <1>10

LEMMA SoundStep == TypeOK /\ Late /\ Sound /\ [Next]_vars => Late' /\ Sound'
<1> SUFFICES ASSUME TypeOK, Late, Sound, [Next]_vars PROVE Late' /\ Sound' OBVIOUS
<1>1. CASE UNCHANGED vars
  BY <1>1 DEF vars, store, manager, ghost, Late, Sound, Checked
<1>2. CASE Close \/ Sweep
  <2>1. active' = active \/ active' = None
    BY <1>2 DEF Sweep, Close, CloseStarts, CloseCancels, CloseNotes, CloseReturns, manager
  <2> QED BY <1>2, <2>1, CloseMoves, NoneIsNoAttempt DEF TypeOK, store, ghost, Late, Sound, Checked
<1> QED BY <1>1, <1>2, RunLate, RunSound, UnlinkSound, UserSound DEF Next

\* A scan that arrives for an attempt the teacher has moved on from is neither
\* stored nor cached, by its goroutine or by a restore (LinkManager.run).
THEOREM LateScansAreDropped == Spec => []LateScanIsDropped
<1>1. Init => Late /\ Sound
  BY NoneIsNoAttempt DEF Init, Late, Sound, Checked, NoAccount
<1>2. LinkInv /\ Late /\ Sound /\ [Next]_vars => Late' /\ Sound' BY SoundStep DEF LinkInv
<1>3. Sound => LateScanIsDropped BY DEF Sound, Checked, LateScanIsDropped
<1> QED BY <1>1, <1>2, <1>3, LinkInvHolds, PTL DEF Spec
=============================================================================
