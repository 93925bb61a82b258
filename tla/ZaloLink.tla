------------------------------ MODULE ZaloLink ------------------------------
(***************************************************************************)
(* One teacher's Zalo account: QR link attempts and the LinkManager that   *)
(* runs them, the stored credentials, the session cache, Unlink, the       *)
(* restore of a session (sessionFor) by sends and by the health probe, and *)
(* Close.  Everything is keyed by teacher, so one teacher is enough.       *)
(*                                                                         *)
(* An attempt stands for the Zalo login it results in: a stored account or *)
(* a session names the attempt its credentials come from.  Requests,       *)
(* attempts and the probe interleave at every lock, database access and    *)
(* call to Zalo.                                                           *)
(***************************************************************************)
EXTENDS Naturals, FiniteSets

CONSTANTS
  Attempts,  \* calls of Begin, each with the goroutine it starts
  Earlier,   \* those of an earlier process, one of which may be stored
  Users,     \* calls of sessionFor: a send, a friend list, a verification
  Unlinkers, \* calls of Unlink
  Faults     \* may a database write fail, or time out with its outcome unknown?

None == "none"
ASSUME NoneIsNoAttempt == None \notin Attempts
ASSUME EarlierAttempts == Earlier \subseteq Attempts
ASSUME FaultsIsBoolean == Faults \in BOOLEAN

VARIABLES
  account,    \* zalo_accounts: the live row's credentials and status
  cache,      \* SessionCache.sessions
  evictions,  \* SessionCache.evictions
  active,     \* LinkManager.active
  live,       \* LinkManager.live
  ended,      \* attempts whose context is over
  attempt,    \* where the goroutine of an attempt is
  shown,      \* the LinkState of its record
  unlinker,   \* calls of Unlink
  user,       \* calls of sessionFor
  closing,    \* where Close is
  awaited,    \* the attempts Close waits for
  revoked,    \* history: attempts begun before an Unlink that has returned
  late        \* history: attempts whose scan came after they were replaced

store     == <<account, cache, evictions>>
manager   == <<active, live, ended, attempt, shown>>
shutdown  == <<closing, awaited>>
ghost     == <<revoked, late>>
vars      == <<store, manager, unlinker, user, shutdown, ghost>>

Final     == {"linked", "expired", "error"}
LinkState == {"pending"} \cup Final  \* qr_ready, scanned, confirmed: still pending
Writing   == {"persist", "cache"}
Running   == {"login", "check", "report", "retire"} \cup Writing

NoAccount == [cred |-> None, status |-> "none"]
Account   == {NoAccount} \cup [cred : Attempts, status : {"linked", "expired"}]
Unlinker  == [pc : {"idle", "cancel", "join", "delete", "done", "failed"},
              todo : SUBSET Attempts, on : Attempts \cup {None},
              before : SUBSET Attempts]
User      == [pc : {"idle", "listed", "lookup", "since", "read", "relogin", "put",
                    "revive", "use", "expire", "mark", "done"},
              kind : {"send", "verify", "probe"}, since : Nat, acc : Account]

TypeOK ==
  /\ account \in Account
  /\ cache \in Attempts \cup {None}
  /\ evictions \in Nat
  /\ active \in Attempts \cup {None}
  /\ live \subseteq Attempts /\ ended \subseteq Attempts
  /\ attempt \in [Attempts -> Running \cup {"new", "done"}]
  /\ shown \in [Attempts -> LinkState]
  /\ unlinker \in [Unlinkers -> Unlinker]
  /\ user \in [Users -> User]
  /\ closing \in {"open", "probe", "cancelled", "joining", "closed"}
  /\ awaited \subseteq Attempts
  /\ revoked \subseteq Attempts /\ late \subseteq Attempts

Init ==
  /\ account \in {NoAccount} \cup [cred : Earlier, status : {"linked", "expired"}]
  /\ cache = None /\ evictions = 0
  /\ active = None /\ live = {} /\ ended = {}
  /\ attempt = [a \in Attempts |-> IF a \in Earlier THEN "done" ELSE "new"]
  /\ shown = [a \in Attempts |-> "pending"]
  /\ unlinker = [u \in Unlinkers |->
                   [pc |-> "idle", todo |-> {}, on |-> None, before |-> {}]]
  /\ user = [x \in Users |->
               [pc |-> "idle", kind |-> "send", since |-> 0, acc |-> NoAccount]]
  /\ closing = "open" /\ awaited = {}
  /\ revoked = {} /\ late = {}

-----------------------------------------------------------------------------
\* The repository and the cache.

UpdateStatus(s) ==
  account' = IF account = NoAccount THEN NoAccount ELSE [account EXCEPT !.status = s]

Evict == cache' = None /\ evictions' = evictions + 1

-----------------------------------------------------------------------------
\* Link attempts: LinkManager.Begin and run.

Baseless == closing \in {"cancelled", "joining", "closed"}  \* baseCtx is over

\* Start attempt a and cancel the one it replaces.
Begin(a) ==
  /\ attempt[a] = "new"
  /\ attempt' = [attempt EXCEPT ![a] = "login"]
  /\ active' = a
  /\ live' = live \cup {a}
  /\ ended' = ended \cup ({active} \ {None}) \cup (IF Baseless THEN {a} ELSE {})
  /\ UNCHANGED <<shown, store, unlinker, user, shutdown, ghost>>

\* The record of a finished attempt is dropped after its retention.
Sweep ==
  /\ active \in ended
  /\ active' = None
  /\ UNCHANGED <<live, ended, attempt, shown, store, unlinker, user, shutdown, ghost>>

\* The context of a runs out of time.
Deadline(a) ==
  /\ a \in live \ ended
  /\ ended' = ended \cup {a}
  /\ UNCHANGED <<active, live, attempt, shown, store, unlinker, user, shutdown, ghost>>

Goto(a, p) == attempt' = [attempt EXCEPT ![a] = p]

\* update: only the current attempt's record is written.
Show(a, s) == shown' = IF active = a THEN [shown EXCEPT ![a] = s] ELSE shown

\* A login whose context is over does not succeed.
LoginSucceeds(a) ==
  /\ attempt[a] = "login" /\ a \notin ended
  /\ Goto(a, "check")
  /\ late' = IF active = a THEN late ELSE late \cup {a}
  /\ UNCHANGED <<active, live, ended, shown, store, unlinker, user, shutdown, revoked>>

LoginFails(a) ==
  /\ attempt[a] = "login"
  /\ Goto(a, "retire")
  /\ Show(a, IF a \in ended THEN "expired" ELSE "error")
  /\ UNCHANGED <<active, live, ended, store, unlinker, user, shutdown, ghost>>

\* Mutant of IsCurrent: every scan is stored.
Unchecked(a) ==
  /\ attempt[a] = "check"
  /\ Goto(a, "persist")
  /\ UNCHANGED <<active, live, ended, shown, store, unlinker, user, shutdown, ghost>>

\* The scan of an attempt the teacher has moved on from is dropped.
IsCurrent(a) ==
  /\ attempt[a] = "check"
  /\ Goto(a, IF active = a THEN "persist" ELSE "retire")
  /\ UNCHANGED <<active, live, ended, shown, store, unlinker, user, shutdown, ghost>>

\* persistLink: prove the credentials with a login and store them.
Upsert(a) ==
  /\ attempt[a] = "persist"
  /\ Goto(a, "cache")
  /\ account' = [cred |-> a, status |-> "linked"]
  /\ UNCHANGED <<active, live, ended, shown, cache, evictions, unlinker, user, shutdown,
                 ghost>>

\* Mutant of PersistFails: the failure is not shown.
FailsSilently(a) ==
  /\ attempt[a] = "persist"
  /\ Goto(a, "retire")
  /\ UNCHANGED <<active, live, ended, shown, store, unlinker, user, shutdown, ghost>>

\* The login or the write fails; a write that timed out may be there all the same.
PersistFails(a) ==
  /\ attempt[a] = "persist"
  /\ Goto(a, "retire")
  /\ Show(a, "error")
  /\ \/ UNCHANGED account
     \/ Faults /\ account' = [cred |-> a, status |-> "linked"]
  /\ UNCHANGED <<active, live, ended, cache, evictions, unlinker, user, shutdown, ghost>>

Put(a) ==
  /\ attempt[a] = "cache"
  /\ Goto(a, "report")
  /\ cache' = a
  /\ UNCHANGED <<active, live, ended, shown, account, evictions, unlinker, user,
                 shutdown, ghost>>

Report(a) ==
  /\ attempt[a] = "report"
  /\ Goto(a, "retire")
  /\ Show(a, "linked")
  /\ UNCHANGED <<active, live, ended, store, unlinker, user, shutdown, ghost>>

\* Mutant of Retire: a replaced attempt leaves live and closes nothing.
RetireCurrent(a) ==
  /\ attempt[a] = "retire" /\ active = a
  /\ Goto(a, "done")
  /\ live' = live \ {a} /\ ended' = ended \cup {a}
  /\ UNCHANGED <<active, shown, store, unlinker, user, shutdown, ghost>>

\* Leave live, then close done: whoever waits may go on.
Retire(a) ==
  /\ attempt[a] = "retire"
  /\ Goto(a, "done")
  /\ live' = live \ {a} /\ ended' = ended \cup {a}
  /\ UNCHANGED <<active, shown, store, unlinker, user, shutdown, ghost>>

-----------------------------------------------------------------------------
\* Unlink: LinkManager.Cancel, then the cache, then the row.

Begun == {a \in Attempts : attempt[a] # "new"}

\* Mutant of Unlink: Cancel looks at the current attempt only.
UnlinkCurrent(u) ==
  /\ unlinker[u].pc = "idle"
  /\ unlinker' = [unlinker EXCEPT ![u].pc = "cancel", ![u].before = Begun,
                                  ![u].todo = live \cap {active}]
  /\ active' = None
  /\ UNCHANGED <<live, ended, attempt, shown, store, user, shutdown, ghost>>

\* Forget the current attempt and note every goroutine still running.
Unlink(u) ==
  /\ unlinker[u].pc = "idle"
  /\ unlinker' = [unlinker EXCEPT ![u].pc = "cancel", ![u].before = Begun,
                                  ![u].todo = live]
  /\ active' = None
  /\ UNCHANGED <<live, ended, attempt, shown, store, user, shutdown, ghost>>

\* rec.cancel(), one attempt after the other.
CancelOne(u, a) ==
  /\ unlinker[u].pc = "cancel" /\ a \in unlinker[u].todo
  /\ unlinker' = [unlinker EXCEPT ![u].pc = "join", ![u].on = a, ![u].todo = @ \ {a}]
  /\ ended' = ended \cup {a}
  /\ UNCHANGED <<active, live, attempt, shown, store, user, shutdown, ghost>>

\* <-rec.done.
JoinOne(u) ==
  /\ unlinker[u].pc = "join" /\ attempt[unlinker[u].on] = "done"
  /\ unlinker' = [unlinker EXCEPT ![u].pc = "cancel", ![u].on = None]
  /\ UNCHANGED <<store, manager, user, shutdown, ghost>>

UnlinkEvicts(u) ==
  /\ unlinker[u].pc = "cancel" /\ unlinker[u].todo = {}
  /\ unlinker' = [unlinker EXCEPT ![u].pc = "delete"]
  /\ Evict
  /\ UNCHANGED <<account, manager, user, shutdown, ghost>>

Delete(u) ==
  /\ unlinker[u].pc = "delete"
  /\ unlinker' = [unlinker EXCEPT ![u].pc = "done"]
  /\ account' = NoAccount
  /\ revoked' = revoked \cup unlinker[u].before
  /\ UNCHANGED <<cache, evictions, manager, user, shutdown, late>>

\* Unlink reports an error; a delete that timed out may be done all the same.
DeleteFails(u) ==
  /\ unlinker[u].pc = "delete" /\ Faults
  /\ unlinker' = [unlinker EXCEPT ![u].pc = "failed"]
  /\ account' \in {account, NoAccount}
  /\ UNCHANGED <<cache, evictions, manager, user, shutdown, ghost>>

-----------------------------------------------------------------------------
\* sessionFor, called by SendDM and its like and by VerifyAccount.

UserAt(x, p) == user[x].pc = p
UserGoes(x, p) == user' = [user EXCEPT ![x].pc = p]

\* Where a call goes once it has a session: on to Zalo, unless it only verifies.
Served(x) == IF user[x].kind = "send" THEN "use" ELSE "done"

StartSend(x) ==
  /\ UserAt(x, "idle") /\ UserGoes(x, "lookup")
  /\ UNCHANGED <<store, manager, unlinker, shutdown, ghost>>

Probing == \E x \in Users : user[x].kind = "probe" /\ ~UserAt(x, "done")

\* The probe lists the linked accounts, then verifies one after the other.
ListLinked(x) ==
  /\ UserAt(x, "idle") /\ closing = "open" /\ ~Probing
  /\ account.status = "linked"
  /\ user' = [user EXCEPT ![x].pc = "listed", ![x].kind = "probe"]
  /\ UNCHANGED <<store, manager, unlinker, shutdown, ghost>>

\* The sweep of a stopped probe ends.
SweepStops(x) ==
  /\ UserAt(x, "listed") /\ closing # "open"
  /\ UserGoes(x, "done")
  /\ UNCHANGED <<store, manager, unlinker, shutdown, ghost>>

\* VerifyAccount, called by the probe and by requests that are about to send in
\* bulk, ignores the cache: it drops the session first.
VerifyAccount(x) ==
  /\ \/ UserAt(x, "listed") /\ UserGoes(x, "lookup")
     \/ UserAt(x, "idle") /\ user' = [user EXCEPT ![x].pc = "lookup", ![x].kind = "verify"]
  /\ Evict
  /\ UNCHANGED <<account, manager, unlinker, shutdown, ghost>>

\* cache.Get.
Lookup(x) ==
  /\ UserAt(x, "lookup")
  /\ UserGoes(x, IF cache = None THEN "since" ELSE Served(x))
  /\ UNCHANGED <<store, manager, unlinker, shutdown, ghost>>

\* cache.Evictions.
NoteEvictions(x) ==
  /\ UserAt(x, "since")
  /\ user' = [user EXCEPT ![x].pc = "read", ![x].since = evictions]
  /\ UNCHANGED <<store, manager, unlinker, shutdown, ghost>>

\* GetByTeacher: not linked (or a database error), or the stored credentials.
GetByTeacher(x) ==
  /\ UserAt(x, "read")
  /\ \/ UserGoes(x, "done")
     \/ /\ account # NoAccount
        /\ user' = [user EXCEPT ![x].pc = "relogin", ![x].acc = account]
  /\ UNCHANGED <<store, manager, unlinker, shutdown, ghost>>

\* Zalo takes the credentials or does not (any error counts as a rejection).
Relogin(x) ==
  /\ UserAt(x, "relogin")
  /\ \E p \in {"put", "expire"} : UserGoes(x, p)
  /\ UNCHANGED <<store, manager, unlinker, shutdown, ghost>>

PutUnlessEvicted(x) ==
  /\ UserAt(x, "put")
  /\ IF evictions = user[x].since
       THEN /\ cache' = user[x].acc.cred
            /\ UserGoes(x, IF user[x].acc.status = "linked" THEN Served(x) ELSE "revive")
       ELSE UNCHANGED cache /\ UserGoes(x, "done")
  /\ UNCHANGED <<account, evictions, manager, unlinker, shutdown, ghost>>

\* recordHealthy: an account given up on earlier is linked again, or it fails.
RecordHealthy(x) ==
  /\ UserAt(x, "revive") /\ UserGoes(x, Served(x))
  /\ UpdateStatus("linked") \/ (Faults /\ UNCHANGED account)
  /\ UNCHANGED <<cache, evictions, manager, unlinker, shutdown, ghost>>

\* The call to Zalo: answered, or rejected as not logged in.
CallZalo(x) ==
  /\ UserAt(x, "use")
  /\ \E p \in {"done", "expire"} : UserGoes(x, p)
  /\ UNCHANGED <<store, manager, unlinker, shutdown, ghost>>

\* expire: the session goes, then the row is marked (a failure is only logged).
ExpireEvicts(x) ==
  /\ UserAt(x, "expire") /\ UserGoes(x, "mark")
  /\ Evict
  /\ UNCHANGED <<account, manager, unlinker, shutdown, ghost>>

ExpireMarks(x) ==
  /\ UserAt(x, "mark") /\ UserGoes(x, "done")
  /\ UpdateStatus("expired") \/ (Faults /\ UNCHANGED account)
  /\ UNCHANGED <<cache, evictions, manager, unlinker, shutdown, ghost>>

-----------------------------------------------------------------------------
\* Service.Close: the probe, then the attempts.

\* stopProbe waits for the probe's verification; baseCancel ends every context.
CloseCancels ==
  /\ closing = "probe"
  /\ ~Probing
  /\ closing' = "cancelled"
  /\ ended' = ended \cup live
  /\ UNCHANGED <<active, live, attempt, shown, store, unlinker, user, awaited, ghost>>

CloseStarts ==
  /\ closing = "open" /\ closing' = "probe"
  /\ UNCHANGED <<store, manager, unlinker, user, awaited, ghost>>

\* Mutant of CloseNotes: Close waits for the current attempt only.
CloseNotesCurrent ==
  /\ closing = "cancelled" /\ closing' = "joining"
  /\ awaited' = live \cap {active} /\ active' = None
  /\ UNCHANGED <<live, ended, attempt, shown, store, unlinker, user, ghost>>

CloseNotes ==
  /\ closing = "cancelled" /\ closing' = "joining"
  /\ awaited' = live /\ active' = None
  /\ UNCHANGED <<live, ended, attempt, shown, store, unlinker, user, ghost>>

CloseReturns ==
  /\ closing = "joining" /\ \A a \in awaited : attempt[a] = "done"
  /\ closing' = "closed"
  /\ UNCHANGED <<store, manager, unlinker, user, awaited, ghost>>

-----------------------------------------------------------------------------

\* The goroutine of an attempt, its login apart from a success.
Run(a) == \/ LoginFails(a) \/ IsCurrent(a) \/ Upsert(a) \/ PersistFails(a)
          \/ Put(a) \/ Report(a) \/ Retire(a)

Unlinking(u) == \/ \E a \in Attempts : CancelOne(u, a)
                \/ JoinOne(u) \/ UnlinkEvicts(u) \/ Delete(u) \/ DeleteFails(u)

SessionFor(x) == \/ VerifyAccount(x) \/ SweepStops(x) \/ Lookup(x) \/ NoteEvictions(x)
                 \/ GetByTeacher(x) \/ Relogin(x) \/ PutUnlessEvicted(x)
                 \/ RecordHealthy(x) \/ CallZalo(x) \/ ExpireEvicts(x) \/ ExpireMarks(x)

Close == CloseStarts \/ CloseCancels \/ CloseNotes \/ CloseReturns

Next ==
  \/ \E a \in Attempts : Begin(a) \/ Deadline(a) \/ LoginSucceeds(a) \/ Run(a)
  \/ \E u \in Unlinkers : Unlink(u) \/ Unlinking(u)
  \/ \E x \in Users : StartSend(x) \/ ListLinked(x) \/ SessionFor(x)
  \/ Sweep \/ Close

Spec == Init /\ [][Next]_vars

\* A goroutine that can run does; a login ends by its deadline, the login and
\* the write that follow a scan end by persistTimeout, a removal by unlinkTimeout.
FairSpec ==
  /\ Spec
  /\ \A a \in Attempts : WF_vars(Run(a))
  /\ \A u \in Unlinkers : WF_vars(Unlinking(u))

-----------------------------------------------------------------------------
\* Properties.

\* Once an Unlink has returned, no attempt begun before it, replaced ones
\* included, brings the account back (LinkManager.Cancel's comment).
UnlinkSticks == account.cred \notin revoked

\* A scan that arrives for an attempt the teacher has moved on from is neither
\* stored nor cached (LinkManager.run's comment).
LateScanIsDropped == account.cred \notin late /\ cache \notin late

\* When Close has returned, no attempt can write, not even one begun since.
QuietAfterClose == closing = "closed" => \A a \in Attempts : attempt[a] \notin Writing

\* Unlink's wait for the attempts in flight ends.
UnlinkReturns ==
  \A u \in Unlinkers : unlinker[u].pc = "cancel" ~> unlinker[u].pc \in {"done", "failed"}

\* A poll of the current attempt is told an outcome in the end.
AttemptIsReported ==
  \A a \in Attempts : active = a ~> active # a \/ shown[a] \in Final
=============================================================================
