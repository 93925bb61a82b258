-------------------------- MODULE NotificationRuns --------------------------
(***************************************************************************)
(* Paced background sending of one billing period's statements as Zalo     *)
(* direct messages: the notifications service (BulkSend, ResumeRun,        *)
(* MarkSent, ReconcileInterrupted), its repository and the RunManager.     *)
(*                                                                         *)
(* A process is an "attempt": one personal BulkSend or ResumeRun request   *)
(* and, once it has committed, the goroutine that sends its run.  Requests *)
(* interleave at every database access, because PostgreSQL runs their      *)
(* transactions at READ COMMITTED.  A dimension is one (period, family) or *)
(* (period, class) pair: what a run covers.  A row is one contact's ledger *)
(* row in one run.                                                         *)
(***************************************************************************)
EXTENDS Naturals, FiniteSets

CONSTANTS
  Teachers,      \* senders, each with a Zalo account of their own
  Dims,          \* (period, dimension) pairs a run can cover
  Contacts,      \* parents
  Attempts,      \* concurrent send attempts (requests, then goroutines)
  Probed,        \* the <<teacher, dimension>> grants re-checked per item
  MaxRuns,       \* bound: runs ever created
  MaxRunSize,    \* cfg.MaxRunSize
  Breaker,       \* runBreakerThreshold
  MaxRestarts,   \* bound: process ends (exits and crashes)
  Crashes,       \* may the process die at any point?
  WriteFaults    \* may a write of the run goroutine fail?

ASSUME ConstantsOK ==
  /\ Probed \subseteq Teachers \X Dims
  /\ MaxRuns \in Nat /\ MaxRunSize \in Nat /\ MaxRestarts \in Nat
  /\ Breaker \in Nat \ {0}
  /\ Crashes \in BOOLEAN /\ WriteFaults \in BOOLEAN

RunIds == 1 .. MaxRuns
NoRun  == 0
None   == "none"

ASSUME NoneIsNoValue == None \notin Attempts \cup Teachers \cup Dims \cup Contacts

RowStatus == {"absent", "queued", "sent", "failed"}
Settled   == {"completed", "expired"}
RunStatus == {"absent", "running", "interrupted"} \cup Settled

VARIABLES
  runs,      \* notification_runs, in creation order
  rows,      \* notifications carrying a run_id, by run and contact
  slot,      \* RunManager.active: the attempt holding a teacher's run slot
  att,       \* the attempts: where each is and its locals
  phase,     \* of the process: Close's steps, and down between two processes
  restarts,  \* how many processes have ended
  dms,       \* history: messages that reached Zalo, by run and contact (2: or more)
  lost       \* history: rows a message may have reached with no record of it

db    == <<runs, rows>>
proc  == <<phase, restarts>>
ghost == <<dms, lost>>
vars  == <<db, slot, att, proc, ghost>>

Manual  == {"manualRead", "manualWrite"}                 \* needs no slot
Bulk    == {"admit", "reserve", "txread", "txwrite"} \cup Manual
Resume  == {"resumeAdmit", "resumeReserve", "resumeRead", "resumeWrite"}
Sending == {"start", "head", "sent", "sweep", "finish"}  \* owns a running run
Holding == {"txread", "txwrite", "resumeRead", "resumeWrite", "release", "exit"}
             \cup Sending
PCs     == {"idle"} \cup Bulk \cup Resume \cup Holding

NoRecord == [status |-> "absent", teacher |-> None, dim |-> None]

\* SendDM's answers; "noAnswer" is an error for a message that was delivered.
Delivered == {"ok", "noAnswer"}
Answers   == Delivered \cup {"error", "expired"}

Attempt == [
  pc     : PCs,
  who    : Teachers \cup {None},        \* the sender
  what   : Dims \cup {None},            \* the dimension
  run    : RunIds \cup {NoRun},         \* the run it resumes or sends
  stale  : SUBSET RunIds,               \* another teacher's run, to supersede
  todo   : SUBSET Contacts,             \* items, in memory only
  cur    : Contacts \cup {None},        \* the send in flight
  reply  : Answers \cup {None},         \* what SendDM answered
  streak : Nat,                         \* failureStreak
  ending : RunStatus]                   \* the status the run is about to get

Idle == [pc |-> "idle", who |-> None, what |-> None, run |-> NoRun, stale |-> {},
         todo |-> {}, cur |-> None, reply |-> None, streak |-> 0, ending |-> "absent"]

-----------------------------------------------------------------------------
\* Queries of the repository.

\* Mutant of Queued: a resume that retries failed rows too.
QueuedOrFailed(r) == {c \in Contacts : rows[r][c] \in {"queued", "failed"}}

\* Rows of run r that are still queued.
Queued(r) == {c \in Contacts : rows[r][c] = "queued"}

HasActiveRun(t) == \E r \in RunIds : runs[r].status = "running" /\ runs[r].teacher = t
HasActiveRunForPeriod(d) == \E r \in RunIds : runs[r].status = "running" /\ runs[r].dim = d

\* Mutant of IndexAdmits: without the per-period indexes of 000012 and 000017.
TeacherIndexAdmits(r, t, d) ==
  \A o \in RunIds \ {r} : runs[o].status = "running" => runs[o].teacher # t

\* The partial unique indexes: may run r of teacher t over d be running?
IndexAdmits(r, t, d) ==
  \A o \in RunIds \ {r} :
    runs[o].status = "running" => runs[o].teacher # t /\ runs[o].dim # d

\* The newest run of S, if there is one.
Newest(S) == {r \in S : \A o \in S : o <= r}
LatestRunByPeriod(d) == Newest({r \in RunIds : runs[r].dim = d})
LatestOwnRunByPeriod(t, d) ==
  Newest({r \in RunIds : runs[r].dim = d /\ runs[r].teacher = t})

\* Mutant of Verdict: no status = 'queued' in the WHERE clause.
VerdictOverwrites(f, S, verdict) == [c \in Contacts |-> IF c \in S THEN verdict ELSE f[c]]

\* Every write of a verdict touches queued rows only.
Verdict(f, S, verdict) ==
  [c \in Contacts |-> IF c \in S /\ f[c] = "queued" THEN verdict ELSE f[c]]

FailQueued(f) == Verdict(f, Contacts, "failed")

Unused == {r \in RunIds : runs[r].status = "absent"}

TypeOK ==
  /\ runs \in [RunIds -> [status : RunStatus, teacher : Teachers \cup {None},
                          dim : Dims \cup {None}]]
  /\ rows \in [RunIds -> [Contacts -> RowStatus]]
  /\ slot \in [Teachers -> Attempts \cup {None}]
  /\ att \in [Attempts -> Attempt]
  /\ phase \in {"up", "cancelled", "closing", "closed", "down"}
  /\ restarts \in Nat
  /\ dms \in [RunIds -> [Contacts -> 0 .. 2]]
  /\ lost \subseteq RunIds \X Contacts

Init ==
  /\ runs = [r \in RunIds |-> NoRecord]
  /\ rows = [r \in RunIds |-> [c \in Contacts |-> "absent"]]
  /\ slot = [t \in Teachers |-> None]
  /\ att = [q \in Attempts |-> Idle]
  /\ phase = "up" /\ restarts = 0
  /\ dms = [r \in RunIds |-> [c \in Contacts |-> 0]]
  /\ lost = {}

-----------------------------------------------------------------------------
\* Requests.

pc(q) == att[q].pc
Becomes(q, a) == att' = [att EXCEPT ![q] = a]
Goto(q, p) == Becomes(q, [att[q] EXCEPT !.pc = p])

\* Only the slot is left to give back.
Leave(q, p) == Becomes(q, [Idle EXCEPT !.pc = p, !.who = att[q].who])

\* A zalo_personal BulkSend the send gate lets through; the server accepts none once
\* it is shutting down.
BulkSend(q, t, d) ==
  /\ phase = "up" /\ pc(q) = "idle"
  /\ Becomes(q, [att[q] EXCEPT !.pc = "admit", !.who = t, !.what = d])
  /\ UNCHANGED <<db, slot, proc, ghost>>

\* A copy-paste BulkSend: the same transaction, with no run and no slot.
ManualSend(q, t, d) ==
  /\ phase = "up" /\ pc(q) = "idle"
  /\ Becomes(q, [att[q] EXCEPT !.pc = "manualRead", !.who = t, !.what = d])
  /\ UNCHANGED <<db, slot, proc, ghost>>

\* ResumeRun looks its run up and judges its status first; everything after
\* works from that record.
ResumeRun(q, t, d) ==
  /\ phase = "up" /\ pc(q) = "idle"
  /\ \E r \in LatestOwnRunByPeriod(t, d) :
       /\ runs[r].status = "interrupted"
       /\ Becomes(q, [att[q] EXCEPT !.pc = "resumeAdmit", !.who = t, !.what = d, !.run = r])
  /\ UNCHANGED <<db, slot, proc, ghost>>

\* The checks on running runs: both of them for a bulk send, the sender's own
\* for a resume.
Admit(q) ==
  /\ \/ /\ pc(q) = "admit" /\ ~HasActiveRunForPeriod(att[q].what)
        /\ Goto(q, "reserve")
     \/ pc(q) = "resumeAdmit" /\ Goto(q, "resumeReserve")
  /\ ~HasActiveRun(att[q].who)
  /\ UNCHANGED <<db, slot, proc, ghost>>

\* RunManager.Reserve: the slot must be free and the manager open.
Reserve(q) ==
  /\ pc(q) \in {"reserve", "resumeReserve"}
  /\ phase \in {"up", "cancelled"}
  /\ slot[att[q].who] = None
  /\ slot' = [slot EXCEPT ![att[q].who] = q]
  /\ Goto(q, IF pc(q) = "reserve" THEN "txread" ELSE "resumeRead")
  /\ UNCHANGED <<db, proc, ghost>>

\* A dead Zalo session, a running run, a busy slot or a failed lookup turns the
\* request away before it has touched anything.
Refuse(q) ==
  /\ pc(q) \in {"admit", "reserve", "resumeAdmit", "resumeReserve"}
  /\ Becomes(q, Idle)
  /\ UNCHANGED <<db, slot, proc, ghost>>

\* The bulk transaction reads the period's latest run: a stopped run of another
\* teacher will be superseded.
BulkRead(q) ==
  /\ pc(q) \in {"txread", "manualRead"}
  /\ Becomes(q, [att[q] EXCEPT !.pc = IF @ = "txread" THEN "txwrite" ELSE "manualWrite",
                              !.stale =
                   {r \in LatestRunByPeriod(att[q].what) :
                      runs[r].status # "running" /\ runs[r].teacher # att[q].who}])
  /\ UNCHANGED <<db, slot, proc, ghost>>

Fits(S) == MaxRunSize > 0 => Cardinality(S) <= MaxRunSize

\* It commits with the contacts in S mapped to Zalo friends: the superseded
\* rows fail, the run and its rows appear.
BulkCommit(q, r, S) ==
  /\ pc(q) = "txwrite" /\ S # {}
  /\ r \in Unused /\ \A o \in Unused : r <= o
  /\ Fits(S)
  /\ IndexAdmits(r, att[q].who, att[q].what)
  /\ runs' = [runs EXCEPT ![r] = [status |-> "running", teacher |-> att[q].who,
                                  dim |-> att[q].what]]
  /\ rows' = [o \in RunIds |->
                IF o = r THEN [c \in Contacts |-> IF c \in S THEN "queued" ELSE "absent"]
                ELSE IF o \in att[q].stale THEN FailQueued(rows[o]) ELSE rows[o]]
  /\ Becomes(q, [att[q] EXCEPT !.pc = "start", !.run = r, !.stale = {}, !.todo = S])
  /\ UNCHANGED <<slot, proc, ghost>>

\* The request ends without a run: only a slot may be left to give back.
EndRequest(q) == IF pc(q) \in Manual THEN Becomes(q, Idle) ELSE Leave(q, "release")

\* It commits copy-paste rows only, no run: the channel is manual or no contact
\* is mapped.
BulkCommitManual(q) ==
  /\ pc(q) \in {"txwrite", "manualWrite"}
  /\ rows' = [o \in RunIds |-> IF o \in att[q].stale THEN FailQueued(rows[o]) ELSE rows[o]]
  /\ EndRequest(q)
  /\ UNCHANGED <<runs, slot, proc, ghost>>

\* QueuedRunRows of the run looked up earlier.
ResumeRead(q) ==
  /\ pc(q) = "resumeRead"
  /\ Becomes(q, [att[q] EXCEPT !.pc = "resumeWrite", !.todo = Queued(att[q].run)])
  /\ UNCHANGED <<db, slot, proc, ghost>>

\* The rows in F can no longer be sent (unmapped, stale or paid) and fail; with
\* none left the run is completed instead of running.
ResumeCommit(q, F) ==
  LET r == att[q].run
      items == att[q].todo \ F
  IN
  /\ pc(q) = "resumeWrite" /\ F \subseteq att[q].todo
  /\ items # {} => IndexAdmits(r, att[q].who, att[q].what)
  /\ rows' = [rows EXCEPT ![r] = Verdict(@, F, "failed")]
  /\ runs' = [runs EXCEPT ![r].status = IF items = {} THEN "completed" ELSE "running"]
  /\ IF items = {} THEN Leave(q, "release")
     ELSE Becomes(q, [att[q] EXCEPT !.pc = "start", !.todo = items])
  /\ UNCHANGED <<slot, proc, ghost>>

\* An error, a unique index or an oversized batch rolls the transaction back.
Rollback(q) ==
  /\ pc(q) \in {"txread", "txwrite", "resumeRead", "resumeWrite"} \cup Manual
  /\ EndRequest(q)
  /\ UNCHANGED <<db, slot, proc, ghost>>

\* Mutant of Release: only the goroutine frees the slot.
ReleaseStarted(q) ==
  /\ pc(q) \in {"release", "exit"}
  /\ slot' = [slot EXCEPT ![att[q].who] = IF pc(q) = "exit" THEN None ELSE @]
  /\ Becomes(q, Idle)
  /\ UNCHANGED <<db, proc, ghost>>

\* RunReservation.Release, or the goroutine's deferred release: the slot is
\* free again and the job's done channel closed.
Release(q) ==
  /\ pc(q) \in {"release", "exit"}
  /\ slot' = [slot EXCEPT ![att[q].who] = IF @ = q THEN None ELSE @]
  /\ Becomes(q, Idle)
  /\ UNCHANGED <<db, proc, ghost>>

\* MarkSent: a person ticks off a queued row.
MarkSent(r, c) ==
  /\ phase # "down" /\ rows[r][c] = "queued"
  /\ rows' = [rows EXCEPT ![r] = Verdict(@, {c}, "sent")]
  /\ UNCHANGED <<runs, slot, att, proc, ghost>>

-----------------------------------------------------------------------------
\* The run goroutine.

Cancelled == phase # "up"

\* RunReservation.Start: launched even during shutdown.
Start(q) ==
  /\ pc(q) = "start"
  /\ Goto(q, "head")
  /\ UNCHANGED <<db, slot, proc, ghost>>

\* The run is about to end with status s: at once, or after the sweep of its
\* queued rows when it expired or its grant was revoked.
EndWith(q, s, p) ==
  Becomes(q, [att[q] EXCEPT !.pc = p, !.ending = s, !.cur = None, !.reply = None])

\* The loop turns to the next item.
Carry(q, n) == Becomes(q, [att[q] EXCEPT !.pc = "head", !.streak = n, !.cur = None, !.reply = None])

\* The loop ran out of items: completed, cancelled or not.
Exhausted(q) ==
  /\ pc(q) = "head" /\ att[q].todo = {}
  /\ EndWith(q, "completed", "finish")
  /\ UNCHANGED <<db, slot, proc, ghost>>

\* Before the next item: the shutdown ends the goroutine and it writes nothing.
CutShort(q) ==
  /\ pc(q) = "head" /\ att[q].todo # {} /\ Cancelled
  /\ Leave(q, "exit")
  /\ UNCHANGED <<db, slot, proc, ghost>>

\* The per-item probe says the grant is gone: revokeRun.
Revoked(q) ==
  /\ pc(q) = "head" /\ att[q].todo # {} /\ ~Cancelled
  /\ <<att[q].who, att[q].what>> \in Probed
  /\ EndWith(q, "interrupted", "sweep")
  /\ UNCHANGED <<db, slot, proc, ghost>>

OneMore(n) == IF n = 0 THEN 1 ELSE 2

\* A send that Zalo answers, or fails to answer; its outcome is not written yet.
SendDM(q, c, answer) ==
  /\ pc(q) = "head" /\ c \in att[q].todo /\ ~Cancelled
  /\ dms' = IF answer \in Delivered THEN [dms EXCEPT ![att[q].run][c] = OneMore(@)] ELSE dms
  /\ Becomes(q, [att[q] EXCEPT !.pc = "sent", !.todo = @ \ {c}, !.cur = c, !.reply = answer])
  /\ UNCHANGED <<db, slot, proc, lost>>

\* The rows of the attempts in Q whose message has arrived and whose record is
\* being lost.
Unrecorded(Q) == {<<att[q].run, att[q].cur>> : q \in {p \in Q : att[p].reply \in Delivered}}
Lose(q) == lost' = lost \cup Unrecorded({q})

\* The send was aborted by the shutdown: no write, the row stays queued.
Aborted(q) ==
  /\ pc(q) = "sent" /\ att[q].reply # "ok" /\ Cancelled
  /\ Lose(q)
  /\ Leave(q, "exit")
  /\ UNCHANGED <<db, slot, proc, dms>>

\* Mutant of Expired: the goroutine ends without expireRun.
ExpiredUnfinished(q) ==
  /\ pc(q) = "sent" /\ att[q].reply = "expired" /\ ~Cancelled
  /\ Leave(q, "exit")
  /\ UNCHANGED <<db, slot, proc, ghost>>

\* The Zalo session is dead: expireRun.
Expired(q) ==
  /\ pc(q) = "sent" /\ att[q].reply = "expired" /\ ~Cancelled
  /\ EndWith(q, "expired", "sweep")
  /\ UNCHANGED <<db, slot, proc, ghost>>

\* markOutcome, on a context that survives the cancellation; a failed write is
\* only logged.
MarkOutcome(q, verdict) ==
  \/ /\ rows' = [rows EXCEPT ![att[q].run] = Verdict(@, {att[q].cur}, verdict)]
     /\ UNCHANGED lost
  \/ /\ WriteFaults
     /\ Lose(q)
     /\ UNCHANGED rows

RecordSent(q) ==
  /\ pc(q) = "sent" /\ att[q].reply = "ok"
  /\ MarkOutcome(q, "sent")
  /\ Carry(q, 0)
  /\ UNCHANGED <<runs, slot, proc, dms>>

\* A failed send is recorded; the breaker trips on Breaker of them in a row.
RecordFailed(q) ==
  /\ pc(q) = "sent" /\ att[q].reply \in {"error", "noAnswer"} /\ ~Cancelled
  /\ MarkOutcome(q, "failed")
  /\ IF att[q].streak + 1 >= Breaker THEN EndWith(q, "interrupted", "finish")
     ELSE Carry(q, att[q].streak + 1)
  /\ UNCHANGED <<runs, slot, proc, dms>>

\* Mutant of FailQueuedInRun: the sweep is forgotten.
FinishUnswept(q) ==
  /\ pc(q) = "sweep"
  /\ Goto(q, "finish")
  /\ UNCHANGED <<db, slot, proc, ghost>>

\* FailQueuedInRun, the first write of expireRun and revokeRun.
FailQueuedInRun(q) ==
  /\ pc(q) = "sweep"
  /\ \/ rows' = [rows EXCEPT ![att[q].run] = FailQueued(@)]
     \/ WriteFaults /\ UNCHANGED rows
  /\ Goto(q, "finish")
  /\ UNCHANGED <<runs, slot, proc, ghost>>

\* UpdateRunStatus, the last write of every ending.
FinishRun(q) ==
  /\ pc(q) = "finish"
  /\ \/ runs' = [runs EXCEPT ![att[q].run].status = att[q].ending]
     \/ WriteFaults /\ UNCHANGED runs
  /\ Leave(q, "exit")
  /\ UNCHANGED <<rows, slot, proc, ghost>>

-----------------------------------------------------------------------------
\* The process: RunManager.Close, exit, crash and boot.

\* baseCancel: every context of a run is cancelled, Reserve still answers.
CancelAll ==
  /\ phase = "up" /\ restarts < MaxRestarts
  /\ phase' = "cancelled"
  /\ UNCHANGED <<db, slot, att, restarts, ghost>>

\* Under the mutex: closed, and the jobs to wait for are the ones active now.
CloseManager ==
  /\ phase = "cancelled"
  /\ phase' = "closing"
  /\ UNCHANGED <<db, slot, att, restarts, ghost>>

\* Mutant of CloseReturns: Close does not wait for the active jobs.
CloseReturnsAtOnce ==
  /\ phase = "closing"
  /\ phase' = "closed"
  /\ UNCHANGED <<db, slot, att, restarts, ghost>>

\* Every job waited for is done: Close returns.
CloseReturns ==
  /\ phase = "closing" /\ \A t \in Teachers : slot[t] = None
  /\ phase' = "closed"
  /\ UNCHANGED <<db, slot, att, restarts, ghost>>

\* Memory is gone; a message in flight leaves no record.
Die ==
  /\ restarts < MaxRestarts
  /\ phase' = "down" /\ restarts' = restarts + 1
  /\ slot' = [t \in Teachers |-> None]
  /\ att' = [q \in Attempts |-> Idle]
  /\ lost' = lost \cup Unrecorded(Attempts)
  /\ UNCHANGED <<db, dms>>

Exit  == phase = "closed" /\ Die
Crash == Crashes /\ phase # "down" /\ Die

\* Mutant of Boot: the previous process's runs are not reconciled.
BootUnreconciled ==
  /\ phase = "down"
  /\ phase' = "up"
  /\ UNCHANGED <<db, slot, att, restarts, ghost>>

\* ReconcileInterrupted, before the next process serves requests.
Boot ==
  /\ phase = "down"
  /\ runs' = [r \in RunIds |-> IF runs[r].status = "running"
                               THEN [runs[r] EXCEPT !.status = "interrupted"] ELSE runs[r]]
  /\ phase' = "up"
  /\ UNCHANGED <<rows, slot, att, restarts, ghost>>

-----------------------------------------------------------------------------
Handler(q) ==
  \/ Admit(q) \/ Reserve(q) \/ Refuse(q)
  \/ BulkRead(q) \/ BulkCommitManual(q)
  \/ \E r \in RunIds, S \in SUBSET Contacts : BulkCommit(q, r, S)
  \/ ResumeRead(q) \/ \E F \in SUBSET Contacts : ResumeCommit(q, F)
  \/ Rollback(q) \/ Release(q) \/ Start(q)

Goroutine(q) ==
  \/ Exhausted(q) \/ CutShort(q) \/ Revoked(q)
  \/ \E c \in Contacts, answer \in Answers : SendDM(q, c, answer)
  \/ Aborted(q) \/ Expired(q) \/ RecordSent(q) \/ RecordFailed(q)
  \/ FailQueuedInRun(q) \/ FinishRun(q)

Next ==
  \/ \E q \in Attempts, t \in Teachers, d \in Dims :
       BulkSend(q, t, d) \/ ManualSend(q, t, d) \/ ResumeRun(q, t, d)
  \/ \E q \in Attempts : Handler(q) \/ Goroutine(q)
  \/ \E r \in RunIds, c \in Contacts : MarkSent(r, c)
  \/ CancelAll \/ CloseManager \/ CloseReturns \/ Exit \/ Crash \/ Boot

Spec == Init /\ [][Next]_vars

\* Requests and goroutines take their next step (database calls and SendDM
\* return, timers fire), Close runs on once begun, and the supervisor starts
\* the next process.  Nobody has to send, resume, tick off, shut down or crash.
Fairness ==
  /\ \A q \in Attempts : WF_vars(Handler(q)) /\ WF_vars(Goroutine(q))
  /\ WF_vars(CloseManager) /\ WF_vars(CloseReturns) /\ WF_vars(Exit) /\ WF_vars(Boot)

FairSpec == Spec /\ Fairness
-----------------------------------------------------------------------------
\* Properties.

\* At no time do two attempts send for one teacher, or over one dimension: the
\* slot map and the two partial unique indexes together keep a Zalo account to
\* one paced pass and parents from two concurrent ones, whatever the requests
\* read before they committed.
OneSender ==
  \A p, q \in Attempts :
    p # q /\ pc(p) \in Sending /\ pc(q) \in Sending => att[p].who # att[q].who /\ att[p].what # att[q].what

\* While the process serves, a run is "running" only while one of its attempts
\* is sending it: the premise of ReconcileInterrupted and of every 409.
RunningHasSender ==
  phase = "up" =>
    \A r \in RunIds : runs[r].status = "running" =>
      \E q \in Attempts : pc(q) \in Sending /\ att[q].run = r

\* A contact gets the message of a row twice only after an outcome was lost:
\* a crash or a shutdown during the send, or a failed outcome write.  Resumes,
\* superseding sends and failed sends never repeat a message by themselves.
AtMostOnceUnlessLost ==
  \A r \in RunIds, c \in Contacts : dms[r][c] > 1 => <<r, c>> \in lost

\* A completed or expired run has no queued row left: its every recipient has a
\* verdict, so refusing to resume it strands nobody.
SettledHasNothingQueued ==
  \A r \in RunIds : runs[r].status \in Settled => Queued(r) = {}

\* A verdict is final: no write of a run, a sweep or a person overwrites it.
VerdictIsFinal ==
  [][\A r \in RunIds, c \in Contacts :
       rows[r][c] \in {"sent", "failed"} => rows'[r][c] = rows[r][c]]_rows

\* Once Close has returned nothing of this process messages anyone or writes a
\* run: the zalo service and the database pool may go away.
QuietAfterClose == [][phase = "closed" => UNCHANGED <<runs, dms>>]_vars

\* Close never waits forever: each active job ends, pending reservations too.
CloseTerminates == phase = "cancelled" ~> phase \in {"closed", "down"}

\* Every run leaves "running", through its goroutine or the next boot.
RunsSettle == \A r \in RunIds : runs[r].status = "running" ~> runs[r].status # "running"
=============================================================================
