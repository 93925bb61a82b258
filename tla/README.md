# Verification of teka

teka is the backend and web client of a tutoring-centre manager: a Go API
(`src/apps/api`) over PostgreSQL, with a React client (`src/apps/web`). This
directory holds TLA+ models of the parts of it whose correctness depends on the
order in which things happen, the TLC configurations that check them on small
instances, and TLAPS proofs about them for every value of their constants.

Paths below are relative to `src/apps/api/internal/` unless they start with
`src/`; `x/y.go` without `features/` is in `features/x`.

## Running

    tlc -workers 2 -config Staffing.cfg MCStaffing.tla
    tlapm StaffingProofs.tla

`PROJECT.json` lists every run with its module, configuration and expected
outcome, maps every definition of a model to the lines it translates, and lists
the hazards of the code with the properties that cover them.

## The system

The API is one process over one database. HTTP handlers call a feature's
service, a service calls its repository, and writes that belong together run in
`TxManager.Within` (`database/tx_manager.go`), a PostgreSQL transaction at the
default level, READ COMMITTED. Some work outlives its request: goroutines that
send messages, that wait for a QR code to be scanned, that probe sessions and
that store audit rows. Shutdown (`app/app.go`, `app/container.go`) has to end all
of it in the right order.

| Component | State | Operations | Interacts with | What is hard | What makes it correct |
|---|---|---|---|---|---|
| Notification runs (`features/notifications`) | tables `notification_runs` and `notifications`; `RunManager.active`, `closed`, one goroutine per run | BulkSend, ResumeRun, MarkSent, ReconcileInterrupted, Reserve / Start / Release, Close | sends through the Zalo service, reads statements, reconciled at boot, closed by the container | concurrent sends and resumes; crash or shutdown in the middle of a send; answers that never come; failed outcome writes | one sender per account and per class or family of a period; no repeated message without a lost record; final verdicts; every run leaves `running` |
| Zalo link and sessions (`features/zalo`) | table `zalo_accounts`; `LinkManager.active`, `live`; `SessionCache.sessions`, `evictions`; the health probe | Begin, the QR goroutine, Cancel, Unlink, sessionFor, VerifyAccount, expire, probe sweep, Close | used by notification runs and by the teacher's own requests | slow calls to Zalo between a check and the write that relies on it | an Unlink is final; late scans are dropped; nothing writes after Close |
| Event bus (`shared/events`) | subscribers with bounded queues, `closed`, `done` | Subscribe, Publish, worker, Close | middleware publishes, audit subscribes | publish against close, full queues, hung handlers | no send on a closed channel, no blocking publish, a drain that is complete |
| Audit pipeline (`features/audit`, `app`, `server`) | `Subscriber.buf`, three flushing goroutines, `audit_logs` | Handle, flush, flushLoop, Close, `Container.Close` | fed by the bus, writes to the pool | three flushers, shutdown order, timeouts | at most one row per event, nothing lost after a drain in time |
| Payments (`features/payments`) | payments, allocations, paid totals of invoices | Record, Reallocate, Reverse, AutoAllocateRemainder | the invoices of billing, under their row locks | concurrent allocation to the same invoices; corrections without those locks | paid_amount is what is allocated; nothing is given out twice; nobody deadlocks |
| Billing (`features/billing`) | periods, invoices, lines, adjustments | Ensure, Draft, Close, AddAdjustment, ReconcileSession, VoidInvoice | confirmations of attendance start a reconcile; payments change paid totals | a status read before the transaction that relies on it; a month that changes after it was billed | an issued invoice stays; what changed later is carried once and in full |
| Sessions and attendance | lesson status, confirmations, records | Cancel, Uncancel, Hold, Delete, Confirm | Confirm triggers billing's reconcile | a cancel against a confirm; a reconcile that fails after the commit | what counts is what is billed |
| Library (`features/library`) | templates, versions, lessons, material links, materials | CreateVersion, Publish, Archive, DeleteTemplate, the lesson writes, DeleteMaterial | classes apply its versions | a release during an edit, a delete during a link | a released version stays as it was; no live link dangles |
| Class programmes, curriculum, scores (`classprogram`, `teaching`, `grading`) | `class_programs`, the curriculum, score components and scores | Apply, Remove, PutCurriculum, PutSessionScores | Apply reads the library and writes the other two | one transaction over three features, each with its own lock | no score lost, nothing overwritten unasked |
| Kanban board (`src/apps/api/pkg/kanban`, `features/tasks`) | columns and tasks with float positions | create, move, update, delete, restore | the web board moves optimistically | checks before transactions, midpoints running out | the cap holds; moves land apart and are kept by renormalisation |
| Centres and invitations (`centers`, `invitations`) | accounts, memberships, `teachers.center_id`, invitations | Create, Revoke, Accept (three outcomes), RemoveMember | removal closes offers and stints of the member | acceptance against revocation and removal | an account lives in one place; an invitation ends once; a removed member holds nothing |
| Class invitations, staff, handoff (`classinvites`, `classstaff`, `handoff`) | class invitations, stints, `classes.teacher_id` | Send, Accept, Decline, Cancel, Confirm, Assign, Remove, Reassign | Confirm assigns or hands off; imports take the same centre lock | two tables that name the class's teacher | the primary stint is that of the teacher the class names |
| Authentication (`features/auth`) | refresh tokens in families | Login, Refresh, Logout, ResetPassword | every request | replays against lost answers | not modelled |
| Classes, enrolments, imports, statements, chat, collections, contacts, students, courses | one table each, mostly | validated single-row writes | each other by foreign key | little: uniqueness and permissions | rows stay consistent with their parents |
| Rate limiter (`middleware/ratelimit.go`) | a map of fixed windows under one mutex | allow, sweep | login and reset routes | nothing across steps | a client's window is counted under the lock |
| Server, router, middleware, config, CLI, seeds, web client | little or none | | | | |

## Modules

| Module | Models | Uses |
|---|---|---|
| `NotificationRuns` | the notification service, its repository and the RunManager | |
| `EventBus` | `shared/events/async_bus.go` | |
| `AuditTrail` | abstract: what the audit pipeline promises | |
| `AuditPipeline` | request events, bus, audit subscriber and the exit path of `RunServer` | extends `EventBus`; implements `AuditTrail` |
| `ZaloLink` | LinkManager, SessionCache, the Zalo service and repository | |
| `Ledger` | payments on the invoices of one contact, and the corrections of issued invoices | |
| `Billing` | the close of a month, the lessons in it, and what later changes carry | |
| `Library` | a template with its versions, lessons and materials | |
| `ClassProgram` | a class that applies a version, with its curriculum and scores | extends `Library` |
| `Board` | the kanban board | |
| `Staffing` | memberships, both kinds of invitations, stints and handoff | |
| `...Proofs` | theorems about the module they are named after; `AuditPipelineProofs` also about `EventBus` | that module and `TLAPS` |
| `MC...` | model values and symmetry for TLC | the module they are named after |

`AuditPipeline` composes the bus with its one subscriber, `ClassProgram` the
library with three class features, `Staffing` five features that share the
membership of a person, `Billing` sessions and attendance with the invoices they
are charged on, `Ledger` payments with billing's corrections.

A definition named `Mutant of X` in its comment is a plausible bug of `X`; it is
used by no specification. Replacing `X` by it breaks the property named with it
in `PROJECT.json`, so no property holds for want of something to go wrong.

### How transactions, locks and goroutines become actions

A request is one action per database access that something else may come between.
At READ COMMITTED a transaction that reads and then writes is an action for what it
read and one for its commit; its writes appear together. A row lock is not a
variable: it is held by whoever is at a step between taking and releasing it, so a
guard such as `InvoiceFree` asks where the other requests are. A statement that
waits for a row and then looks at it again (`FOR UPDATE`, an `UPDATE ... WHERE`)
reads the current row, its other tables the snapshot of before. A partial unique
index is a guard on the commit. A goroutine is one action per lock section, channel
operation, database write or call to Zalo.

Requests are drawn from a set `Calls` (or `Attempts`, `Users`, `Unlinkers`); each
is used once, so the size of that set bounds how many requests overlap and, in a
run, how many there are.

## NotificationRuns

A process of the model is an *attempt*: one request (BulkSend or ResumeRun) and,
once it has committed, the goroutine that sends its run. `att[q].pc` says where it
is; the rest of the record holds the locals of `run_manager.go`.

| State | Code |
|---|---|
| `runs` | `notification_runs` (status, sender, what it covers), in order of creation |
| `rows` | `notifications.status` by run and contact |
| `slot` | `RunManager.active` |
| `phase` | the process: `up`, `cancelled` (Close has cancelled the base context), `closing` (the job list is taken), `closed`, `down` |
| `dms`, `lost` | history: messages delivered (2 stands for more), and rows whose outcome may have been lost |

`BulkSend`, `Admit`, `Reserve`, `BulkRead`, `BulkCommit`, `Start` are the steps of
`Service.BulkSend` on the Zalo channel; `ManualSend` and `BulkCommitManual` those of
the copy-and-paste channel, which takes no slot; `ResumeRun`, `ResumeRead`,
`ResumeCommit` those of `Service.ResumeRun`; `Rollback` and `Release` every failing
way out; `SendDM`, `RecordSent`, `RecordFailed`, `Expired`, `Aborted`, `Exhausted`,
`CutShort`, `Revoked`, `FailQueuedInRun` and `FinishRun` the loop of
`RunManager.run`; `CancelAll`, `CloseManager`, `CloseReturns` its `Close`; `MarkSent`
the tick by hand; `Boot` is `ReconcileInterrupted`. `Crash` may come at any point.

A dimension stands for what one run covers, a period with a family or a class, the
keys of the unique indexes. SendDM has four answers: `ok`, an error, a lapsed
session, and `noAnswer`, an error for a message Zalo did take. The pacing delay is
not modelled; every point at which a cancelled context is noticed is. What a
statement says, and whether it can be rendered, is left out; a run has the contacts
that were mapped, at most `MaxRunSize`.

| Run | Instance | Shows |
|---|---|---|
| contention (2,112,818 states) | 2 teachers, one a delegate whose grant is checked per item; 1 dimension, 1 contact, 2 runs, 2 attempts; any write may fail | `OneSender`, `VerdictIsFinal` |
| lifecycle (227,374) | 1 teacher, 1 run of 2 contacts, 2 attempts, 2 process ends by shutdown or crash; no failing writes; fair | `RunningHasSender`, `SettledHasNothingQueued`, `AtMostOnceUnlessLost`, `QuietAfterClose`, `CloseTerminates`, `RunsSettle` |

Why the bounds are enough: two attempts are what every race in the code is
between (a slot or an index separates any pair); two contacts let the breaker
trip, a run be cut short with one row settled and one queued, and a sweep fail a
row that another statement ticks; two runs let one supersede or hide another; two
process ends let a resumed run be interrupted again.

## EventBus, AuditTrail, AuditPipeline

In `EventBus` every publish is a goroutine of its own. A publisher at `sending`
holds the read lock; Subscribe and the locked part of Close need no publisher to
hold it. `Offer` is one turn of the loop over the subscribers with its
`select`/`default`. A subscriber has a queue, a worker (`none`, `waiting`,
`handling`, `exited`) and the event in its handler's hand. `Stuck` names the
subscribers whose handler may never return.

`AuditPipeline` runs the bus with one subscriber, audit, and one closer, `main`
(`Wired` says so of the constants; every action that is the bus's is the action of
`EventBus` with what the pipeline adds). Its `flushing` and `batch` are the locals of `Subscriber.flush` in
the three goroutines that call it: the bus's worker (a full buffer), the flush
loop (a tick, or its last flush) and main (`Subscriber.Close`). `serving` holds the
requests the server has taken: `server.Run` returns after its shutdown timeout even
if some are still running, so a request may publish after the bus is closed.
`main` walks `Container.Close`: `closeBus`, `draining`, `closeAudit`, `joining`,
`closeBuffer`, `flushing`, `closeDB`, `closed`. A failing INSERT may or may not have
stored its batch; a handler may panic, which the worker recovers.

`AuditTrail` is the promise of the comment in `subscriber.go`, at most once end to
end: a published event is pending until it is stored once or lost. The refinement
maps `pending` to wherever an event can be on its way: offered, queued, in a
handler, in the buffer or in a batch.

| Run | Instance | Shows |
|---|---|---|
| bus | 3 publishers, 2 subscribers, one of them hanging, 2 closers, queues of 1; fair | `NoSendOnClosed`, `DrainMeansHandled`, `WorkersLeave`, `PublishNeverBlocks` |
| pipeline (89,020) | 3 events, one of them ignored, queue of 1, batch of 2, failures; fair | `DrainedIsStored`, `ImplementsTrail`, `ShutdownEnds` |

Why the bounds are enough: three events overflow a queue of one behind one in the
handler; two subscribers let one block while the other works and let Close shut
several channels; two events fill a batch while a third, or a first one alone,
leaves a rest for a second flusher. The pipeline assumes one subscriber, as the
program has.

## ZaloLink

Everything in `features/zalo` is keyed by teacher, so the model has one teacher,
several link attempts (calls of Begin, each with its goroutine), several users of
the session and several calls of Unlink. An attempt stands for the login it
results in: `account.cred` and `cache` name the attempt whose credentials they hold.
The account may have been stored, and given up on, by an attempt of an earlier
process (`Earlier`).

| State | Code |
|---|---|
| `account` | the live `zalo_accounts` row: credentials and status |
| `cache`, `evictions` | `SessionCache` |
| `active`, `live`, `ended`, `attempt`, `shown` | `LinkManager.active`, `live`, the attempts' contexts, goroutines and records |
| `unlinker`, `user` | calls of Unlink, and of sessionFor by a send, a verification or the probe |
| `closing`, `awaited` | where Close is and the attempts it waits for |
| `revoked`, `late` | history: attempts begun before an Unlink that returned; attempts whose scan came after they were replaced |

The progress states of a QR code (ready, scanned, confirmed) are one state,
`pending`: they change nothing but what is shown. Any failing relogin counts as a
rejection. With `Faults` a database write may fail, and a write that failed may
still have been stored. A user is a send (friend lists and friend requests use a
session in the same way), a verification or the probe's.

| Run | Instance | Shows |
|---|---|---|
| zalo_safety (2,899,806) | 2 attempts and one of an earlier process, 1 user, 1 Unlink, Close | `UnlinkSticks`, `LateScanIsDropped`, `QuietAfterClose` |
| zalo_progress (83,901) | 2 attempts, 1 Unlink, failing writes; fair | `UnlinkReturns`, `AttemptIsReported` |

Why the bounds are enough: every check compares an attempt with *the* current one,
so two attempts make a replaced and a replacing one; a restore races with at most
one eviction and one link at a time.

## Ledger

| State | Code |
|---|---|
| `invoice` | `invoices`: status, opening_balance, current_charge, adjustment_total, paid_amount |
| `posted` | `invoice_adjustments`: the sum of the rows of an invoice |
| `payment`, `split` | `payments` and `payment_allocations`; a request that creates a payment gives it its name |
| `call` | the requests: operation, progress, the invoices they have locked and still want |

`Record`, `Reallocate`, `Reverse` and `AutoAllocateRemainder` are the first part of
the four payment operations, up to the first lock; `LockNext` takes the invoices one
by one, in id order; the `Commit...` actions are all the rest, which the locks make
one step. `Allocate` is `allocator.go`: every carried balance before any current
charge, the oldest first, each `Pass` a recursion over the invoices it has to look at; `RecalcInvoicePaid` and `RecalcInvoiceTotals` are the two
queries that recompute an invoice. `AddAdjustment` judges the invoice before its
transaction, then inserts (waiting for, and sharing, the row lock), sums and
updates in three steps, as its statements do. `VoidInvoice` is a judgement and a
guarded UPDATE.

| Run | Instance | Shows |
|---|---|---|
| ledger (148,466) | 4 requests, 2 invoices whose locks and allocations go in opposite orders, one of them still a draft; amounts 1 and 3, adjustments -1 and 1 | `PaidIsAllocated`, `ReversedExactly`, `StatusTellsMoney`, `NoDeadlock`, `NeverOverpays`, `CarriedFirst` |

Why the bounds are enough: four requests make a payment, a change of it, its reversal
and a second payment or a correction; two invoices are what a lock order takes; one
amount fits a part of a bill and the other is more than both bills.

## Billing

One student in one class with one price, over three months: the one that is closed
(1), the next one and the one after. A lesson counts when it was held, is confirmed
and has the student's attendance record. Amounts are numbers of lessons.

| State | Code |
|---|---|
| `lesson` | the sessions of month 1 with the student's record on them |
| `enrolled` | whether the student is on the roster on the day of a lesson |
| `period`, `invoice` | `billing_periods.status`; the student's invoice of a month, `line` for whether it has a line of the class |
| `carried` | `invoice_adjustments` that ReconcileSession put on an invoice |
| `call` | the requests |
| `missed` | history: why what a closed month comes to has changed with no reconciliation since |

`Cancel`, `Uncancel`, `Hold`, `Delete` and `Confirm` judge the session as they read it;
`UpdateStatus`, `SoftDelete` and `MarkHeldAndConfirmed` write without looking again.
`Reconcile`, `LockInvoice`, `ResolveDelta` and `PostAdjustment` are the steps of
`ReconcileSession`, any of which may fail (`ReconcileFails`: the caller only logs it).
`Draft` and `Close` share `ComputePeriod` and `CheckDraft`; `CommitDraft` and
`CommitClose` are what they write.

| Run | Instance | Shows |
|---|---|---|
| billing (407,352) | 3 requests around the close of months 1 and 2, 2 lessons, one of them past, a debt | `CarriedInFull`, `IssuedIsFinal` |
| removal | 2 requests | the violation of `RemovalIsCarried`, see *Disagreements* |

`missed` carries the reasons the code itself leaves to the next reconciliation: a
schedule change of a confirmed session, a reconcile that failed, a confirmation that
took the student off, an attendance written between a close's tally and its commit, and
a lesson a reconcile leaves out because the student has left the class and the invoice,
issued for a carried debt, has no line of it (`adjustment.go:343`).
`CarriedInFull` says that apart from these the bill and what was carried always add
up, and that a reconciliation that looks at the student clears all of them. The
student owes from before (`Debt`), so month 1 is billed even without a lesson. In the
run `billing` month 2 may be closed too, while a carried amount is posted to it; that
the amount may then miss its bill is one of the disagreements below. Two reconciliations
of one student and a close or a draft are the most that touch one bill; two lessons
make a delta of either sign on top of one already carried.

## Library and ClassProgram

| State | Code |
|---|---|
| `template`, `version` | `program_templates`; `program_template_versions`: status, and one value for log fields, score set and exercise groups |
| `lesson` | `template_lessons`: version, position, text, links to materials |
| `deleted` | `library_materials`, the soft-deleted |
| `program`, `curriculum`, `grades` | `class_programs`, `class_curriculums` and the score components with the scores recorded under them, of one class |
| `call` | the requests |

`LockVersion` and the commits `CreateLesson`, `UpdateLesson`, `DeleteLesson`,
`ReorderLessons`, `DuplicateLesson`, `ClearLessons`, `SetExtras` and
`ReplaceLessonMaterials` are `lessonWrite` and what runs inside it; `CreateVersion` and
`CopyVersionContent` the two halves of a new version; `Publish`, `Archive`,
`DeleteTemplate` and `DeleteMaterial` single guarded statements. `Apply`,
`LockCurriculum`, `UpsertProgram`, `LockClassForScoring` and `CommitApply` are the one
transaction of `classprogram.Service.Apply` with every lock it waits for; `ApplyFails`
rolls all of it back at any step.

| Run | Instance | Shows |
|---|---|---|
| program (207,485) | 3 requests, 2 versions, 4 lesson ids, 1 material | `LinkedIsLive`, `AppliedTemplateLives`, `ReleasedIsFrozen`, `ScoresSurvive`, `OverwritesOnlyConfirmed` |

Why the bounds are enough: a lock of one request separates it from one other, and a
third changes what the second relies on; two versions make a release and the draft
copied from it; four lessons a copy of two.

## Board

A position is a float of which only the order and the halving of a gap matter. Here it
counts units, `One` of them to a whole step, and a gap that cannot be halved into whole
units is below `minPositionGap`. Only MoveTask takes the column's advisory lock
(`ListColumnPositions`, `CommitMove`); the others read (`CreateColumn`, `DeleteColumn`,
`CreateTask`, `UpdateTask`) and write later (`InsertColumn`, `RemoveColumn`, `InsertTask`,
`WriteTask`), `InsertColumn` with a second count under the centre's lock. `placed` marks
a task whose place a move gave it; `intruded` the columns that a write outside the lock
changed while a move held it.

| Run | Instance | Shows |
|---|---|---|
| board | 3 requests, 3 column ids with a cap of 2, 3 tasks, two of them half a step apart | `ColumnCap`, `PlacedApart`, `OrderSurvives` |

Why the bounds are enough: two tasks and the one moved between them are what a
midpoint is of; with `One = 2` the first halving already leaves a gap that the next move
must renormalise; three requests are two moves and a write outside the lock.

## Staffing

| State | Code |
|---|---|
| `account`, `home`, `member` | `user_accounts.status`, `teachers.center_id`, `center_members` |
| `invite` | `invitations`; `lapsed` is a pending one past its expiry |
| `teacher`, `offer`, `stint` | `classes.teacher_id`, `class_invitations`, the active rows of `class_staff` |
| `call` | the requests, with the rows their transactions have locked |
| `raced` | history: persons written to a class while they were not, or were ceasing to be, members |
| `overtaken` | history: classes whose last handoff relied on what was no longer so |

`Create`, `Expire`, `Revoke`, `Accept`, `FindByPhone`, `CreateInCenter`, `Reactivate` are
the life of an invitation into a centre, a new account, a reactivated one or a refusal;
`RemoveMember`, `CancelOpenForMember`, `CancelsOpen`, `CloseMembership`, `Disable` the one
transaction of a removal, whose two UPDATEs choose their rows when they begin and re-check
them once they have got the locks; `Send`, `Answer`, `Transition`, `Confirm`, `ConfirmTransition` that of an
invitation to a class; `Assign`, `AssignInserts`, `Remove` the staff endpoints; `Reassign`,
`TryLockCenter`, `SyncCloses`, `SyncInserts`, `Commits` the handoff and
`SyncPrimaryTeacher`. A Confirm does what an Assign or a Reassign does inside its own
transaction (`ConfirmAssigns`, `ConfirmReassigns`).

| Run | Instance | Shows |
|---|---|---|
| staffing (1,727,692) | 3 requests; a teacher, a member and an outsider (new, or an earlier member of every centre); 2 centres, 1 class, 2 invitations into a centre, 2 to the class, one of them accepted by the member at the start | `OneLivePlace`, `VerdictsAreFinal`, `RemovedHoldsNothing`, `PrimaryIsTeacher` |

Why the bounds are enough: two invitations into two centres are a person invited
twice; every hazard here is between two requests, and the third prepares what they
race for. One invitation to the class is open at the start so that a removal, a Confirm
that holds it and a Send of the other overlap. `raced` and `overtaken` name the interleavings that the code does not
exclude (see *Disagreements*); the properties say that these are the only ones.

## Fairness

* Weak fairness of each request, goroutine and worker: Go schedules a runnable
  goroutine, and every wait in it has a deadline or a partner that comes.
  Database statements end (contexts carry `flushTimeout`, `persistTimeout`,
  `unlinkTimeout`, or the request's deadline), and so do calls to Zalo (the
  protocol client has a timeout; a QR login ends by the link deadline).
* Strong fairness of `LoopStops` only: `flushLoop` selects between a tick and
  `stop`; with both ready Go picks at random, so stop is taken in the end though a
  tick may disable it for a while.
* Weak fairness of Close once begun and of the next boot in the `lifecycle` run:
  the process supervisor restarts it.
* None on what a person does: sending, resuming, ticking off, unlinking, shutting
  down; none on crashes. None on handlers in `Stuck`.
* None in `Ledger`, `Billing`, `ClassProgram`, `Board` and `Staffing`. Their requests may stop
  at any step, which is what a request that fails before its commit does to everybody
  else, and nothing there promises that something happens later. What takes the
  place of progress in `Ledger` is `NoDeadlock`.

## Proofs

All theorems hold for every value of the constants under the named assumptions
beside them, which say no more than that bounds are numbers, sets that are counted or
summed over finite, switches Booleans and null values different from real ones, and
what the initial state of an instance has to satisfy. Each theorem is proved from an
inductive invariant, since almost none of the properties is inductive as it stands.

`NotificationRunsProofs`
* `TypeCorrect` needs `Sound`: what an attempt's locals hold at each step.
* `OneSenderAlways`: `Held` (an attempt past Reserve owns its sender's slot),
  `OwnRun` (the run it resumes or sends is its sender's and covers what it says),
  `Indexed` (the unique indexes hold, and an attempt that sends has a running run)
  and `DownIdle`. That two senders differ follows from the slots, and that their
  dimensions differ from the indexes, which speak of runs.
* `AtMostOnce`: `Accounted` (a delivered message is in a row that is no longer
  queued, in flight, or lost), `Fresh` (a run's items in memory were not delivered
  before, unless lost) and `Blank` (a run that does not exist has no rows). A
  resume reads the queued rows, so it is what is known of queued rows that counts.
* `VerdictsAreFinal` from the lemma that every step only settles queued rows.
* `QuietOnceClosed`: `Vacant`, no slot is held once Close has returned.
* `RunsHaveSenders` and `SettledRunsAreDone`, for writes that do not fail (`WriteFaults =
  FALSE`): a run leaves `running` with the step of the attempt that owns it, or with the
  start of the process; `Covered`, what an attempt has left to send includes every row of
  its run that is still queued, so when it completes the run there is none.

`AuditPipelineProofs`, on the bus for any subscribers and closers
* `BusTypeCorrect`, `NeverSendsOnClosed`, `DrainIsComplete`: `Locked` (a publisher
  with the lock keeps the bus open), `Shut` (the closed channels are all of them or
  none), `Working` (where a worker is tells what its queue and hand hold), `Draining`
  (`done` means every worker left) and `Conserved`: what a queue took is what was
  handled, what is in hand and what is queued, in this order.

and on the pipeline, for constants that are `Wired`
* `PipelineServesBus`: a step of the pipeline is one of the bus or leaves it alone, so
  what is proved of the bus holds in the pipeline.
* `PipelineTypeCorrect`, on top of `BusTypeCorrect`.
* `TrailImplemented`, the refinement: `Serving` and `Flushing` tell, by where `main` is, what
  the bus, the worker, the loop and the flushes can still do; `Apart` says that an event is
  in one place (unpublished, offered, queued, with the handler, buffered, in the batch of one
  flush), there once, and without a row until it left. Each step then publishes an event,
  stores the batch of one flush, or loses or moves events.
* `DrainedEventsStored`: `Accounted` (an event the queue took is in one of these places,
  failed or stored), and at the end of a drained shutdown the places are empty.

`ZaloLinkProofs`
* `LinkTypeCorrect`, `UnlinkIsFinal`: `Living` (`live` is the goroutines that run),
  `Waiting` (an Unlink has joined every attempt begun before it, but for those it
  still has to) and `Revoked`.
* `ClosedIsQuiet`: `Based`, an attempt begun after the base context is over never
  gets past its login.
* `LateScansAreDropped`: `Late` (a late scan is past no check) and `Sound` (what is
  stored, cached or read by a user passed its check).

`LedgerProofs`
* `PaidAmountsAddUp`: a commit recomputes every invoice whose allocations it changes; an
  invoice that no row changed for has the same function to sum.
* `LedgerTypeCorrect`, `StatusIsRight`: `MInv` adds to the invariant of the other theorems
  that an invoice which is not issued has no money on it (`Drafts`). The status then
  follows from the last of the two recomputations that looked at the invoice.
* `NobodyOverpays` and `CarriedBalancesFirst` need to know what an allocation computes:
  `Passed`, of one pass, and `Allots`, of both (nothing given to an invoice that does not
  take part, never more than it lacks, never more in all than there is, and money for a
  current charge only when every carried balance is covered).
  They rest on lemmas about the sum of a function over a finite set (`SumUnfolds`,
  `SumChanges`) and on `RecursionOnSets`: a function defined by taking elements out of a
  finite set one by one exists, by induction over the set, and so satisfies its own
  equation. That induction is done once, with sets in the place of predicates.
* `ReversalsAreExact`: `Locks` (a request's own payment has no row until it is done; the
  payment it works on is live and nobody else's, from its judgement to its commit).
* `NoCircleOfWaits`: `Ordered` (the invoices a request still wants come after those it
  has), so among requests that wait for each other the one that holds the largest
  locked invoice waits for nobody. That a finite set of numbers has a largest member is
  proved from the well-foundedness of strict inclusion.

`BillingProofs`
* `BillsAreWhole`: `Accounted`, if the month is billed, nothing was missed and no
  reconciliation has still to look at the student, then the one that holds the invoice is
  about to post exactly what the bill lacks, or nobody does and the bill is whole. It needs
  `OneHolder` (the lock on the closed invoice), `Before` (nothing is carried until the month
  is closed) and `Closing` (a close has the period's row). The number of lessons that count
  is never computed: a change of one lesson that leaves it the same leaves that lesson
  counting or not counting as before. No assumption on which months are closed.
* `InvoicesAreFinal` and `BillingTypeCorrect` from the same invariant; the first needs no
  more of it than what a request works on.

`ClassProgramProofs`
* `NoDanglingLink`, `ReleasesAreFrozen`: `Drafting` (a content write has a draft, alone, and
  what it attaches is not deleted).
* `AppliedProgramsLive`, `ScoresOutliveApply`, `OnlyConfirmedOverwrites`: `Applying` (while a
  class applies a version the template is live and the version released, and the scores and
  the curriculum it has locked are as it read them).
* `ReleasesAreFrozen` rests on `Kept`, a fact about every step: the lessons of a released
  version are the same ones with the same fields. The order of positions, through which
  `Titles` reads them, is never computed.
* `ProgramTypeCorrect` computes what it needs of that order: the lessons of a version have distinct positions after
  every write (`RenumberKeeps`: the number of lessons before one grows with its position;
  a new lesson goes above the largest), a copy gets lessons only because no lesson is of a
  version there is not (`Homed`), and a recorded score is of the class's component.

`BoardProofs`
* `CapHolds`: an insert counts the columns again under the centre's lock, and the columns
  are finitely many at any time.
* `MovesApart`, `MovesKeepOrder`: `Faithful`, between a move's lock and its commit the table
  of positions it listed is true of every task of the column that a move placed, and of all
  of them unless something entered the column without the lock (`intruded`). `Lock` (one
  move at a time has listed a column) keeps other moves out, and `Standing` (a task that a
  move placed is alive) deletions. What remains is arithmetic about tables: `Before` orders
  a table and `Place` grows with it, so the two neighbours are neighbours, renormalisation
  keeps the order (`BaseInOrder`), and the gap a move halves is wide enough to leave a
  free position between them (`GapIsWide`, `DestIsFree`).
* `BoardTypeCorrect` with what each request carries from its read to its write (`Carries`).

`StaffingProofs`
* `StaffingTypeCorrect` needs, for each stage of a request, what the code of that stage
  reads (`Shaped`).
* `OnePlaceAlways`: the account, the membership and the centre change in one commit, and
  a join is of an account that is not active.
* `VerdictsStay`: `Judged`, a join's invitation is unanswered and locked by it alone, an
  offer a Confirm or a removal has locked (`Held`, nothing while an UPDATE waits) is open and
  no other request's.
* `RemovalsClear`: `Caught`, a removal whose first UPDATE has begun has every open offer of
  an un-raced person among its rows, one whose second has begun every stint. Offers that
  appear later, while the UPDATE waits for a Confirm's row say, are not among them: their
  person is raced.
* `PrimaryStintNamed`: `HandedOver`, one request at a time is between the two statements
  of `SyncPrimaryTeacher` in a centre, and past the first one it has closed the primary
  stints of everybody else.

Every safety invariant and every action property of the runs is stated by a theorem.
Only model-checked: the properties under fairness (`CloseTerminates`, `RunsSettle`,
`WorkersLeave`, `PublishNeverBlocks`, `ShutdownEnds`, `UnlinkReturns`,
`AttemptIsReported`), which TLAPS does not reach. `RemovalIsCarried` is refuted by its
run.

## Disagreements

What a comment of the code says and the code does not keep. The first is shown by the
run `removal`, which ends in a counterexample; the others were met while modelling, and
each is why a property is stated with the condition it has.

Sessions and billing
* `ReconcileSession` goes through the records left after a confirmation, so a student
  whom the confirmation has just taken off the roster is not reconciled
  (`billing/adjustment.go:219`, against `:188`).
* A Draft that overlaps the Close of its month may insert a draft after the close
  computed its own: the close issues a stale bill, or a draft stays in a closed month.
* A Close of the month that receives a carried amount, while it is posted, loses it or
  leaves it in a draft nobody issues; `resolveTargetPeriod` rolls forward once.
* A confirmation that commits between a close's tally and its commit is billed in no
  month until somebody confirms again.
* Two Uncancels around a Confirm make a session planned and confirmed, which
  `sessions/service.go:511-515` says cannot be; a Confirm that read the session before a
  Cancel brings it back.
* `VoidInvoice` judges the paid amount before its UPDATE, which looks at the status only
  (`billing/repository.go:913`): a payment in between stays on a void invoice
  (`close.go:241-243` says it cannot).
* Two adjustments of one invoice, the second of which sums before it waits for the row,
  leave a total without the first (`billing/repository.go:963`).
* `payments/repository.go:390-393`, that the two recomputations never disagree about what
  paid means, fails for a total of zero or less with money on it: `StatusTellsMoney`
  leaves it out.
* An invoice stays collectable after its debt was carried into a later one.

Notification runs
* A resume judges the run's status and waits; it completes a run that has settled since
  (`notifications/service.go:712`). A superseding send fails the rows of a run its sender
  has just resumed, and the contacts get the message anyway (`:219`).
* A shutdown can cut off the answer to a message Zalo took. Nothing is recorded, and the
  resume sends it again: `AtMostOnceUnlessLost` counts such a row as lost.
* A failed last write leaves a run `running` until the next boot, and a failed outcome
  write leaves a row queued in a settled run: `RunningHasSender` and
  `SettledHasNothingQueued` are stated for writes that do not fail.

Zalo
* A restore between Unlink's eviction and its delete caches a session nobody drops
  (`zalo/service.go:243`, against `session_cache.go:75-79`).
* An attempt replaced after its check stores its credentials over its replacement's
  (`zalo/link_manager.go:300`, against `:296-297`); and a link that lands between the two
  steps of `expire` (`service.go:614`) shows as expired with a working session.

Board
* Two deletes of the last two columns leave none, since the count is before the
  transaction (`src/apps/api/pkg/kanban/service.go:201`).
* `UpdateTask` and `MoveTask` write the whole row they read: each may undo the other.
  `PlacedApart` therefore speaks of tasks whose last placement was a move's.
* `src/apps/api/pkg/kanban/README.md:164`, that no two neighbours are ever closer than
  `minPositionGap`, fails for tasks moved in by a column's deletion, restored, or created
  at the same moment.

Library and programme
* `LockCurriculum` locks nothing when the class has no curriculum row
  (`teaching/repository.go:121`): two Applies, or one and a PutCurriculum, overwrite each
  other or deadlock. `OverwritesOnlyConfirmed` speaks of classes that have one.
* `DuplicateLesson` reads its source before the lock: a copy of what has been edited
  since, and a gap in the positions.
* The transitions of a lesson plan save the whole row and lose concurrent edits.

Staffing
* Reassign's early return for an unchanged teacher reads `teacher_id` before the centre's
  lock (`handoff/service.go:117-130`): after another handoff in between it re-creates the
  old teacher's stint while the class names the new one.
* A removal that commits between the two statements of `SyncPrimaryTeacher`, or before
  them, closes the old stint and inserts none (`classstaff/repository.go:223-226` says a
  removed member's sync changes nothing), and an Assign of the same person in between
  leaves the class without a primary stint.
* Send and Assign insert on a membership they read before a removal: the removed member
  holds an open offer or a stint (`classinvites/service.go:299-300`). It is enough that the
  row comes after the removal's UPDATE has begun (`classinvites/repository.go:171-177`,
  `centers/repository.go:442-463`), which may be waiting for another row.
* `UpdateProfile` saves the whole teacher row it read, `center_id` included
  (`teachers/service.go:245-254`): it undoes a removal and an admission in between.
  Profile edits are not modelled; `OneLivePlace` is about the system without one in flight.

## Not modelled

* Rendering, formatting, logging, the wire protocol of Zalo and HTTP decoding: no
  state of their own.
* Permission checks, apart from the per-item grant of a delegate's run and the
  memberships of `Staffing`: pure functions of the request's scope.
* PostgreSQL itself: transactions are atomic at commit, READ COMMITTED, and partial
  unique indexes are checked at commit.
* Several API processes over one database: the deployment runs one, and the slot
  map and `ReconcileInterrupted` rely on it.
* In the modelled components: List, SendPreview and RunSnapshot of notifications; friend
  lists and requests, the QR progress states; audit batches above the statement's
  parameter limit (`audit/subscriber.go:140`); several prices and classes on a bill, the
  preview; the expansion of a timetable into sessions, extra sessions and substitutes;
  the exercises of a lesson, which follow the code of materials, and a material's status;
  lesson plans, notes and marks; column order and names, task content, assignee and
  completion time; owners, roles and permissions, the directory, tokens, the tasks and
  planned sessions that move with a person, ended stints, Remind.
* The components marked `not_modelled` in `PROJECT.json`, each with its reason:
  authentication (issuing, hashing and comparing of credentials), classes and enrolments
  (validated writes of one row; what others rely on is modelled with them), statements
  (rendering), imports (one transaction over parsed rows), chat, collections, contacts,
  students and courses (no protocol of their own), the Zalo wire protocol (external), the
  rate limiter (one mutex), and the server's plumbing, configuration, seeds, the web
  client and generated files.
