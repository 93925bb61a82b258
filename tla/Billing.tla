------------------------------ MODULE Billing ------------------------------
(***************************************************************************)
(* One student's lessons of one month, from the timetable to the bill: the *)
(* status of a lesson (features/sessions), the confirmation of its         *)
(* attendance (features/attendance), the draft and the close of a billing  *)
(* period and the reconciliation that carries a later change of attendance *)
(* to the next open period (features/billing).                             *)
(*                                                                         *)
(* A request is a sequence of statements at READ COMMITTED; the steps of   *)
(* this module are its reads and its commits.  One lesson costs 1.         *)
(***************************************************************************)
EXTENDS Integers, FiniteSets

CONSTANTS
  Calls,     \* requests
  Lessons,   \* the sessions of period 1 that have a row
  Past,      \* those dated before today
  Closable,  \* the periods that may be closed
  Debt       \* what the student owes from before period 1

Periods == 1..3

ASSUME BillingConstants ==
  /\ IsFiniteSet(Lessons) /\ Past \subseteq Lessons
  /\ Closable \subseteq Periods /\ Debt \in Nat

VARIABLES
  lesson,    \* class_sessions and the student's live attendance record
  enrolled,  \* the student is active on the class on the day of the lesson
  period,    \* billing_periods.status, "none" without a row
  invoice,   \* the student's invoice of a period
  carried,   \* invoice_adjustments: the sum carried from period 1 to an invoice
  call,      \* the requests
  missed     \* why what closed months come to changed with no reconciliation since

rows == <<lesson, enrolled, period, invoice, carried>>
vars == <<rows, call, missed>>

\* attendance TallyByEnrollment: live records of lessons held and confirmed.
Counts(x)   == ~x.deleted /\ x.status = "held" /\ x.confirmed /\ x.record
Live(table) == Cardinality({l \in Lessons : Counts(table[l])})

NoInvoice == [status |-> "none", opening |-> 0, charge |-> 0, adjustments |-> 0, line |-> FALSE]
Due(inv)  == inv.opening + inv.charge + inv.adjustments
Atleast0(n) == IF n < 0 THEN 0 ELSE n

Carried == carried[1] + carried[2] + carried[3]

Idle == [at |-> "new", op |-> "none", on |-> 0, tally |-> 0, opening |-> 0, known |-> FALSE,
         status |-> "none", sum |-> 0]
Done == [Idle EXCEPT !.at = "done"]

Planned   == [status |-> "planned", confirmed |-> FALSE, deleted |-> FALSE, record |-> FALSE]
Confirmed == [status |-> "held", confirmed |-> TRUE, deleted |-> FALSE, record |-> TRUE]

Init ==
  /\ lesson \in [Lessons -> {Planned, Confirmed}]
  /\ enrolled = [l \in Lessons |-> TRUE]
  /\ period = [p \in Periods |-> IF p = 1 THEN "open" ELSE "none"]
  /\ invoice = [p \in Periods |-> NoInvoice]
  /\ carried = [p \in Periods |-> 0]
  /\ call = [c \in Calls |-> Idle]
  /\ missed = {}

At(c, at, op)   == call[c].at = at /\ call[c].op = op
Goto(c, at)     == call' = [call EXCEPT ![c].at = at]
Finish(c)       == call' = [call EXCEPT ![c] = Done]
Start(c, op, on) ==
  /\ call[c].at = "new"
  /\ call' = [call EXCEPT ![c] = [Idle EXCEPT !.at = "read", !.op = op, !.on = on]]
  /\ UNCHANGED <<rows, missed>>

\* An end or a start of the enrolment is moved across the day of a lesson.
MoveEnrolment(l) ==
  /\ enrolled' = [enrolled EXCEPT ![l] = ~@]
  /\ UNCHANGED <<lesson, period, invoice, carried, call, missed>>
-----------------------------------------------------------------------------
\* Cancel, Uncancel, Hold and Delete judge the row as they read it ...
Cancel(c, l)   == ~lesson[l].deleted /\ ~lesson[l].confirmed /\ Start(c, "cancel", l)
Uncancel(c, l) == ~lesson[l].deleted /\ lesson[l].status = "cancelled" /\ Start(c, "uncancel", l)
Hold(c, l)     == ~lesson[l].deleted /\ lesson[l].status # "cancelled" /\ Start(c, "hold", l)
Delete(c, l)   == ~lesson[l].deleted /\ ~lesson[l].confirmed /\ Start(c, "delete", l)

NewStatus == [cancel |-> "cancelled", uncancel |-> "planned", hold |-> "held"]

\* A change of what counts that no reconciliation follows.
Unnoticed(table, why) ==
  missed' = missed \cup {w \in {why} : period[1] = "closed" /\ Live(table) # Live(lesson)}

\* What refuses the write: the CHECK that a cancelled session is not confirmed, and a row
\* deleted meanwhile is not found.
Refused(c) ==
  lesson[call[c].on].deleted \/ (call[c].op = "cancel" /\ lesson[call[c].on].confirmed)

\* ... and write without looking again.
UpdateStatus(c) ==
  LET new == [lesson EXCEPT ![call[c].on].status = NewStatus[call[c].op]]
  IN /\ call[c].at = "read" /\ call[c].op \in DOMAIN NewStatus
     /\ lesson' = IF Refused(c) THEN lesson ELSE new
     /\ Unnoticed(lesson', "rescheduled")
     /\ Finish(c)
     /\ UNCHANGED <<enrolled, period, invoice, carried>>

SoftDelete(c) ==
  /\ At(c, "read", "delete")
  /\ lesson' = [lesson EXCEPT ![call[c].on].deleted = TRUE]
  /\ Unnoticed(lesson', "rescheduled")
  /\ Finish(c)
  /\ UNCHANGED <<enrolled, period, invoice, carried>>

\* Confirm reads the session and the roster ...
Confirm(c, l) ==
  /\ ~lesson[l].deleted /\ lesson[l].status # "cancelled"
  /\ call[c].at = "new"
  /\ call' = [call EXCEPT ![c] = [Idle EXCEPT !.at = "read", !.op = "confirm", !.on = l,
                                              !.known = enrolled[l]]]
  /\ UNCHANGED <<rows, missed>>

\* ... and writes the records of the roster, drops the others and marks the session, in
\* one transaction; a session deleted meanwhile is not found and nothing is written.
MarkHeldAndConfirmed(c) ==
  LET l == call[c].on
      new == [lesson EXCEPT ![l] = [@ EXCEPT !.status = "held", !.confirmed = TRUE,
                                             !.record = call[c].known]]
  IN /\ At(c, "read", "confirm")
     /\ IF lesson[l].deleted
        THEN Finish(c) /\ UNCHANGED <<lesson, missed>>
        ELSE /\ lesson' = new
             /\ Goto(c, "confirmed")
             /\ IF call[c].known THEN UNCHANGED missed ELSE Unnoticed(new, "removed")
     /\ UNCHANGED <<enrolled, period, invoice, carried>>
-----------------------------------------------------------------------------
\* ReconcileSession, after the commit: nothing to do while the month is open, or
\* without a record of the student on the session.
Reconcile(c) ==
  LET l == call[c].on
  IN /\ At(c, "confirmed", "confirm")
     /\ IF lesson[l].deleted \/ ~lesson[l].record \/ period[1] # "closed"
        THEN Finish(c) ELSE Goto(c, "reconciling")
     /\ UNCHANGED <<rows, missed>>

\* Any of its statements may fail; the response carries a warning and that is all.
ReconcileFails(c) ==
  /\ call[c].at \in {"confirmed", "reconciling", "locked", "targeted"}
  /\ Finish(c)
  /\ missed' = missed \cup {w \in {"failed"} : period[1] = "closed"}
  /\ UNCHANGED rows

InvoiceFree == \A d \in Calls : call[d].at \notin {"locked", "targeted"}

\* Mutant of LockInvoice: the closed invoice is read and not locked.
ReadInvoice(c) ==
  /\ call[c].at = "reconciling"
  /\ IF invoice[1].status \in {"none", "void"} THEN Finish(c) ELSE Goto(c, "locked")
  /\ UNCHANGED <<rows, missed>>

\* reconcileStudent locks the closed invoice; without one, or void, there is nothing to carry.
LockInvoice(c) ==
  /\ call[c].at = "reconciling" /\ InvoiceFree
  /\ IF invoice[1].status \in {"none", "void"} THEN Finish(c) ELSE Goto(c, "locked")
  /\ UNCHANGED <<rows, missed>>

\* What the month comes to now, at the prices of the invoice's lines; without a line (an
\* invoice issued for a carried debt) the class is left out unless the student is on the
\* roster on the day of the session.
LiveCharge(c) ==
  IF invoice[1].line \/ enrolled[call[c].on] THEN Live(lesson) ELSE 0

\* resolveDelta, and where to post it: the earliest open period after the month, else
\* the next month, else, that one being closed, the one after it.
Target ==
  LET open == {p \in {2, 3} : period[p] = "open"}
  IN IF open # {} THEN CHOOSE p \in open : \A q \in open : p <= q
     ELSE IF period[2] = "none" THEN 2 ELSE 3

ResolveDelta(c) ==
  LET delta == LiveCharge(c) - invoice[1].charge - Carried
  IN /\ call[c].at = "locked"
     /\ IF delta = 0
        THEN Finish(c)
        ELSE call' = [call EXCEPT ![c].at = "targeted", ![c].sum = delta, ![c].on = Target,
                                  ![c].known = invoice[Target].status # "none"]
     /\ missed' = IF LiveCharge(c) = Live(lesson) THEN {} ELSE missed \cup {"unlisted"}
     /\ UNCHANGED rows

\* The invoice the delta lands on: the one found, or an empty draft upserted, which
\* leaves nothing but zeros in a draft that appeared meanwhile.
TargetInvoice(c) ==
  LET inv == invoice[call[c].on]
  IN IF call[c].known \/ inv.status \notin {"none", "draft"}
     THEN inv ELSE [NoInvoice EXCEPT !.status = "draft", !.line = inv.line]

\* The period ensured, the adjustment and the recomputed totals commit together.
PostAdjustment(c) ==
  LET q == call[c].on
  IN /\ call[c].at = "targeted"
     /\ period' = [period EXCEPT ![q] = IF @ = "none" THEN "open" ELSE @]
     /\ carried' = [carried EXCEPT ![q] = @ + call[c].sum]
     /\ invoice' = [invoice EXCEPT ![q] = [TargetInvoice(c) EXCEPT !.adjustments = carried'[q]]]
     /\ Finish(c)
     /\ UNCHANGED <<lesson, enrolled, missed>>
-----------------------------------------------------------------------------
PeriodFree(p) ==
  \A d \in Calls : ~(call[d].op = "close" /\ call[d].on = p /\ call[d].at \in {"locked period", "computed", "checked"})

EnsurePeriod(p) ==
  /\ period[p] = "none"
  /\ period' = [period EXCEPT ![p] = "open"]
  /\ UNCHANGED <<lesson, enrolled, invoice, carried, call, missed>>

\* Draft reads the period before its transaction and does not lock it.
Draft(c, p) == period[p] = "open" /\ Start(c, "draft", p)

\* Close locks it and refuses while a past lesson waits for its attendance.
Blocking == {l \in Past : ~lesson[l].deleted /\ lesson[l].status # "cancelled" /\ ~lesson[l].confirmed}

Close(c, p) ==
  /\ call[c].at = "new" /\ p \in Closable
  /\ PeriodFree(p) /\ period[p] = "open"
  /\ p = 1 => Blocking = {}
  /\ call' = [call EXCEPT ![c] = [Idle EXCEPT !.at = "locked period", !.op = "close", !.on = p]]
  /\ UNCHANGED <<rows, missed>>

\* The outstanding balance of the latest closed period before p.
OpeningBalance(p) ==
  IF p > 1 /\ period[1] = "closed"
  THEN IF invoice[1].status \in {"none", "void"} THEN 0 ELSE Atleast0(Due(invoice[1]))
  ELSE Debt

\* computePeriod: the tally and the carried debt, for a student who has either or who
\* has an invoice already.
ComputePeriod(c) ==
  LET p == call[c].on
      tally == IF p = 1 THEN Live(lesson) ELSE 0
  IN /\ At(c, "read", "draft") \/ At(c, "locked period", "close")
     /\ call' = [call EXCEPT ![c].at = "computed", ![c].tally = tally, ![c].opening = OpeningBalance(p),
                   ![c].known = tally > 0 \/ OpeningBalance(p) > 0 \/ invoice[p].status # "none"]
     /\ UNCHANGED <<rows, missed>>

\* DraftPeriod re-reads the invoice and its adjustments; an invoice past draft aborts all.
CheckDraft(c) ==
  LET p == call[c].on
  IN /\ call[c].at = "computed"
     /\ IF call[c].known /\ invoice[p].status \notin {"none", "draft"}
        THEN Finish(c)
        ELSE call' = [call EXCEPT ![c].at = "checked", ![c].sum = carried[p],
                                  ![c].status = invoice[p].status]
     /\ UNCHANGED <<rows, missed>>

\* The row of the upsert; a new invoice has no adjustments.
Drafted(c) ==
  LET k == call[c]
  IN [status |-> "draft", opening |-> k.opening, charge |-> k.tally,
      adjustments |-> IF k.status = "none" THEN 0 ELSE k.sum,
      line |-> k.tally > 0 \/ invoice[k.on].line]

\* Mutant of Overwrites: the upsert has no WHERE status = 'draft'.
OverwritesAny(c) == TRUE

\* Only a draft is overwritten, whatever was read before.
Overwrites(c) == invoice[call[c].on].status \in {"none", "draft"}

CommitDraft(c) ==
  /\ At(c, "checked", "draft")
  /\ invoice' = IF call[c].known /\ Overwrites(c)
                THEN [invoice EXCEPT ![call[c].on] = Drafted(c)] ELSE invoice
  /\ Finish(c)
  /\ UNCHANGED <<lesson, enrolled, period, carried, missed>>

\* Close voids the empty drafts, issues the others and marks the period, in one commit.
Settled(inv) ==
  IF inv.status # "draft" THEN inv
  ELSE [inv EXCEPT !.status = IF inv.charge = 0 /\ inv.opening = 0 /\ inv.adjustments = 0
                              THEN "void" ELSE "issued"]

CommitClose(c) ==
  LET p == call[c].on
      new == IF call[c].known THEN Drafted(c) ELSE invoice[p]
  IN /\ At(c, "checked", "close")
     /\ IF call[c].known /\ ~Overwrites(c)
        THEN UNCHANGED <<invoice, period, missed>>
        ELSE /\ invoice' = [invoice EXCEPT ![p] = Settled(new)]
             /\ period' = [period EXCEPT ![p] = "closed"]
             /\ missed' = missed \cup {w \in {"raced"} : p = 1 /\ Live(lesson) # invoice'[1].charge}
     /\ Finish(c)
     /\ UNCHANGED <<lesson, enrolled, carried>>

\* VoidInvoice on an issued invoice; it waits for a reconciliation that has locked it.
VoidInvoice(p) ==
  /\ invoice[p].status = "issued" /\ (p = 1 => InvoiceFree)
  /\ invoice' = [invoice EXCEPT ![p].status = "void"]
  /\ UNCHANGED <<lesson, enrolled, period, carried, call, missed>>
-----------------------------------------------------------------------------
Schedule(c, l) == Cancel(c, l) \/ Uncancel(c, l) \/ Hold(c, l) \/ Delete(c, l) \/ Confirm(c, l)

Proceed(c) ==
  \/ UpdateStatus(c) \/ SoftDelete(c) \/ MarkHeldAndConfirmed(c)
  \/ Reconcile(c) \/ ReconcileFails(c) \/ LockInvoice(c) \/ ResolveDelta(c) \/ PostAdjustment(c)
  \/ ComputePeriod(c) \/ CheckDraft(c) \/ CommitDraft(c) \/ CommitClose(c)

Next ==
  \/ \E c \in Calls :
       \/ Proceed(c)
       \/ \E l \in Lessons : Schedule(c, l)
       \/ \E p \in Periods : Draft(c, p) \/ Close(c, p)
  \/ \E l \in Lessons : MoveEnrolment(l)
  \/ \E p \in Periods : EnsurePeriod(p) \/ VoidInvoice(p)

Spec == Init /\ [][Next]_vars
-----------------------------------------------------------------------------
TypeOK ==
  /\ lesson \in [Lessons -> [status : {"planned", "held", "cancelled"}, confirmed : BOOLEAN,
                             deleted : BOOLEAN, record : BOOLEAN]]
  /\ \A l \in Lessons : lesson[l].status = "cancelled" => ~lesson[l].confirmed
  /\ enrolled \in [Lessons -> BOOLEAN]
  /\ period \in [Periods -> {"none", "open", "closed"}]
  /\ invoice \in [Periods -> [status : {"none", "draft", "issued", "void"}, opening : Int,
                              charge : Nat, adjustments : Int, line : BOOLEAN]]
  /\ carried \in [Periods -> Int]
  /\ call \in [Calls -> [at : {"new", "read", "confirmed", "reconciling", "locked", "targeted",
                               "locked period", "computed", "checked", "done"},
                         op : {"none", "confirm", "cancel", "uncancel", "hold", "delete", "draft", "close"},
                         on : Lessons \cup Periods \cup {0}, tally : Nat, opening : Int,
                         known : BOOLEAN, status : {"none", "draft", "issued", "void"}, sum : Int]]
  /\ missed \subseteq {"rescheduled", "removed", "failed", "raced", "unlisted"}

BillIsWhole == invoice[1].charge + Carried = Live(lesson)

\* The month is billed and no reconciliation is on its way.
AllLooked ==
  /\ period[1] = "closed" /\ invoice[1].status = "issued"
  /\ \A c \in Calls : call[c].at \notin {"confirmed", "reconciling", "locked", "targeted"}

\* What was billed for a closed month and what was carried from it since add up to what
\* the month comes to: nothing is carried twice, however the reconciliations overlap, and
\* what one of them missed the next one of the student makes up.
CarriedInFull == AllLooked /\ missed = {} => BillIsWhole

\* ReconcileSession: after a committed attendance change inside a closed month the delta
\* of each affected student is carried, the student's who was taken off the session too.
RemovalIsCarried == AllLooked /\ missed \subseteq {"removed"} => BillIsWhole

\* An issued invoice is a snapshot: no draft, close or correction of a later period
\* changes what it charges, and it only leaves by being voided (DraftPeriod, Close).
IssuedIsFinal ==
  [][\A p \in Periods : invoice[p].status \in {"issued", "void"} =>
       /\ invoice'[p].status \in {invoice[p].status, "void"}
       /\ invoice'[p].opening = invoice[p].opening /\ invoice'[p].charge = invoice[p].charge]_vars
=============================================================================
