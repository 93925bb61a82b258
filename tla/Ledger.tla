------------------------------- MODULE Ledger -------------------------------
(***************************************************************************)
(* The money of one contact: the payments recorded for it, their           *)
(* allocation to its invoices, reversals and re-allocations                *)
(* (features/payments) and the corrections of an issued invoice            *)
(* (features/billing: AddAdjustment, VoidInvoice).                         *)
(*                                                                         *)
(* Every request is a transaction at READ COMMITTED.  The payment          *)
(* transactions lock the payment, then the invoices one by one in id order *)
(* (SELECT ... FOR UPDATE), and do the rest under these locks: that rest   *)
(* is one step.  An adjustment holds its invoice FOR KEY SHARE, through    *)
(* the foreign key of the row it inserts, from the insert to its commit.   *)
(***************************************************************************)
EXTENDS Integers, FiniteSets, Functions

CONSTANTS
  Calls,     \* requests; a request that creates a payment gives it its name
  Invoices,  \* ids of the contact's invoices, in lock order
  Rank,      \* the place of an invoice in the order of less(): age, class start, id
  Bills,     \* the invoices as drafted or issued: [status, opening, charge]
  Amounts,   \* what a payment or a line of a manual split may amount to
  Changes    \* what an adjustment may amount to, signed

NoPayment == "no payment"

ASSUME LedgerConstants ==
  /\ Invoices \subseteq Nat /\ IsFiniteSet(Invoices)
  /\ Rank \in [Invoices -> Nat]
  /\ Bills \in [Invoices -> [status : {"draft", "issued"}, opening : Nat, charge : Nat]]
  /\ Amounts \subseteq Nat \ {0}
  /\ Changes \subseteq Int \ {0}
  /\ IsFiniteSet(Calls) /\ NoPayment \notin Calls

VARIABLES
  invoice,  \* invoices: status, opening_balance, current_charge, adjustment_total, paid_amount
  posted,   \* invoice_adjustments: the sum of the rows of an invoice
  payment,  \* payments: amount (0: no row), reverses_payment_id, reversed_at
  split,    \* payment_allocations: what a payment puts on an invoice (0: no row)
  call      \* the requests: operation, progress, locks

vars == <<invoice, posted, payment, split, call>>

Statuses == {"draft", "issued", "partially_paid", "paid", "void"}
Splits   == [Invoices -> Nat]
Nothing  == [i \in Invoices |-> 0]

\* invoices.total_due, by its CHECK constraint.
Due(inv)     == inv.opening + inv.charge + inv.adjustments
Touched(s)   == {i \in Invoices : s[i] # 0}
\* The rows a payment has once it takes what taken says as well.
Adding(taken, s) == [i \in Invoices |-> IF taken[i] = 0 THEN s[i] ELSE s[i] + taken[i]]
Takes(inv)   == inv.status \in {"issued", "partially_paid"} /\ Due(inv) > inv.paid
Candidates   == {i \in Invoices : Takes(invoice[i])}
Atleast0(n)  == IF n < 0 THEN 0 ELSE n
Lesser(m, n) == IF m < n THEN m ELSE n

-----------------------------------------------------------------------------
\* The part of an invoice's debt that was carried over, and the rest of it.
OpeningUnpaid(inv) ==
  Lesser(Atleast0(inv.opening - inv.paid), Atleast0(Due(inv) - inv.paid))
RestUnpaid(inv) == Atleast0(Due(inv) - inv.paid) - OpeningUnpaid(inv)

\* The last of S in the order of less().
LastOf(S) == CHOOSE i \in S : \A j \in S : Rank[j] <= Rank[i]

\* One pass over S in order: each invoice takes what it can of what the ones before left.
Pass(state, owed, S) ==
  LET upTo[T \in SUBSET S] ==
        IF T = {} THEN state
        ELSE LET i    == LastOf(T)
                 st   == upTo[T \ {i}]
                 take == Lesser(st.left, owed[i])
             IN [left |-> st.left - take, taken |-> [st.taken EXCEPT ![i] = @ + take]]
  IN upTo[S]

\* Mutant of Allocate: one pass over the whole debt of each invoice.
AllocateOldestFirst(amount, S) ==
  Pass([left |-> amount, taken |-> Nothing],
       [i \in Invoices |-> Atleast0(Due(invoice[i]) - invoice[i].paid)], S).taken

\* Allocate: every carried balance before any current charge.
Allocate(amount, S) ==
  LET first == Pass([left |-> amount, taken |-> Nothing],
                    [i \in Invoices |-> OpeningUnpaid(invoice[i])], S)
  IN Pass(first, [i \in Invoices |-> RestUnpaid(invoice[i])], S).taken

\* What is on invoice i: the allocations, less those of reversal entries.
PaidOn(i, pays, splits) ==
  SumFunction([p \in Calls |-> IF pays[p].reverses = NoPayment THEN splits[p][i] ELSE -splits[p][i]])

\* RecalcInvoicePaid of features/payments.
RecalcInvoicePaid(inv, paid) ==
  [inv EXCEPT !.paid = paid,
              !.status = IF @ \in {"void", "draft"} THEN @
                         ELSE IF paid >= Due(inv) /\ Due(inv) > 0 THEN "paid"
                         ELSE IF paid > 0 THEN "partially_paid" ELSE "issued"]

\* Mutant of RecalcInvoiceTotals: the status stays as it was.
RecalcOnlyTotal(inv, total) == [inv EXCEPT !.adjustments = total]
\* RecalcInvoiceTotals of features/billing: the same rule but for a total of zero or less.
RecalcInvoiceTotals(inv, total) ==
  LET due == inv.opening + inv.charge + total
  IN [inv EXCEPT !.adjustments = total,
                 !.status = IF @ \in {"void", "draft"} THEN @
                            ELSE IF inv.paid <= 0 THEN "issued"
                            ELSE IF inv.paid < due THEN "partially_paid" ELSE "paid"]
-----------------------------------------------------------------------------
NoRow == [amount |-> 0, reverses |-> NoPayment, reversed |-> FALSE]
Idle  == [at |-> "new", op |-> "none", on |-> NoPayment, amount |-> 0, parts |-> Nothing,
          wants |-> {}, holds |-> {}]
Done  == [Idle EXCEPT !.at = "done"]

Init ==
  /\ invoice = [i \in Invoices |-> [status |-> Bills[i].status, opening |-> Bills[i].opening,
                                    charge |-> Bills[i].charge, adjustments |-> 0, paid |-> 0]]
  /\ posted = [i \in Invoices |-> 0]
  /\ payment = [p \in Calls |-> NoRow]
  /\ split = [p \in Calls |-> Nothing]
  /\ call = [c \in Calls |-> Idle]

\* A row can be locked FOR UPDATE, or changed, when no other transaction holds it so.
PaymentFree(p) == \A d \in Calls : ~(call[d].at = "locking" /\ call[d].on = p)
InvoiceFree(i) == \A d \in Calls : i \notin call[d].holds
Shares(d, i)   == call[d].at \in {"inserted", "summed"} /\ i \in call[d].wants

\* The transaction begins; it waits for its payment's row, then wants its invoices.
Begin(c, op, p, amount, parts, wants) ==
  /\ call[c].at = "new"
  /\ PaymentFree(p)
  /\ call' = [call EXCEPT ![c] = [at |-> "locking", op |-> op, on |-> p, amount |-> amount,
                                  parts |-> parts, wants |-> wants, holds |-> {}]]
  /\ UNCHANGED <<invoice, posted, payment, split>>

\* A payment that has a row, and neither is nor has a reversal.
Live(p) == payment[p].amount > 0 /\ payment[p].reverses = NoPayment /\ ~payment[p].reversed

\* Record: the new row and the candidates, as the query's snapshot shows them.
Record(c, amount) == Begin(c, "record", c, amount, Nothing, Candidates)

Reallocate(c, p, parts) ==
  /\ Live(p)
  /\ Touched(parts) # {} /\ SumFunction(parts) <= payment[p].amount
  /\ Begin(c, "reallocate", p, 0, parts, Touched(split[p]) \cup Touched(parts))

\* Mutant of Reverse: the payment's reversed_at is not looked at.
ReverseAgain(c, p) ==
  /\ payment[p].amount > 0 /\ payment[p].reverses = NoPayment
  /\ Begin(c, "reverse", p, 0, Nothing, Touched(split[p]))

Reverse(c, p) ==
  /\ Live(p)
  /\ Begin(c, "reverse", p, 0, Nothing, Touched(split[p]))

Remainder(p) == payment[p].amount - SumFunction(split[p])

AutoAllocateRemainder(c, p) ==
  /\ Live(p) /\ Remainder(p) > 0
  /\ Begin(c, "auto", p, Remainder(p), Nothing, Candidates)

\* Mutant of LockNext: the query has no ORDER BY.
LockAny(c) ==
  \E i \in call[c].wants :
    /\ call[c].at = "locking"
    /\ InvoiceFree(i) /\ \A d \in Calls : ~Shares(d, i)
    /\ call' = [call EXCEPT ![c].wants = @ \ {i}, ![c].holds = @ \cup {i}]
    /\ UNCHANGED <<invoice, posted, payment, split>>

\* FOR UPDATE takes the rows in the order of the query, ORDER BY id.
LockNext(c) ==
  \E i \in call[c].wants :
    /\ call[c].at = "locking"
    /\ \A j \in call[c].wants : i <= j
    /\ InvoiceFree(i) /\ \A d \in Calls : ~Shares(d, i)
    /\ call' = [call EXCEPT ![c].wants = @ \ {i}, ![c].holds = @ \cup {i}]
    /\ UNCHANGED <<invoice, posted, payment, split>>

Locked(c, op) == call[c].at = "locking" /\ call[c].op = op /\ call[c].wants = {}

\* The allocations are written, every touched invoice recomputed, the transaction commits.
Commit(c, pays, splits, touched) ==
  /\ payment' = pays
  /\ split' = splits
  /\ invoice' = [i \in Invoices |-> IF i \in touched
                                    THEN RecalcInvoicePaid(invoice[i], PaidOn(i, pays, splits))
                                    ELSE invoice[i]]
  /\ call' = [call EXCEPT ![c] = Done]
  /\ UNCHANGED posted

\* The locked invoices that still qualify after the wait take part (READ COMMITTED).
CommitRecord(c) ==
  LET taken == Allocate(call[c].amount, call[c].holds \cap Candidates)
  IN /\ Locked(c, "record")
     /\ Commit(c, [payment EXCEPT ![c] = [NoRow EXCEPT !.amount = call[c].amount]],
               [split EXCEPT ![c] = Adding(taken, Nothing)], Touched(taken))

CommitAuto(c) ==
  LET taken == Allocate(call[c].amount, call[c].holds \cap Candidates)
      p     == call[c].on
  IN /\ Locked(c, "auto")
     /\ Commit(c, payment, [split EXCEPT ![p] = Adding(taken, @)], Touched(taken))

\* Mutant of Fits: the payment's own money on the invoice counts twice as room.
FitsTwice(c, i) ==
  LET own == split[call[c].on][i]
  IN /\ invoice[i].status \in {"issued", "partially_paid", "paid"}
     /\ call[c].parts[i] <= Due(invoice[i]) - (invoice[i].paid - 2 * own)

\* The line of invoice i of a manual split is one the invoice can take.
Fits(c, i) ==
  LET own == split[call[c].on][i]
  IN /\ invoice[i].status \in {"issued", "partially_paid", "paid"}
     /\ call[c].parts[i] <= Due(invoice[i]) - (invoice[i].paid - own)

\* Mutant of CommitReallocate: an invoice that left the split is not recomputed.
CommitReallocateNew(c) ==
  LET p == call[c].on
  IN /\ Locked(c, "reallocate")
     /\ \A i \in Touched(call[c].parts) : Fits(c, i)
     /\ Commit(c, payment, [split EXCEPT ![p] = call[c].parts], Touched(call[c].parts))

CommitReallocate(c) ==
  LET p == call[c].on
  IN /\ Locked(c, "reallocate")
     /\ \A i \in Touched(call[c].parts) : Fits(c, i)
     /\ Commit(c, payment, [split EXCEPT ![p] = call[c].parts],
               Touched(split[p]) \cup Touched(call[c].parts))

RefuseReallocate(c) ==
  /\ Locked(c, "reallocate")
  /\ \E i \in Touched(call[c].parts) : ~Fits(c, i)
  /\ call' = [call EXCEPT ![c] = Done]
  /\ UNCHANGED <<invoice, posted, payment, split>>

CommitReverse(c) ==
  LET p == call[c].on
  IN /\ Locked(c, "reverse")
     /\ Commit(c, [payment EXCEPT ![c] = [NoRow EXCEPT !.amount = payment[p].amount, !.reverses = p],
                                  ![p].reversed = TRUE],
               [split EXCEPT ![c] = split[p]], Touched(split[p]))
-----------------------------------------------------------------------------
Judge(c, op, i, amount) ==
  /\ call[c].at = "new"
  /\ call' = [call EXCEPT ![c] = [at |-> "judged", op |-> op, on |-> NoPayment, amount |-> amount,
                                  parts |-> Nothing, wants |-> {i}, holds |-> {}]]
  /\ UNCHANGED <<invoice, posted, payment, split>>

\* AddAdjustment reads the invoice before its transaction.
AddAdjustment(c, i, amount) ==
  /\ invoice[i].status \notin {"void", "paid"}
  /\ Judge(c, "adjust", i, amount)

\* The row's foreign key waits for the invoice's FOR UPDATE lock and shares it then.
CreateAdjustment(c) ==
  /\ call[c].at = "judged" /\ call[c].op = "adjust"
  /\ \A i \in call[c].wants : InvoiceFree(i)
  /\ call' = [call EXCEPT ![c].at = "inserted"]
  /\ UNCHANGED <<invoice, posted, payment, split>>

\* The sum RecalcInvoiceTotals sees: the committed rows and its own.
SumAdjustments(c) ==
  \E i \in call[c].wants :
    /\ call[c].at = "inserted"
    /\ call' = [call EXCEPT ![c].at = "summed", ![c].parts = [Nothing EXCEPT ![i] = posted[i] + call[c].amount]]
    /\ UNCHANGED <<invoice, posted, payment, split>>

\* The UPDATE reads the row as it is once it has the lock, but the sum of before.
CommitAdjustment(c) ==
  \E i \in call[c].wants :
    /\ call[c].at = "summed"
    /\ invoice' = [invoice EXCEPT ![i] = RecalcInvoiceTotals(@, call[c].parts[i])]
    /\ posted' = [posted EXCEPT ![i] = @ + call[c].amount]
    /\ call' = [call EXCEPT ![c] = Done]
    /\ UNCHANGED <<payment, split>>

\* VoidInvoice reads the status and the paid amount ...
JudgeVoid(c, i) ==
  /\ invoice[i].status \in {"issued", "partially_paid"} /\ invoice[i].paid = 0
  /\ Judge(c, "void", i, 0)

\* ... and its guarded UPDATE looks at the status only.
VoidInvoice(c) ==
  \E i \in call[c].wants :
    /\ call[c].at = "judged" /\ call[c].op = "void"
    /\ InvoiceFree(i)
    /\ invoice' = [invoice EXCEPT ![i].status = IF @ \in {"issued", "partially_paid"} THEN "void" ELSE @]
    /\ call' = [call EXCEPT ![c] = Done]
    /\ UNCHANGED <<posted, payment, split>>

\* Close of the invoice's period: an empty draft is voided, another one issued.
CloseIssues(i) ==
  /\ invoice[i].status = "draft" /\ InvoiceFree(i)
  /\ invoice' = [invoice EXCEPT ![i].status =
                   IF invoice[i].opening = 0 /\ invoice[i].charge = 0 /\ invoice[i].adjustments = 0
                   THEN "void" ELSE "issued"]
  /\ UNCHANGED <<posted, payment, split, call>>

Commits(c) ==
  \/ CommitRecord(c) \/ CommitAuto(c)
  \/ CommitReallocate(c) \/ RefuseReallocate(c)
  \/ CommitReverse(c)

Proceed(c) ==
  \/ LockNext(c) \/ Commits(c)
  \/ CreateAdjustment(c) \/ SumAdjustments(c) \/ CommitAdjustment(c)
  \/ VoidInvoice(c)

Request(c) ==
  \/ \E a \in Amounts : Record(c, a)
  \/ \E p \in Calls :
       \/ \E parts \in [Invoices -> Amounts \cup {0}] : Reallocate(c, p, parts)
       \/ Reverse(c, p)
       \/ AutoAllocateRemainder(c, p)
  \/ \E i \in Invoices :
       \/ \E a \in Changes : AddAdjustment(c, i, a)
       \/ JudgeVoid(c, i)

Next ==
  \/ \E c \in Calls : Request(c) \/ Proceed(c)
  \/ \E i \in Invoices : CloseIssues(i)

Spec == Init /\ [][Next]_vars
-----------------------------------------------------------------------------
TypeOK ==
  /\ invoice \in [Invoices -> [status : Statuses, opening : Nat, charge : Nat,
                               adjustments : Int, paid : Int]]
  /\ posted \in [Invoices -> Int]
  /\ payment \in [Calls -> [amount : Nat, reverses : Calls \cup {NoPayment}, reversed : BOOLEAN]]
  /\ split \in [Calls -> Splits]
  /\ call \in [Calls -> [at : {"new", "locking", "judged", "inserted", "summed", "done"},
                         op : {"none", "record", "reallocate", "reverse", "auto", "adjust", "void"},
                         on : Calls \cup {NoPayment}, amount : Int, parts : [Invoices -> Int],
                         wants : SUBSET Invoices, holds : SUBSET Invoices]]

\* Whatever overlaps, paid_amount is the money on the invoice: what the allocations
\* say, reversal entries counted against it (recalcInvoicePaidQuery).
PaidIsAllocated == \A i \in Invoices : invoice[i].paid = PaidOn(i, payment, split)

\* A reversal cancels its payment exactly and once: the payment keeps the split the
\* entry mirrored, so no re-allocation and no second reversal came in between
\* (Reverse, Reallocate, AutoAllocateRemainder).
ReversedExactly ==
  /\ \A p \in Calls : payment[p].reverses # NoPayment =>
       LET q == payment[p].reverses
       IN payment[q].reversed /\ split[p] = split[q] /\ payment[p].amount = payment[q].amount
  /\ \A p, r \in Calls :
       payment[p].reverses = payment[r].reverses /\ payment[p].reverses # NoPayment => p = r

\* The status of an issued invoice tells where its money stands, although two
\* packages derive it, from different rules.
StatusTellsMoney ==
  \A i \in Invoices :
    LET inv == invoice[i]
    IN /\ inv.status = "issued" => inv.paid <= 0
       /\ inv.status = "partially_paid" => inv.paid > 0 /\ (inv.paid < Due(inv) \/ Due(inv) <= 0)
       /\ inv.status = "paid" => inv.paid > 0 /\ inv.paid >= Due(inv)

\* No payment puts more on an invoice than it owes, even when adjustments, voids and
\* other payments of the contact commit while it waits for its locks.
NeverOverpays ==
  [][\A i \in Invoices : invoice'[i].paid > invoice[i].paid =>
       invoice'[i].paid <= Due(invoice[i]) /\ invoice[i].status \in {"issued", "partially_paid", "paid"}]_vars

\* Rule D8: while the carried balance of an invoice that takes part is open, the
\* payment pays no current charge of any; and money is left over only when every
\* invoice that takes part is paid (Allocate).
CarriedFirst ==
  [][\A c \in Calls : (CommitRecord(c) \/ CommitAuto(c)) =>
       LET S == call[c].holds \cap Candidates
           p == call[c].on
           taken(i) == split'[p][i] - split[p][i]
           left == call[c].amount - SumFunction([i \in Invoices |-> taken(i)])
       IN /\ \A i, j \in S : taken(i) < OpeningUnpaid(invoice[i]) => taken(j) <= OpeningUnpaid(invoice[j])
          /\ left > 0 => \A i \in S : invoice'[i].paid >= Due(invoice[i])
          /\ left >= 0]_vars

\* Call c waits for a row that d has locked.
WaitsFor(c, d) ==
  /\ c # d
  /\ \E i \in call[c].wants :
       \/ /\ call[c].at = "locking" /\ \A j \in call[c].wants : i <= j
          /\ i \in call[d].holds \/ Shares(d, i)
       \/ call[c].at = "judged" /\ i \in call[d].holds

\* Payments, reversals, re-allocations and corrections of one contact never wait for
\* each other in a circle: in any set of calls there is one that waits for none of them.
NoDeadlock ==
  \A S \in (SUBSET Calls) \ {{}} : \E c \in S : \A d \in S : ~WaitsFor(c, d)
=============================================================================
