--------------------------- MODULE BillingProofs ---------------------------
(***************************************************************************)
(* What holds of Billing for every set of requests and lessons and every   *)
(* debt: an issued invoice stays, and what was billed for a closed month   *)
(* and what was carried from it since add up.  How many lessons count is   *)
(* never computed; it is enough to know when it changes.                   *)
(***************************************************************************)
EXTENDS Billing, FiniteSetTheorems, TLAPS

Reconciling == {"confirmed", "reconciling", "locked", "targeted"}
Drafting    == {"locked period", "computed", "checked"}
LessonOps   == {"confirm", "cancel", "uncancel", "hold", "delete"}
PeriodOps   == {"draft", "close"}

\* What a request works on, by where it is.
Shaped(k) ==
  /\ k.at = "read" => k.op \in LessonOps \cup PeriodOps
  /\ k.at \in {"read", "confirmed"} /\ k.op \in LessonOps => k.on \in Lessons
  /\ k.op \in PeriodOps => k.on \in Periods
  /\ k.at \in Drafting => k.op \in PeriodOps
  /\ k.at \in Reconciling => k.op = "confirm"
  /\ k.at = "targeted" => k.on \in {2, 3}

Shapes  == \A c \in Calls : Shaped(call[c])
TypeInv == TypeOK /\ Shapes

\* Until the month is closed nothing is carried from it.
Before ==
  period[1] # "closed" =>
    /\ Carried = 0
    /\ \A c \in Calls : call[c].at \notin {"reconciling", "locked", "targeted"}

\* A close of month 1 has its row, which is open and nobody else's.
Closes(c) == call[c].op = "close" /\ call[c].on = 1 /\ call[c].at \in Drafting
Closing ==
  /\ \A c \in Calls : Closes(c) => period[1] = "open"
  /\ \A c, d \in Calls : Closes(c) /\ Closes(d) => c = d

\* One reconciliation at a time has the closed invoice.
Holds(c)  == call[c].at \in {"locked", "targeted"}
OneHolder == \A c, d \in Calls : Holds(c) /\ Holds(d) => c = d

\* A reconciliation that has still to look at the student.
Coming(c) ==
  \/ call[c].at = "confirmed" /\ Counts(lesson[call[c].on])
  \/ call[c].at \in {"reconciling", "locked"}

Posting(c) == call[c].at = "targeted"

\* If none will look, what the one that has looked is about to post makes the bill whole;
\* and if none has, it is whole.
Accounted ==
  period[1] = "closed" /\ invoice[1].status = "issued" /\ missed = {} =>
    \/ \E c \in Calls : Coming(c)
    \/ /\ \A c \in Calls : Posting(c) => invoice[1].charge + Carried + call[c].sum = Live(lesson)
       /\ (\A c \in Calls : ~Posting(c)) => BillIsWhole

Books   == Before /\ Closing /\ OneHolder
BillInv == TypeInv /\ Books /\ Accounted
-----------------------------------------------------------------------------
(* Lessons and rows.                                                       *)

LEMMA LiveIsNat == ASSUME NEW table PROVE Live(table) \in Nat
<1>1. {l \in Lessons : Counts(table[l])} \in SUBSET Lessons OBVIOUS
<1>2. IsFiniteSet({l \in Lessons : Counts(table[l])})
  BY <1>1, FS_Subset, BillingConstants
<1> QED BY <1>2, FS_CardinalityType DEF Live

\* What one lesson's change does to the count.
LEMMA LiveByOne ==
  ASSUME NEW old, NEW new, NEW l \in Lessons, \A m \in Lessons : m # l => new[m] = old[m],
         Live(new) = Live(old)
  PROVE  Counts(new[l]) = Counts(old[l])
<1> DEFINE Rest == {m \in Lessons : m # l /\ Counts(old[m])}
<1>1. IsFiniteSet(Rest)
  <2>1. Rest \in SUBSET Lessons OBVIOUS
  <2> QED BY <2>1, FS_Subset, BillingConstants
<1>2. Cardinality(Rest) \in Nat BY <1>1, FS_CardinalityType
<1>3. Cardinality(Rest \cup {l}) = Cardinality(Rest) + 1
  <2>1. l \notin Rest OBVIOUS
  <2> QED BY <1>1, <2>1, FS_AddElement
<1>4. Counts(old[l]) => {m \in Lessons : Counts(old[m])} = Rest \cup {l} OBVIOUS
<1>5. ~Counts(old[l]) => {m \in Lessons : Counts(old[m])} = Rest OBVIOUS
<1>6. Counts(new[l]) => {m \in Lessons : Counts(new[m])} = Rest \cup {l} OBVIOUS
<1>7. ~Counts(new[l]) => {m \in Lessons : Counts(new[m])} = Rest OBVIOUS
<1>8. Counts(old[l]) => Live(old) = Cardinality(Rest) + 1 BY <1>3, <1>4 DEF Live
<1>9. ~Counts(old[l]) => Live(old) = Cardinality(Rest) BY <1>5 DEF Live
<1>10. Counts(new[l]) => Live(new) = Cardinality(Rest) + 1 BY <1>3, <1>6 DEF Live
<1>11. ~Counts(new[l]) => Live(new) = Cardinality(Rest) BY <1>7 DEF Live
<1>12. Counts(new[l]) \in BOOLEAN /\ Counts(old[l]) \in BOOLEAN BY DEF Counts
<1> HIDE DEF Rest
<1> QED BY <1>2, <1>8, <1>9, <1>10, <1>11, <1>12

-----------------------------------------------------------------------------
(* Types.                                                                  *)

CallType ==
  [at : {"new", "read", "confirmed", "reconciling", "locked", "targeted",
         "locked period", "computed", "checked", "done"},
   op : {"none", "confirm", "cancel", "uncancel", "hold", "delete", "draft", "close"},
   on : Lessons \cup Periods \cup {0}, tally : Nat, opening : Int,
   known : BOOLEAN, status : {"none", "draft", "issued", "void"}, sum : Int]

InvoiceType == [status : {"none", "draft", "issued", "void"}, opening : Int,
                charge : Nat, adjustments : Int, line : BOOLEAN]

LessonType == [status : {"planned", "held", "cancelled"}, confirmed : BOOLEAN,
               deleted : BOOLEAN, record : BOOLEAN]

Rows ==
  /\ lesson \in [Lessons -> LessonType]
  /\ \A l \in Lessons : lesson[l].status = "cancelled" => ~lesson[l].confirmed
  /\ enrolled \in [Lessons -> BOOLEAN]
  /\ period \in [Periods -> {"none", "open", "closed"}]
  /\ invoice \in [Periods -> InvoiceType]
  /\ carried \in [Periods -> Int]
  /\ missed \subseteq {"rescheduled", "removed", "failed", "raced", "unlisted"}

LEMMA TypeOKIs == TypeOK <=> Rows /\ call \in [Calls -> CallType]
BY DEF TypeOK, Rows, CallType, InvoiceType, LessonType

\* A step of c leaves every other request alone.
Becomes(c, k) == call' = [call EXCEPT ![c] = k]

LEMMA CallsTyped ==
  ASSUME TypeInv, NEW c \in Calls, NEW k \in CallType, Shaped(k), Becomes(c, k)
  PROVE  /\ call' \in [Calls -> CallType] /\ Shapes'
         /\ call'[c] = k /\ \A d \in Calls : d # c => call'[d] = call[d]
<1>1. call \in [Calls -> CallType] BY TypeOKIs DEF TypeInv
<1>2. call' \in [Calls -> CallType] BY <1>1 DEF Becomes
<1>3. call'[c] = k /\ \A d \in Calls : d # c => call'[d] = call[d] BY <1>1 DEF Becomes
<1>4. ASSUME NEW d \in Calls PROVE Shaped(call'[d])
  BY <1>3 DEF TypeInv, Shapes
<1> QED BY <1>2, <1>3, <1>4 DEF Shapes, Shaped
\* The same where only the place of a request changes.
LEMMA Moved ==
  ASSUME TypeInv, NEW c \in Calls, NEW at, Goto(c, at),
         at \in {"new", "read", "confirmed", "reconciling", "locked", "targeted",
                 "locked period", "computed", "checked", "done"}
  PROVE  /\ Becomes(c, [call[c] EXCEPT !.at = at])
         /\ [call[c] EXCEPT !.at = at] \in CallType
         /\ [call[c] EXCEPT !.at = at].at = at
         /\ [call[c] EXCEPT !.at = at].op = call[c].op
         /\ [call[c] EXCEPT !.at = at].on = call[c].on
         /\ [call[c] EXCEPT !.at = at].sum = call[c].sum
<1>1. call[c] \in CallType BY TypeOKIs DEF TypeInv
<1> QED BY <1>1 DEF Goto, Becomes, CallType

LEMMA DoneIs ==
  /\ Idle \in CallType /\ Idle.at = "new" /\ Idle.op = "none"
  /\ Done \in CallType /\ Done.at = "done" /\ Done.op = "none" /\ Shaped(Done)
<1>1. Idle \in CallType /\ Idle.at = "new" /\ Idle.op = "none" BY DEF Idle, CallType, Periods
<1>2. Done \in CallType BY <1>1 DEF Done, CallType
<1>3. Done.at = "done" /\ Done.op = "none" BY <1>1 DEF Done, CallType
<1> QED BY <1>1, <1>2, <1>3 DEF Shaped, Reconciling, Drafting, LessonOps, PeriodOps

LEMMA Finished ==
  ASSUME NEW c, Finish(c)
  PROVE  Becomes(c, Done) /\ Done \in CallType /\ Shaped(Done)
BY DoneIs DEF Finish, Becomes

\* A request begins.
LEMMA Started ==
  ASSUME NEW c, NEW op \in LessonOps \cup PeriodOps, NEW on, Start(c, op, on),
         op \in LessonOps => on \in Lessons, op \in PeriodOps => on \in Periods
  PROVE  \E k \in CallType : Shaped(k) /\ Becomes(c, k) /\ k.at = "read"
<1> DEFINE k == [Idle EXCEPT !.at = "read", !.op = op, !.on = on]
<1>1. k \in CallType /\ k.at = "read" /\ k.op = op /\ k.on = on
  <2>1. on \in Lessons \cup Periods BY DEF LessonOps, PeriodOps
  <2>2. op \in {"confirm", "cancel", "uncancel", "hold", "delete", "draft", "close"}
    BY DEF LessonOps, PeriodOps
  <2> QED BY <2>1, <2>2, DoneIs DEF CallType
<1>2. Shaped(k)
  <2> HIDE DEF k
  <2> QED BY <1>1 DEF Shaped, Reconciling, Drafting
<1>3. Becomes(c, k) BY DEF Start, Becomes
<1> HIDE DEF k
<1> QED BY <1>1, <1>2, <1>3
-----------------------------------------------------------------------------
(* Requests that only read: what they become, and what stays with them.    *)

\* c goes from one place outside a reconciliation to another.
Aside(c, k) ==
  /\ k \in CallType /\ Shaped(k) /\ Becomes(c, k)
  /\ call[c].at \notin Reconciling /\ k.at \notin Reconciling

Prepares(c) ==
  \/ \E l \in Lessons : Schedule(c, l)
  \/ \E p \in Periods : Draft(c, p) \/ Close(c, p)
  \/ ComputePeriod(c) \/ CheckDraft(c)

\* c becomes, or goes on being, a close of month 1.
ClosesAs(c, k) ==
  k.op = "close" /\ k.on = 1 /\ k.at \in Drafting =>
    Closes(c) \/ (period[1] = "open" /\ \A d \in Calls : ~Closes(d))

LEMMA PrepareAside ==
  ASSUME TypeInv, NEW c \in Calls, Prepares(c)
  PROVE  /\ UNCHANGED <<rows, missed>>
         /\ \E k : Aside(c, k) /\ ClosesAs(c, k)
<1> USE DEF Aside, ClosesAs
<1>0. call[c] \in CallType /\ Shaped(call[c]) BY TypeOKIs DEF TypeInv, Shapes
<1>1. ASSUME NEW l \in Lessons, Cancel(c, l) \/ Uncancel(c, l) \/ Hold(c, l) \/ Delete(c, l)
      PROVE  UNCHANGED <<rows, missed>> /\ \E k : Aside(c, k) /\ ClosesAs(c, k)
  <2>1. PICK op \in LessonOps : Start(c, op, l)
    BY <1>1 DEF Cancel, Uncancel, Hold, Delete, LessonOps
  <2>2. op \notin PeriodOps BY DEF LessonOps, PeriodOps
  <2>3. call[c].at = "new" /\ UNCHANGED <<rows, missed>> BY <2>1 DEF Start
  <2>4. PICK k \in CallType : Shaped(k) /\ Becomes(c, k) /\ k.at = "read"
    BY <2>1, <2>2, Started
  <2> QED BY <2>3, <2>4 DEF Reconciling, Drafting
<1>2. ASSUME NEW p \in Periods, Draft(c, p)
      PROVE  UNCHANGED <<rows, missed>> /\ \E k : Aside(c, k) /\ ClosesAs(c, k)
  <2>1. Start(c, "draft", p) BY <1>2 DEF Draft
  <2>2. "draft" \in LessonOps \cup PeriodOps /\ "draft" \notin LessonOps
    BY DEF LessonOps, PeriodOps
  <2>3. call[c].at = "new" /\ UNCHANGED <<rows, missed>> BY <2>1 DEF Start
  <2>4. PICK k \in CallType : Shaped(k) /\ Becomes(c, k) /\ k.at = "read"
    BY <2>1, <2>2, Started
  <2> QED BY <2>3, <2>4 DEF Reconciling, Drafting
<1>3. ASSUME NEW l \in Lessons, Confirm(c, l)
      PROVE  UNCHANGED <<rows, missed>> /\ \E k : Aside(c, k) /\ ClosesAs(c, k)
  <2> DEFINE k == [Idle EXCEPT !.at = "read", !.op = "confirm", !.on = l, !.known = enrolled[l]]
  <2>1. enrolled[l] \in BOOLEAN BY TypeOKIs DEF TypeInv, Rows
  <2>2. k \in CallType /\ k.at = "read" /\ k.op = "confirm" /\ k.on = l
    BY <2>1, DoneIs DEF CallType
  <2>3. Becomes(c, k) /\ call[c].at = "new" /\ UNCHANGED <<rows, missed>>
    BY <1>3 DEF Confirm, Becomes
  <2> HIDE DEF k
  <2>4. Shaped(k) BY <2>2 DEF Shaped, LessonOps, PeriodOps, Reconciling, Drafting
  <2> QED BY <2>2, <2>3, <2>4 DEF Reconciling, Drafting
<1>4. ASSUME NEW p \in Periods, Close(c, p)
      PROVE  UNCHANGED <<rows, missed>> /\ \E k : Aside(c, k) /\ ClosesAs(c, k)
  <2> DEFINE k == [Idle EXCEPT !.at = "locked period", !.op = "close", !.on = p]
  <2>1. k \in CallType /\ k.at = "locked period" /\ k.op = "close" /\ k.on = p
    BY DoneIs DEF CallType
  <2>2. Becomes(c, k) /\ call[c].at = "new" /\ UNCHANGED <<rows, missed>>
    BY <1>4 DEF Close, Becomes
  <2> HIDE DEF k
  <2>3. Shaped(k) BY <2>1 DEF Shaped, LessonOps, PeriodOps, Reconciling, Drafting
  <2>4. p = 1 => period[1] = "open" /\ \A d \in Calls : ~Closes(d)
    BY <1>4 DEF Close, PeriodFree, Closes, Drafting
  <2> QED BY <2>1, <2>2, <2>3, <2>4 DEF Reconciling
<1>5. CASE ComputePeriod(c)
  <2> DEFINE tally == IF call[c].on = 1 THEN Live(lesson) ELSE 0
             seen  == tally > 0 \/ OpeningBalance(call[c].on) > 0 \/ invoice[call[c].on].status # "none"
             k == [call[c] EXCEPT !.at = "computed", !.tally = tally,
                                  !.opening = OpeningBalance(call[c].on), !.known = seen]
  <2>1. call[c].op \in PeriodOps /\ call[c].at \in {"read", "locked period"}
    BY <1>5, <1>0 DEF ComputePeriod, At, PeriodOps
  <2>2. tally \in Nat BY LiveIsNat
  <2>3. OpeningBalance(call[c].on) \in Int
    BY BillingConstants, TypeOKIs DEF OpeningBalance, TypeInv, Rows, InvoiceType, Periods, Due, Atleast0
  <2>4. Becomes(c, k) /\ UNCHANGED <<rows, missed>> BY <1>5 DEF ComputePeriod, Becomes
  <2>5. seen \in BOOLEAN OBVIOUS
  <2> HIDE DEF tally, seen
  <2>6. k \in CallType /\ k.at = "computed" /\ k.op = call[c].op /\ k.on = call[c].on
    BY <1>0, <2>2, <2>3, <2>5 DEF CallType
  <2> HIDE DEF k
  <2>7. Shaped(k) BY <1>0, <2>1, <2>6 DEF Shaped, PeriodOps, LessonOps, Reconciling, Drafting
  <2>8. k.op = "close" => call[c].at \in Drafting
    BY <1>5, <2>6 DEF ComputePeriod, At, Drafting
  <2> QED BY <2>1, <2>4, <2>6, <2>7, <2>8 DEF Reconciling, Closes
<1>6. CASE CheckDraft(c)
  <2>1. call[c].at = "computed" /\ call[c].op \in PeriodOps /\ UNCHANGED <<rows, missed>>
    BY <1>6, <1>0 DEF CheckDraft, Shaped, Drafting
  <2>2. CASE Finish(c)
    BY <2>1, <2>2, Finished, DoneIs DEF Reconciling
  <2>3. CASE ~Finish(c)
    <3> DEFINE k == [call[c] EXCEPT !.at = "checked", !.sum = carried[call[c].on],
                                    !.status = invoice[call[c].on].status]
    <3>1. Becomes(c, k) BY <1>6, <2>3 DEF CheckDraft, Becomes
    <3>2. carried[call[c].on] \in Int /\ invoice[call[c].on].status \in {"none", "draft", "issued", "void"}
      BY <1>0, <2>1, TypeOKIs DEF Shaped, TypeInv, Rows, InvoiceType
    <3>3. k \in CallType /\ k.at = "checked" /\ k.op = call[c].op /\ k.on = call[c].on
      BY <1>0, <3>2 DEF CallType
    <3> HIDE DEF k
    <3>4. Shaped(k) BY <1>0, <2>1, <3>3 DEF Shaped, PeriodOps, LessonOps, Reconciling, Drafting
    <3> QED BY <2>1, <3>1, <3>3, <3>4 DEF Reconciling, Closes, Drafting
  <2> QED BY <2>2, <2>3
<1> QED BY <1>1, <1>2, <1>3, <1>4, <1>5, <1>6 DEF Prepares, Schedule
-----------------------------------------------------------------------------
(* What a step has to keep.                                                *)

Holding == {"locked", "targeted"}

LEMMA BooksKept ==
  ASSUME TypeInv, Books, NEW c \in Calls, NEW k \in CallType, Shaped(k), Becomes(c, k), ClosesAs(c, k),
         period'[1] = period[1] \/ (Closes(c) /\ k.at = "done" /\ period'[1] = "closed"),
         carried' = carried \/ period[1] = "closed",
         k.at \in {"reconciling"} \cup Holding => period[1] = "closed",
         k.at \in Holding => Holds(c) \/ \A d \in Calls : ~Holds(d)
  PROVE  Books'
<1>1. call'[c] = k /\ \A d \in Calls : d # c => call'[d] = call[d] BY CallsTyped
<1>2. Before'
  <2>1. CASE period[1] = "closed"
    <3>1. ~Closes(c) BY <2>1 DEF Books, Closing
    <3> QED BY <2>1, <3>1 DEF Before
  <2>2. CASE period[1] # "closed"
    <3>1. Carried' = 0 BY <2>2 DEF Books, Before, Carried
    <3>2. \A d \in Calls : call'[d].at \notin {"reconciling", "locked", "targeted"}
      BY <1>1, <2>2 DEF Books, Before, Holding
    <3> QED BY <3>1, <3>2 DEF Before
  <2> QED BY <2>1, <2>2
<1>3. Closing'
  <2>1. \A d \in Calls : d # c => (Closes(d)' <=> Closes(d)) BY <1>1 DEF Closes
  <2>2. Closes(c)' => k.op = "close" /\ k.on = 1 /\ k.at \in Drafting BY <1>1 DEF Closes
  <2>3. ASSUME NEW d \in Calls, Closes(d)' PROVE period'[1] = "open"
    <3>1. CASE d = c
      BY <2>2, <2>3, <3>1 DEF ClosesAs, Books, Closing, Drafting
    <3>2. CASE d # c
      BY <2>1, <2>3, <3>2 DEF Books, Closing
    <3> QED BY <3>1, <3>2
  <2>4. ASSUME NEW d \in Calls, NEW e \in Calls, Closes(d)', Closes(e)' PROVE d = e
    BY <2>1, <2>2, <2>4 DEF ClosesAs, Books, Closing
  <2> QED BY <2>3, <2>4 DEF Closing
<1>4. OneHolder'
  <2>1. \A d \in Calls : d # c => (Holds(d)' <=> Holds(d)) BY <1>1 DEF Holds
  <2>2. Holds(c)' => k.at \in Holding BY <1>1 DEF Holds, Holding
  <2> QED BY <2>1, <2>2 DEF Books, OneHolder
<1> QED BY <1>2, <1>3, <1>4 DEF Books

\* A month that is closed, billed and as its last reconciliation left it.
Billed == period[1] = "closed" /\ invoice[1].status = "issued" /\ missed = {}

\* A step that changes nothing the bill depends on.
LEMMA AccountedKept ==
  ASSUME TypeInv, Accounted,
         Billed' =>
           /\ Billed /\ invoice'[1] = invoice[1] /\ carried' = carried
           /\ Live(lesson') = Live(lesson)
           /\ \A c \in Calls : Coming(c) => Coming(c)'
           /\ \A c \in Calls : Posting(c)' <=> Posting(c)
           /\ \A c \in Calls : Posting(c) => call'[c].sum = call[c].sum
  PROVE  Accounted'
<1> SUFFICES ASSUME Billed' PROVE (\E c \in Calls : Coming(c)') \/
      (/\ \A c \in Calls : Posting(c)' => invoice'[1].charge + Carried' + call'[c].sum = Live(lesson')
       /\ (\A c \in Calls : ~Posting(c)') => BillIsWhole')
  BY DEF Accounted, Billed
<1>1. Carried' = Carried BY DEF Carried
<1>2. BillIsWhole' <=> BillIsWhole BY <1>1 DEF BillIsWhole
<1>3. CASE \E c \in Calls : Coming(c) BY <1>3
<1>4. CASE ~\E c \in Calls : Coming(c)
  <2>1. /\ \A c \in Calls : Posting(c) => invoice[1].charge + Carried + call[c].sum = Live(lesson)
        /\ (\A c \in Calls : ~Posting(c)) => BillIsWhole
    BY <1>4 DEF Accounted, Billed
  <2> QED BY <1>1, <1>2, <2>1
<1> QED BY <1>3, <1>4

\* ... because c is busy with something else and the lessons that count stay.
LEMMA AccountedAside ==
  ASSUME TypeInv, Accounted, NEW c \in Calls, NEW k, Aside(c, k),
         Billed' =>
           /\ Billed /\ invoice'[1] = invoice[1] /\ carried' = carried
           /\ Live(lesson') = Live(lesson)
           /\ \A l \in Lessons : Counts(lesson'[l]) = Counts(lesson[l])
  PROVE  Accounted'
<1>1. call'[c] = k /\ \A d \in Calls : d # c => call'[d] = call[d] BY CallsTyped DEF Aside
<1>2. ~Coming(c) /\ ~Posting(c) /\ ~Posting(c)'
  BY <1>1 DEF Aside, Coming, Posting, Reconciling
<1>3. ASSUME Billed', NEW d \in Calls, Coming(d) PROVE Coming(d)'
  <2>1. d # c /\ call'[d] = call[d] BY <1>1, <1>2, <1>3
  <2>2. call[d].at = "confirmed" => call[d].on \in Lessons
    BY DEF TypeInv, Shapes, Shaped, Reconciling, LessonOps
  <2> QED BY <1>3, <2>1, <2>2 DEF Coming
<1>4. \A d \in Calls : (Posting(d)' <=> Posting(d)) /\ (Posting(d) => call'[d].sum = call[d].sum)
  BY <1>1, <1>2 DEF Posting
<1> QED BY <1>3, <1>4, AccountedKept
-----------------------------------------------------------------------------
(* The steps, one by one.                                                  *)

\* Types, from the rows a step writes and the request it moves.
LEMMA TypedStep ==
  ASSUME TypeInv, Rows', NEW c \in Calls, NEW k \in CallType, Shaped(k), Becomes(c, k)
  PROVE  TypeInv'
<1>1. call' \in [Calls -> CallType] /\ Shapes' BY CallsTyped
<1> QED BY <1>1 DEF TypeInv, TypeOK, Rows, CallType, InvoiceType, LessonType

LEMMA RowsStay == ASSUME Rows, UNCHANGED <<rows, missed>> PROVE Rows'
BY DEF Rows, rows

LEMMA PrepareStep ==
  ASSUME BillInv, NEW c \in Calls, Prepares(c)
  PROVE  BillInv'
<1>0. TypeInv /\ Books /\ Accounted BY DEF BillInv
<1>1. UNCHANGED <<rows, missed>> BY <1>0, PrepareAside
<1>2. PICK k : Aside(c, k) /\ ClosesAs(c, k) BY <1>0, PrepareAside
<1>3. TypeInv'
  BY <1>0, <1>1, <1>2, RowsStay, TypedStep, TypeOKIs DEF TypeInv, Aside
<1>4. Books'
  <2>1. k \in CallType /\ Shaped(k) /\ Becomes(c, k)
        /\ k.at \notin {"reconciling"} \cup Holding
    BY <1>2 DEF Aside, Reconciling, Holding
  <2>2. period' = period /\ carried' = carried BY <1>1 DEF rows
  <2> QED BY <1>0, <1>2, <2>1, <2>2, BooksKept
<1>5. Accounted'
  <2>1. lesson' = lesson /\ invoice' = invoice /\ carried' = carried /\ period' = period /\ missed' = missed
    BY <1>1 DEF rows
  <2> QED BY <1>0, <1>2, <2>1, AccountedAside DEF Billed
<1> QED BY <1>3, <1>4, <1>5 DEF BillInv

\* A write of one lesson that no reconciliation follows is noticed, or changes nothing
\* that counts.
LEMMA NoticedLessons ==
  ASSUME TypeInv, NEW l \in Lessons, NEW why, Unnoticed(lesson', why),
         \A m \in Lessons : m # l => lesson'[m] = lesson[m],
         UNCHANGED <<period, invoice, carried>>, Billed'
  PROVE  /\ Billed /\ Live(lesson') = Live(lesson)
         /\ \A m \in Lessons : Counts(lesson'[m]) = Counts(lesson[m])
<1>1. missed' = {} BY DEF Billed
<1>2. missed = {} /\ Live(lesson') = Live(lesson)
  BY <1>1 DEF Unnoticed, Billed
<1>3. Counts(lesson'[l]) = Counts(lesson[l]) BY <1>2, LiveByOne
<1> QED BY <1>2, <1>3 DEF Billed

LEMMA ScheduleStep ==
  ASSUME BillInv, NEW c \in Calls, UpdateStatus(c) \/ SoftDelete(c)
  PROVE  BillInv'
<1>0. TypeInv /\ Books /\ Accounted /\ Shaped(call[c]) BY DEF BillInv, TypeInv, Shapes
<1>1. call[c].at = "read" /\ call[c].op \in LessonOps /\ call[c].on \in Lessons
  BY <1>0 DEF UpdateStatus, SoftDelete, At, NewStatus, Shaped, LessonOps
<1>2. /\ Finish(c) /\ UNCHANGED <<enrolled, period, invoice, carried>>
      /\ Unnoticed(lesson', "rescheduled")
  BY DEF UpdateStatus, SoftDelete
<1>3. Becomes(c, Done) /\ Done \in CallType /\ Shaped(Done) /\ Done.at = "done" /\ Done.op = "none"
  BY <1>2, Finished, DoneIs
<1>4. /\ lesson' \in [Lessons -> LessonType]
      /\ \A l \in Lessons : lesson'[l].status = "cancelled" => ~lesson'[l].confirmed
      /\ \A m \in Lessons : m # call[c].on => lesson'[m] = lesson[m]
  <2>1. Rows BY <1>0, TypeOKIs DEF TypeInv
  <2>2. CASE SoftDelete(c)
    <3>1. lesson' = [lesson EXCEPT ![call[c].on].deleted = TRUE] BY <2>2 DEF SoftDelete
    <3>2. lesson' \in [Lessons -> LessonType] BY <1>1, <2>1, <3>1 DEF Rows, LessonType
    <3>3. \A l \in Lessons : /\ lesson'[l].status = lesson[l].status
                             /\ lesson'[l].confirmed = lesson[l].confirmed
      BY <1>1, <2>1, <3>1 DEF Rows, LessonType
    <3> QED BY <1>1, <2>1, <3>1, <3>2, <3>3 DEF Rows
  <2>3. CASE UpdateStatus(c) /\ Refused(c)
    BY <2>1, <2>3 DEF UpdateStatus, Rows
  <2>4. CASE UpdateStatus(c) /\ ~Refused(c)
    <3> DEFINE s == NewStatus[call[c].op]
    <3>1. s \in {"planned", "held", "cancelled"} /\ (s = "cancelled" => call[c].op = "cancel")
      BY <2>4 DEF UpdateStatus, NewStatus
    <3>2. lesson' = [lesson EXCEPT ![call[c].on].status = s] BY <2>4 DEF UpdateStatus
    <3>3. s = "cancelled" => ~lesson[call[c].on].confirmed BY <2>4, <3>1 DEF Refused
    <3> HIDE DEF s
    <3> QED BY <1>1, <2>1, <3>1, <3>2, <3>3 DEF Rows, LessonType
  <2> QED BY <2>2, <2>3, <2>4
<1>5. TypeInv'
  <2>1. missed' \subseteq {"rescheduled", "removed", "failed", "raced", "unlisted"}
    BY <1>0, <1>2, TypeOKIs DEF TypeInv, Rows, Unnoticed
  <2>2. Rows' BY <1>0, <1>2, <1>4, <2>1, TypeOKIs DEF TypeInv, Rows
  <2> QED BY <1>0, <1>3, <2>2, TypedStep
<1>6. Books'
  <2>1. ClosesAs(c, Done) /\ Done.at \notin {"reconciling"} \cup Holding
    BY <1>3 DEF ClosesAs, Holding
  <2> QED BY <1>0, <1>2, <1>3, <2>1, BooksKept
<1>7. Accounted'
  <2>1. Aside(c, Done) BY <1>1, <1>3 DEF Aside, Reconciling
  <2>2. Billed' => Billed /\ Live(lesson') = Live(lesson)
                   /\ \A m \in Lessons : Counts(lesson'[m]) = Counts(lesson[m])
    BY <1>0, <1>1, <1>2, <1>4, NoticedLessons
  <2> QED BY <1>0, <1>2, <2>1, <2>2, AccountedAside
<1> QED BY <1>5, <1>6, <1>7 DEF BillInv

LEMMA MarkStep ==
  ASSUME BillInv, NEW c \in Calls, MarkHeldAndConfirmed(c)
  PROVE  BillInv'
<1> DEFINE l == call[c].on
           new == [lesson EXCEPT ![l] = [@ EXCEPT !.status = "held", !.confirmed = TRUE,
                                                  !.record = call[c].known]]
           k == [call[c] EXCEPT !.at = "confirmed"]
<1>0. TypeInv /\ Books /\ Accounted /\ Shaped(call[c]) /\ call[c] \in CallType /\ Rows
  BY TypeOKIs DEF BillInv, TypeInv, Shapes
<1>1. /\ call[c].at = "read" /\ call[c].op = "confirm" /\ l \in Lessons
      /\ UNCHANGED <<enrolled, period, invoice, carried>>
  BY <1>0 DEF MarkHeldAndConfirmed, At, Shaped, LessonOps
<1>2. CASE lesson[l].deleted
  <2>1. Finish(c) /\ UNCHANGED <<rows, missed>>
    BY <1>1, <1>2 DEF MarkHeldAndConfirmed, rows
  <2>2. Becomes(c, Done) /\ Done \in CallType /\ Shaped(Done) /\ Done.at = "done" /\ Done.op = "none"
    BY <2>1, Finished, DoneIs
  <2>3. TypeInv' BY <1>0, <2>1, <2>2, RowsStay, TypedStep
  <2>4. Books'
    <3>1. ClosesAs(c, Done) /\ Done.at \notin {"reconciling"} \cup Holding
      BY <2>2 DEF ClosesAs, Holding
    <3> QED BY <1>0, <1>1, <2>2, <3>1, BooksKept
  <2>5. Accounted'
    <3>1. Aside(c, Done) BY <1>1, <2>2 DEF Aside, Reconciling
    <3>2. lesson' = lesson /\ invoice' = invoice /\ carried' = carried /\ period' = period /\ missed' = missed
      BY <2>1 DEF rows
    <3> QED BY <1>0, <3>1, <3>2, AccountedAside DEF Billed
  <2> QED BY <2>3, <2>4, <2>5 DEF BillInv
<1>3. CASE ~lesson[l].deleted
  <2>1. /\ lesson' = new /\ Goto(c, "confirmed")
        /\ IF call[c].known THEN UNCHANGED missed ELSE Unnoticed(new, "removed")
    BY <1>3 DEF MarkHeldAndConfirmed
  <2>2. Becomes(c, k) /\ k \in CallType /\ k.at = "confirmed" /\ k.op = "confirm" /\ k.on = l
    BY <1>0, <1>1, <2>1, Moved
  <2>3. call[c].known \in BOOLEAN BY <1>0 DEF CallType
  <2>4. /\ lesson' \in [Lessons -> LessonType]
        /\ lesson'[l].status = "held" /\ lesson'[l].confirmed /\ lesson'[l].record = call[c].known
        /\ lesson'[l].deleted = lesson[l].deleted
        /\ \A m \in Lessons : m # l => lesson'[m] = lesson[m]
    <3> DEFINE x == [lesson[l] EXCEPT !.status = "held", !.confirmed = TRUE, !.record = call[c].known]
    <3>1. lesson[l] \in LessonType BY <1>0, <1>1 DEF Rows
    <3>2. x \in LessonType /\ x.status = "held" /\ x.confirmed /\ x.record = call[c].known
          /\ x.deleted = lesson[l].deleted
      BY <2>3, <3>1 DEF LessonType
    <3>3. lesson' = [lesson EXCEPT ![l] = x] BY <2>1
    <3> HIDE DEF x, new, l
    <3> QED BY <1>0, <1>1, <3>2, <3>3 DEF Rows
  <2> HIDE DEF new, k, l
  <2>5. Shaped(k)
    BY <1>1, <2>2 DEF Shaped, LessonOps, PeriodOps, Reconciling, Drafting
  <2>6. TypeInv'
    <3>1. missed' \subseteq {"rescheduled", "removed", "failed", "raced", "unlisted"}
      BY <1>0, <2>1 DEF Rows, Unnoticed
    <3>2. Rows' BY <1>0, <1>1, <2>4, <3>1 DEF Rows
    <3> QED BY <1>0, <2>2, <2>5, <3>2, TypedStep
  <2>7. Books'
    <3>1. ClosesAs(c, k) /\ k.at \notin {"reconciling"} \cup Holding
      BY <2>2 DEF ClosesAs, Holding
    <3> QED BY <1>0, <1>1, <2>2, <2>5, <3>1, BooksKept
  <2>8. call'[c] = k /\ \A d \in Calls : d # c => call'[d] = call[d]
    BY <1>0, <2>2, <2>5, CallsTyped
  <2>9. Accounted'
    <3>1. CASE call[c].known
      <4>1. Coming(c)' BY <1>3, <2>2, <2>4, <2>8, <3>1 DEF Coming, Counts
      <4> QED BY <4>1 DEF Accounted
    <3>2. CASE ~call[c].known
      <4>1. Unnoticed(lesson', "removed") BY <2>1, <3>2
      <4>2. ASSUME Billed'
            PROVE  /\ Billed /\ Live(lesson') = Live(lesson)
                   /\ \A m \in Lessons : Counts(lesson'[m]) = Counts(lesson[m])
        BY <1>0, <1>1, <2>4, <4>1, <4>2, NoticedLessons
      <4>3. ASSUME Billed', NEW d \in Calls, Coming(d) PROVE Coming(d)'
        <5>1. d # c BY <1>1, <4>3 DEF Coming
        <5>2. call[d].at = "confirmed" => call[d].on \in Lessons
          BY <1>0 DEF TypeInv, Shapes, Shaped, Reconciling, LessonOps
        <5> QED BY <2>8, <4>2, <4>3, <5>1, <5>2 DEF Coming
      <4>4. ~Posting(c) /\ ~Posting(c)' BY <1>1, <2>2, <2>8 DEF Posting
      <4>5. \A d \in Calls : (Posting(d)' <=> Posting(d)) /\ (Posting(d) => call'[d].sum = call[d].sum)
        BY <2>8, <4>4 DEF Posting
      <4> QED BY <1>0, <1>1, <4>2, <4>3, <4>5, AccountedKept
    <3> QED BY <3>1, <3>2
  <2> QED BY <2>6, <2>7, <2>9 DEF BillInv
<1> QED BY <1>2, <1>3

DraftedTyped(c) == Drafted(c) \in InvoiceType /\ Drafted(c).status = "draft"

LEMMA DraftedIs ==
  ASSUME Rows, NEW c \in Calls, call[c] \in CallType, call[c].on \in Periods
  PROVE  DraftedTyped(c)
<1> DEFINE k == call[c]
           adjustments == IF k.status = "none" THEN 0 ELSE k.sum
           line == k.tally > 0 \/ invoice[k.on].line
<1>1. k.opening \in Int /\ k.tally \in Nat /\ k.sum \in Int BY DEF CallType
<1>2. line \in BOOLEAN OBVIOUS
<1>3. adjustments \in Int BY <1>1
<1>4. Drafted(c) = [status |-> "draft", opening |-> k.opening, charge |-> k.tally,
                    adjustments |-> adjustments, line |-> line]
  BY DEF Drafted
<1> HIDE DEF k, adjustments, line
<1> QED BY <1>1, <1>2, <1>3, <1>4 DEF DraftedTyped, InvoiceType

LEMMA DraftStep ==
  ASSUME BillInv, NEW c \in Calls, CommitDraft(c)
  PROVE  BillInv' /\ (invoice[1].status = "issued" => invoice'[1] = invoice[1])
<1>0. TypeInv /\ Books /\ Accounted /\ Shaped(call[c]) /\ call[c] \in CallType /\ Rows
  BY TypeOKIs DEF BillInv, TypeInv, Shapes
<1>1. /\ call[c].at = "checked" /\ call[c].op = "draft" /\ call[c].on \in Periods
      /\ Finish(c) /\ UNCHANGED <<lesson, enrolled, period, carried, missed>>
  BY <1>0 DEF CommitDraft, At, Shaped, PeriodOps
<1>2. Becomes(c, Done) /\ Done \in CallType /\ Shaped(Done) /\ Done.at = "done" /\ Done.op = "none"
  BY <1>1, Finished, DoneIs
<1>3. Drafted(c) \in InvoiceType /\ Drafted(c).status = "draft"
  <2>1. DraftedTyped(c) BY <1>0, <1>1, DraftedIs
  <2> QED BY <2>1 DEF DraftedTyped
<1>4. /\ invoice' \in [Periods -> InvoiceType]
      /\ invoice[1].status = "issued" => invoice'[1] = invoice[1]
      /\ invoice'[1].status = "issued" => invoice'[1] = invoice[1]
  <2>1. invoice' = invoice \/ (Overwrites(c) /\ invoice' = [invoice EXCEPT ![call[c].on] = Drafted(c)])
    BY DEF CommitDraft
  <2>2. 1 \in Periods BY DEF Periods
  <2> QED BY <1>0, <1>1, <1>3, <2>1, <2>2 DEF Rows, Overwrites
<1>5. TypeInv'
  <2>1. Rows' BY <1>0, <1>1, <1>4 DEF Rows
  <2> QED BY <1>0, <1>2, <2>1, TypedStep
<1>6. Books'
  <2>1. ClosesAs(c, Done) /\ Done.at \notin {"reconciling"} \cup Holding
    BY <1>2 DEF ClosesAs, Holding
  <2> QED BY <1>0, <1>1, <1>2, <2>1, BooksKept
<1>7. Accounted'
  <2>1. Aside(c, Done) BY <1>1, <1>2 DEF Aside, Reconciling
  <2> QED BY <1>0, <1>1, <1>4, <2>1, AccountedAside DEF Billed
<1> QED BY <1>4, <1>5, <1>6, <1>7 DEF BillInv

LEMMA CloseStep ==
  ASSUME BillInv, NEW c \in Calls, CommitClose(c)
  PROVE  BillInv'
<1> DEFINE p == call[c].on
           drafted == IF call[c].known THEN Drafted(c) ELSE invoice[p]
<1>0. TypeInv /\ Books /\ Accounted /\ Shaped(call[c]) /\ call[c] \in CallType /\ Rows
  BY TypeOKIs DEF BillInv, TypeInv, Shapes
<1>1. /\ call[c].at = "checked" /\ call[c].op = "close" /\ p \in Periods
      /\ Finish(c) /\ UNCHANGED <<lesson, enrolled, carried>>
  BY <1>0 DEF CommitClose, At, Shaped, PeriodOps
<1>2. Becomes(c, Done) /\ Done \in CallType /\ Shaped(Done) /\ Done.at = "done" /\ Done.op = "none"
  BY <1>1, Finished, DoneIs
<1>3. Aside(c, Done) /\ ClosesAs(c, Done) /\ Done.at \notin {"reconciling"} \cup Holding
  BY <1>1, <1>2 DEF Aside, ClosesAs, Reconciling, Holding
<1>4. CASE call[c].known /\ ~Overwrites(c)
  <2>1. UNCHANGED <<rows, missed>> BY <1>1, <1>4 DEF CommitClose, rows
  <2>2. TypeInv' BY <1>0, <1>2, <2>1, RowsStay, TypedStep
  <2>3. lesson' = lesson /\ invoice' = invoice /\ carried' = carried /\ period' = period /\ missed' = missed
    BY <2>1 DEF rows
  <2>4. Books' BY <1>0, <1>2, <1>3, <2>3, BooksKept
  <2>5. Accounted' BY <1>0, <1>3, <2>3, AccountedAside DEF Billed
  <2> QED BY <2>2, <2>4, <2>5 DEF BillInv
<1>5. CASE ~(call[c].known /\ ~Overwrites(c))
  <2>1. /\ invoice' = [invoice EXCEPT ![p] = Settled(drafted)]
        /\ period' = [period EXCEPT ![p] = "closed"]
        /\ missed' = missed \cup {w \in {"raced"} : p = 1 /\ Live(lesson) # invoice'[1].charge}
    BY <1>5 DEF CommitClose
  <2>2. drafted \in InvoiceType
    BY <1>0, <1>1, DraftedIs DEF DraftedTyped, Rows
  <2>3. Settled(drafted) \in InvoiceType BY <2>2 DEF Settled, InvoiceType
  <2> HIDE DEF drafted
  <2>4. TypeInv'
    <3>1. missed' \subseteq {"rescheduled", "removed", "failed", "raced", "unlisted"}
      BY <1>0, <2>1 DEF Rows
    <3>2. Rows' BY <1>0, <1>1, <2>1, <2>3, <3>1 DEF Rows
    <3> QED BY <1>0, <1>2, <3>2, TypedStep
  <2>5. p = 1 => Closes(c) /\ period'[1] = "closed"
    BY <1>0, <1>1, <2>1 DEF Closes, Drafting, Rows
  <2>6. p # 1 => period'[1] = period[1] /\ invoice'[1] = invoice[1]
    BY <1>0, <1>1, <2>1 DEF Rows, Periods
  <2>7. Books'
    <3>1. period'[1] = period[1] \/ (Closes(c) /\ Done.at = "done" /\ period'[1] = "closed")
      BY <1>2, <2>5, <2>6
    <3> QED BY <1>0, <1>1, <1>2, <1>3, <3>1, BooksKept
  <2>8. CASE p # 1
    <3>1. missed' = {} => missed = {} BY <2>1
    <3>2. Accounted' BY <1>0, <1>1, <1>3, <2>6, <2>8, <3>1, AccountedAside DEF Billed
    <3> QED BY <2>4, <2>7, <3>2 DEF BillInv
  <2>9. CASE p = 1
    <3>1. period[1] = "open" BY <1>0, <2>5, <2>9 DEF Books, Closing
    <3>2. Carried = 0 /\ \A d \in Calls : ~Posting(d)
      BY <1>0, <3>1 DEF Books, Before, Posting
    <3>3. Carried' = 0 BY <1>1, <3>2 DEF Carried
    <3>4. \A d \in Calls : ~Posting(d)'
      <4>1. call'[c] = Done /\ \A d \in Calls : d # c => call'[d] = call[d]
        BY <1>0, <1>2, CallsTyped
      <4> QED BY <1>2, <3>2, <4>1 DEF Posting
    <3>5. Billed' => BillIsWhole'
      <4>1. SUFFICES ASSUME Billed' PROVE invoice'[1].charge + Carried' = Live(lesson')
        BY DEF BillIsWhole
      <4>2. Live(lesson) = invoice'[1].charge BY <2>1, <2>9, <4>1 DEF Billed
      <4> QED BY <1>1, <3>3, <4>2, LiveIsNat
    <3>6. Accounted' BY <3>4, <3>5 DEF Accounted, Billed
    <3> QED BY <2>4, <2>7, <3>6 DEF BillInv
  <2> QED BY <2>8, <2>9
<1> QED BY <1>4, <1>5

\* Reconcile: a record that counts is there to be found.
LEMMA ReconcileStep ==
  ASSUME BillInv, NEW c \in Calls, Reconcile(c)
  PROVE  BillInv'
<1>0. TypeInv /\ Books /\ Accounted /\ Shaped(call[c]) /\ call[c] \in CallType /\ Rows
  BY TypeOKIs DEF BillInv, TypeInv, Shapes
<1>1. /\ call[c].at = "confirmed" /\ call[c].op = "confirm" /\ UNCHANGED <<rows, missed>>
      /\ call[c].on \in Lessons
  BY <1>0 DEF Reconcile, At, Shaped, LessonOps
<1>2. lesson' = lesson /\ invoice' = invoice /\ carried' = carried /\ period' = period /\ missed' = missed
  BY <1>1 DEF rows
<1>3. Rows' BY <1>0, <1>1, RowsStay
<1>4. PICK k \in CallType : Shaped(k) /\ Becomes(c, k) /\ k.at \in {"reconciling", "done"}
                            /\ k.op \in {"confirm", "none"}
                            /\ (k.at = "reconciling" => period[1] = "closed")
                            /\ (Coming(c) /\ period[1] = "closed" => k.at = "reconciling")
  <2>1. CASE Finish(c) /\ (lesson[call[c].on].deleted \/ ~lesson[call[c].on].record \/ period[1] # "closed")
    <3>1. Becomes(c, Done) /\ Done \in CallType /\ Shaped(Done) /\ Done.at = "done" /\ Done.op = "none"
      BY <2>1, Finished, DoneIs
    <3>2. Coming(c) => period[1] # "closed" BY <1>1, <2>1 DEF Coming, Counts
    <3> QED BY <3>1, <3>2
  <2>2. CASE Goto(c, "reconciling") /\ period[1] = "closed"
    <3> DEFINE k == [call[c] EXCEPT !.at = "reconciling"]
    <3>1. Becomes(c, k) /\ k \in CallType /\ k.at = "reconciling" /\ k.op = "confirm"
      BY <1>0, <1>1, <2>2, Moved
    <3> HIDE DEF k
    <3>2. Shaped(k) BY <3>1 DEF Shaped, PeriodOps, Reconciling, Drafting
    <3> QED BY <2>2, <3>1, <3>2
  <2> QED BY <2>1, <2>2 DEF Reconcile
<1>5. TypeInv' BY <1>0, <1>3, <1>4, TypedStep
<1>6. Books'
  <2>1. ClosesAs(c, k) /\ k.at \notin Holding BY <1>4 DEF ClosesAs, Holding
  <2> QED BY <1>0, <1>2, <1>4, <2>1, BooksKept
<1>7. Accounted'
  <2>1. call'[c] = k /\ \A d \in Calls : d # c => call'[d] = call[d] BY <1>0, <1>4, CallsTyped
  <2>2. ASSUME Billed', NEW d \in Calls, Coming(d) PROVE Coming(d)'
    BY <1>2, <1>4, <2>1, <2>2 DEF Coming, Billed
  <2>3. ~Posting(c) /\ ~Posting(c)' BY <1>1, <1>4, <2>1 DEF Posting
  <2>4. \A d \in Calls : (Posting(d)' <=> Posting(d)) /\ (Posting(d) => call'[d].sum = call[d].sum)
    BY <2>1, <2>3 DEF Posting
  <2> QED BY <1>0, <1>2, <2>2, <2>4, AccountedKept DEF Billed
<1> QED BY <1>5, <1>6, <1>7 DEF BillInv

\* A reconciliation that ends here, whether it failed or had nothing to carry.
LEMMA Ended ==
  ASSUME BillInv, NEW c \in Calls, Finish(c), UNCHANGED rows,
         missed' \subseteq {"rescheduled", "removed", "failed", "raced", "unlisted"}
  PROVE  TypeInv' /\ Books' /\ call'[c] = Done /\ \A d \in Calls : d # c => call'[d] = call[d]
<1>0. TypeInv /\ Books /\ Rows BY TypeOKIs DEF BillInv, TypeInv
<1>1. Becomes(c, Done) /\ Done \in CallType /\ Shaped(Done) /\ Done.at = "done" /\ Done.op = "none"
  BY Finished, DoneIs
<1>2. carried' = carried /\ period' = period /\ Rows' BY <1>0 DEF rows, Rows
<1>3. TypeInv' BY <1>0, <1>1, <1>2, TypedStep
<1>4. ClosesAs(c, Done) /\ Done.at \notin {"reconciling"} \cup Holding
  BY <1>1 DEF ClosesAs, Holding
<1>5. Books' BY <1>0, <1>1, <1>2, <1>4, BooksKept
<1> QED BY <1>0, <1>1, <1>3, <1>5, CallsTyped

LEMMA FailStep ==
  ASSUME BillInv, NEW c \in Calls, ReconcileFails(c)
  PROVE  BillInv'
<1>0. TypeInv /\ Books /\ Accounted /\ Rows BY TypeOKIs DEF BillInv, TypeInv
<1>1. /\ call[c].at \in Reconciling /\ Finish(c) /\ UNCHANGED rows
      /\ missed' = missed \cup {w \in {"failed"} : period[1] = "closed"}
  BY DEF ReconcileFails, Reconciling
<1>2. missed' \subseteq {"rescheduled", "removed", "failed", "raced", "unlisted"}
  BY <1>0, <1>1 DEF Rows
<1>3. TypeInv' /\ Books' BY <1>1, <1>2, Ended
<1>4. Accounted'
  <2>1. period' = period BY <1>1 DEF rows
  <2>2. period[1] = "closed" => "failed" \in missed' BY <1>1
  <2> QED BY <2>1, <2>2 DEF Accounted
<1> QED BY <1>3, <1>4 DEF BillInv

LEMMA LockStep ==
  ASSUME BillInv, NEW c \in Calls, LockInvoice(c)
  PROVE  BillInv'
<1>0. TypeInv /\ Books /\ Accounted /\ Rows /\ Shaped(call[c])
  BY TypeOKIs DEF BillInv, TypeInv, Shapes
<1>1. /\ call[c].at = "reconciling" /\ InvoiceFree /\ UNCHANGED <<rows, missed>>
      /\ call[c].op = "confirm"
  BY <1>0 DEF LockInvoice, Shaped, Reconciling
<1>2. lesson' = lesson /\ invoice' = invoice /\ carried' = carried /\ period' = period /\ missed' = missed
  BY <1>1 DEF rows
<1>3. CASE invoice[1].status \in {"none", "void"}
  <2>1. Finish(c) BY <1>3 DEF LockInvoice
  <2>2. TypeInv' /\ Books' BY <1>0, <1>1, <1>2, <2>1, Ended DEF Rows
  <2>3. Accounted' BY <1>2, <1>3 DEF Accounted
  <2> QED BY <2>2, <2>3 DEF BillInv
<1>4. CASE invoice[1].status \notin {"none", "void"}
  <2> DEFINE k == [call[c] EXCEPT !.at = "locked"]
  <2>1. Goto(c, "locked") BY <1>4 DEF LockInvoice
  <2>2. Becomes(c, k) /\ k \in CallType /\ k.at = "locked" /\ k.op = "confirm"
    BY <1>0, <1>1, <2>1, Moved
  <2> HIDE DEF k
  <2>3. Shaped(k) BY <2>2 DEF Shaped, PeriodOps, Reconciling, Drafting
  <2>4. TypeInv'
    <3>1. Rows' BY <1>0, <1>1, RowsStay
    <3> QED BY <1>0, <2>2, <2>3, <3>1, TypedStep
  <2>5. Books'
    <3>1. ClosesAs(c, k) BY <2>2 DEF ClosesAs
    <3>2. \A d \in Calls : ~Holds(d) BY <1>1 DEF InvoiceFree, Holds
    <3>3. period[1] = "closed" BY <1>0, <1>1 DEF Books, Before
    <3> QED BY <1>0, <1>2, <2>2, <2>3, <3>1, <3>2, <3>3, BooksKept
  <2>6. call'[c] = k BY <1>0, <2>2, <2>3, CallsTyped
  <2>7. Coming(c)' BY <2>2, <2>6 DEF Coming
  <2>8. Accounted' BY <2>7 DEF Accounted
  <2> QED BY <2>4, <2>5, <2>8 DEF BillInv
<1> QED BY <1>3, <1>4

\* The delta is what the bill lacks, and nobody else has one to post.
LEMMA ResolveStep ==
  ASSUME BillInv, NEW c \in Calls, ResolveDelta(c)
  PROVE  BillInv'
<1> DEFINE delta == LiveCharge(c) - invoice[1].charge - Carried
           k == [call[c] EXCEPT !.at = "targeted", !.sum = delta, !.on = Target,
                                !.known = invoice[Target].status # "none"]
<1>0. TypeInv /\ Books /\ Accounted /\ Rows /\ Shaped(call[c]) /\ call[c] \in CallType
  BY TypeOKIs DEF BillInv, TypeInv, Shapes
<1>1. /\ call[c].at = "locked" /\ UNCHANGED rows /\ call[c].op = "confirm"
      /\ missed' = IF LiveCharge(c) = Live(lesson) THEN {} ELSE missed \cup {"unlisted"}
  BY <1>0 DEF ResolveDelta, Shaped, Reconciling
<1>2. lesson' = lesson /\ enrolled' = enrolled /\ invoice' = invoice /\ carried' = carried /\ period' = period
  BY <1>1 DEF rows
<1>3. missed' \subseteq {"rescheduled", "removed", "failed", "raced", "unlisted"}
  BY <1>0, <1>1 DEF Rows
<1>4. Billed' => LiveCharge(c) = Live(lesson) BY <1>1 DEF Billed
<1>5. invoice[1].charge \in Int /\ Carried \in Int /\ Live(lesson) \in Int /\ LiveCharge(c) \in Int
  <2>1. invoice[1].charge \in Int BY <1>0 DEF Rows, InvoiceType, Periods
  <2>2. Carried \in Int BY <1>0 DEF Rows, Carried, Periods
  <2> QED BY <2>1, <2>2, LiveIsNat DEF LiveCharge
<1>6. \A d \in Calls : d # c => ~Holds(d)
  BY <1>0, <1>1 DEF Books, OneHolder, Holds
<1>7. CASE delta = 0
  <2>1. Finish(c) BY <1>7 DEF ResolveDelta
  <2>2. /\ TypeInv' /\ Books' /\ call'[c] = Done
        /\ \A d \in Calls : d # c => call'[d] = call[d]
    BY <1>1, <1>3, <2>1, Ended
  <2>3. \A d \in Calls : ~Posting(d)'
    BY <1>6, <2>2, DoneIs DEF Holds, Posting
  <2>4. Billed' => BillIsWhole'
    <3>1. SUFFICES ASSUME Billed' PROVE invoice[1].charge + Carried = Live(lesson)
      BY <1>2 DEF BillIsWhole, Carried
    <3>2. delta = 0 /\ LiveCharge(c) = Live(lesson) BY <1>4, <1>7, <3>1
    <3> QED BY <1>5, <3>2
  <2>5. Accounted' BY <2>3, <2>4 DEF Accounted, Billed
  <2> QED BY <2>2, <2>5 DEF BillInv
<1>8. CASE delta # 0
  <2>1. Becomes(c, k) BY <1>8 DEF ResolveDelta, Becomes
  <2>2. delta \in Int BY <1>5
  <2>3. Target \in {2, 3}
    <3> DEFINE open == {p \in {2, 3} : period[p] = "open"}
    <3>1. CASE open # {}
      <4>1. \E p \in open : \A q \in open : p <= q
        <5>1. CASE 2 \in open BY <5>1
        <5>2. CASE 2 \notin open BY <3>1, <5>2
        <5> QED BY <5>1, <5>2
      <4> QED BY <3>1, <4>1 DEF Target
    <3>2. CASE open = {} BY <3>2 DEF Target
    <3> QED BY <3>1, <3>2
  <2>4. (invoice[Target].status # "none") \in BOOLEAN OBVIOUS
  <2> HIDE DEF delta
  <2>5. k \in CallType /\ k.at = "targeted" /\ k.op = "confirm" /\ k.on \in {2, 3} /\ k.sum = delta
    <3> DEFINE t == Target
               b == invoice[Target].status # "none"
    <3>1. t \in {2, 3} /\ t \in Lessons \cup Periods \cup {0} /\ b \in BOOLEAN BY <2>3, <2>4 DEF Periods
    <3> HIDE DEF t, b
    <3>2. k = [call[c] EXCEPT !.at = "targeted", !.sum = delta, !.on = t, !.known = b] BY DEF t, b
    <3> HIDE DEF k
    <3> QED BY <1>0, <1>1, <2>2, <3>1, <3>2 DEF CallType
  <2> HIDE DEF k
  <2>6. Shaped(k) BY <2>5 DEF Shaped, PeriodOps, LessonOps, Reconciling, Drafting
  <2>7. Rows' BY <1>0, <1>2, <1>3 DEF Rows
  <2>8. TypeInv' BY <1>0, <2>1, <2>5, <2>6, <2>7, TypedStep
  <2>9. Books'
    <3>1. ClosesAs(c, k) BY <2>5 DEF ClosesAs
    <3>2. Holds(c) BY <1>1 DEF Holds
    <3>3. period[1] = "closed" BY <1>0, <1>1 DEF Books, Before
    <3> QED BY <1>0, <1>2, <2>1, <2>5, <2>6, <3>1, <3>2, <3>3, BooksKept
  <2>10. call'[c] = k /\ \A d \in Calls : d # c => call'[d] = call[d]
    BY <1>0, <2>1, <2>5, <2>6, CallsTyped
  <2>11. Posting(c)' /\ \A d \in Calls : d # c => ~Posting(d)'
    BY <1>6, <2>5, <2>10 DEF Holds, Posting
  <2>12. Billed' => invoice'[1].charge + Carried' + call'[c].sum = Live(lesson')
    <3>1. SUFFICES ASSUME Billed' PROVE invoice[1].charge + Carried + delta = Live(lesson)
      BY <1>2, <2>5, <2>10 DEF Carried
    <3> QED BY <1>4, <1>5, <3>1 DEF delta
  <2>13. Accounted' BY <2>11, <2>12 DEF Accounted, Billed
  <2> QED BY <2>8, <2>9, <2>13 DEF BillInv
<1> QED BY <1>7, <1>8

\* What is posted is what the one who holds the invoice computed.
LEMMA PostStep ==
  ASSUME BillInv, NEW c \in Calls, PostAdjustment(c)
  PROVE  BillInv'
<1> DEFINE q == call[c].on
           inv == [TargetInvoice(c) EXCEPT !.adjustments = carried'[q]]
<1>0. TypeInv /\ Books /\ Accounted /\ Rows /\ Shaped(call[c]) /\ call[c] \in CallType
  BY TypeOKIs DEF BillInv, TypeInv, Shapes
<1>1. /\ call[c].at = "targeted" /\ q \in {2, 3} /\ Finish(c)
      /\ UNCHANGED <<lesson, enrolled, missed>>
      /\ period' = [period EXCEPT ![q] = IF @ = "none" THEN "open" ELSE @]
      /\ carried' = [carried EXCEPT ![q] = @ + call[c].sum]
      /\ invoice' = [invoice EXCEPT ![q] = inv]
  BY <1>0 DEF PostAdjustment, Shaped
<1>2. call[c].sum \in Int BY <1>0 DEF CallType
<1>3. q \in Periods /\ q # 1 BY <1>1 DEF Periods
<1>4. carried' \in [Periods -> Int] BY <1>0, <1>1, <1>2, <1>3 DEF Rows
<1>5. TargetInvoice(c) \in InvoiceType
  <2> DEFINE old   == invoice[q]
             empty == [NoInvoice EXCEPT !.status = "draft", !.line = old.line]
  <2>1. old \in InvoiceType BY <1>0, <1>3 DEF Rows
  <2>2. empty \in InvoiceType
    <3>1. NoInvoice \in InvoiceType BY DEF NoInvoice, InvoiceType
    <3>2. old.line \in BOOLEAN BY <2>1 DEF InvoiceType
    <3> HIDE DEF old
    <3> QED BY <3>1, <3>2 DEF InvoiceType
  <2>3. TargetInvoice(c) = old \/ TargetInvoice(c) = empty BY DEF TargetInvoice
  <2> HIDE DEF old, empty
  <2> QED BY <2>1, <2>2, <2>3
<1>6. inv \in InvoiceType BY <1>3, <1>4, <1>5 DEF InvoiceType
<1> HIDE DEF inv
<1>7. Becomes(c, Done) /\ Done \in CallType /\ Shaped(Done) /\ Done.at = "done" /\ Done.op = "none"
  BY <1>1, Finished, DoneIs
<1>8. TypeInv'
  <2>1. Rows' BY <1>0, <1>1, <1>3, <1>4, <1>6 DEF Rows
  <2> QED BY <1>0, <1>7, <2>1, TypedStep
<1>9. period'[1] = period[1] /\ invoice'[1] = invoice[1]
  BY <1>0, <1>1, <1>3 DEF Rows, Periods
<1>10. Books'
  <2>1. ClosesAs(c, Done) /\ Done.at \notin {"reconciling"} \cup Holding
    BY <1>7 DEF ClosesAs, Holding
  <2>2. period[1] = "closed" BY <1>0, <1>1 DEF Books, Before
  <2> QED BY <1>0, <1>7, <1>9, <2>1, <2>2, BooksKept
<1>11. call'[c] = Done /\ \A d \in Calls : d # c => call'[d] = call[d]
  BY <1>0, <1>7, CallsTyped
<1>12. \A d \in Calls : ~Posting(d)'
  BY <1>0, <1>1, <1>7, <1>11 DEF Books, OneHolder, Holds, Posting
<1>13. Carried' = Carried + call[c].sum
  <2>1. carried[1] \in Int /\ carried[2] \in Int /\ carried[3] \in Int
    BY <1>0 DEF Rows, Periods
  <2>2. CASE q = 2
    <3>1. carried'[1] = carried[1] /\ carried'[2] = carried[2] + call[c].sum /\ carried'[3] = carried[3]
      BY <1>0, <1>1, <2>2 DEF Rows, Periods
    <3> QED BY <1>2, <2>1, <3>1 DEF Carried
  <2>3. CASE q = 3
    <3>1. carried'[1] = carried[1] /\ carried'[2] = carried[2] /\ carried'[3] = carried[3] + call[c].sum
      BY <1>0, <1>1, <2>3 DEF Rows, Periods
    <3> QED BY <1>2, <2>1, <3>1 DEF Carried
  <2> QED BY <1>1, <2>2, <2>3
<1>14. Accounted'
  <2>1. SUFFICES ASSUME Billed', \A d \in Calls : ~Coming(d)'
        PROVE BillIsWhole'
    BY <1>12 DEF Accounted, Billed
  <2>2. Billed BY <1>1, <1>9, <2>1 DEF Billed
  <2>3. ASSUME NEW d \in Calls, Coming(d) PROVE FALSE
    <3>1. d # c BY <1>1, <2>3 DEF Coming
    <3> QED BY <1>1, <1>11, <2>1, <2>3, <3>1 DEF Coming
  <2>4. invoice[1].charge + Carried + call[c].sum = Live(lesson)
    BY <1>0, <1>1, <2>2, <2>3 DEF Accounted, Billed, Posting
  <2>5. invoice[1].charge \in Int /\ Carried \in Int
    BY <1>0 DEF Rows, InvoiceType, Periods, Carried
  <2> QED BY <1>1, <1>2, <1>9, <1>13, <2>4, <2>5 DEF BillIsWhole
<1> QED BY <1>8, <1>10, <1>14 DEF BillInv

\* What happens beside the requests.
LEMMA ElsewhereStep ==
  ASSUME BillInv, \/ \E l \in Lessons : MoveEnrolment(l)
                  \/ \E p \in Periods : EnsurePeriod(p) \/ VoidInvoice(p)
  PROVE  BillInv'
<1>0. TypeInv /\ Books /\ Accounted /\ Rows /\ call \in [Calls -> CallType]
  BY TypeOKIs DEF BillInv, TypeInv
<1>1. call' = call /\ lesson' = lesson /\ carried' = carried /\ missed' = missed
  BY DEF MoveEnrolment, EnsurePeriod, VoidInvoice
<1>2. /\ enrolled' \in [Lessons -> BOOLEAN]
      /\ period' \in [Periods -> {"none", "open", "closed"}]
      /\ period[1] \in {"open", "closed"} => period'[1] = period[1]
      /\ period[1] = "none" => period'[1] # "closed"
      /\ invoice' \in [Periods -> InvoiceType]
      /\ invoice'[1].status = "issued" => invoice'[1] = invoice[1]
  <2>1. CASE \E l \in Lessons : MoveEnrolment(l)
    BY <1>0, <2>1 DEF MoveEnrolment, Rows, Periods
  <2>2. ASSUME NEW p \in Periods, EnsurePeriod(p)
        PROVE  /\ enrolled' = enrolled /\ invoice' = invoice
               /\ period' \in [Periods -> {"none", "open", "closed"}]
               /\ period[1] \in {"open", "closed"} => period'[1] = period[1]
               /\ period[1] = "none" => period'[1] # "closed"
    BY <1>0, <2>2 DEF EnsurePeriod, Rows, Periods
  <2>3. ASSUME NEW p \in Periods, VoidInvoice(p)
        PROVE  /\ enrolled' = enrolled /\ period' = period
               /\ invoice' \in [Periods -> InvoiceType]
               /\ invoice'[1].status = "issued" => invoice'[1] = invoice[1]
    <3>1. invoice[p] \in InvoiceType BY <1>0, <2>3 DEF Rows
    <3>2. [invoice[p] EXCEPT !.status = "void"] \in InvoiceType BY <3>1 DEF InvoiceType
    <3>3. invoice' = [invoice EXCEPT ![p] = [invoice[p] EXCEPT !.status = "void"]]
      BY <2>3 DEF VoidInvoice
    <3>4. [invoice[p] EXCEPT !.status = "void"].status = "void" BY <3>1 DEF InvoiceType
    <3> QED BY <1>0, <2>3, <3>2, <3>3, <3>4 DEF VoidInvoice, Rows, Periods
  <2> QED BY <1>0, <2>1, <2>2, <2>3 DEF Rows
<1>3. Rows' BY <1>0, <1>1, <1>2 DEF Rows
<1>4. TypeInv'
  <2>1. TypeOK' BY <1>0, <1>1, <1>3 DEF TypeOK, Rows, CallType, InvoiceType, LessonType
  <2>2. Shapes' BY <1>0, <1>1 DEF TypeInv, Shapes, Shaped
  <2> QED BY <2>1, <2>2 DEF TypeInv
<1>5. period[1] \in {"none", "open", "closed"} BY <1>0 DEF Rows, Periods
<1>6. Books'
  <2>1. Before' BY <1>0, <1>1, <1>2, <1>5 DEF Books, Before, Carried
  <2>2. Closing' BY <1>0, <1>1, <1>2 DEF Books, Closing, Closes
  <2>3. OneHolder' BY <1>0, <1>1 DEF Books, OneHolder, Holds
  <2> QED BY <2>1, <2>2, <2>3 DEF Books
<1>7. Accounted'
  <2>1. Billed' => Billed /\ invoice'[1] = invoice[1] BY <1>1, <1>2, <1>5 DEF Billed
  <2>2. \A c \in Calls : (Coming(c) => Coming(c)') /\ (Posting(c)' <=> Posting(c))
    BY <1>1 DEF Coming, Posting
  <2> QED BY <1>0, <1>1, <2>1, <2>2, AccountedKept
<1> QED BY <1>4, <1>6, <1>7 DEF BillInv

LEMMA StutterStep == ASSUME BillInv, UNCHANGED vars PROVE BillInv'
<1>0. TypeInv /\ Books /\ Accounted BY DEF BillInv
<1>1. /\ call' = call /\ lesson' = lesson /\ carried' = carried /\ missed' = missed
      /\ period' = period /\ invoice' = invoice /\ enrolled' = enrolled
  BY DEF vars, rows
<1>2. TypeInv' BY <1>0, <1>1 DEF TypeInv, TypeOK, Shapes, Shaped
<1>3. Books' BY <1>0, <1>1 DEF Books, Before, Closing, Closes, OneHolder, Holds, Carried
<1>4. Accounted'
  <2>1. \A c \in Calls : (Coming(c) => Coming(c)') /\ (Posting(c)' <=> Posting(c))
    BY <1>1 DEF Coming, Posting
  <2> QED BY <1>0, <1>1, <2>1, AccountedKept DEF Billed
<1> QED BY <1>2, <1>3, <1>4 DEF BillInv

-----------------------------------------------------------------------------
(* The theorems.                                                           *)

LEMMA BillInit == Init => BillInv
<1> SUFFICES ASSUME Init PROVE BillInv OBVIOUS
<1>1. TypeOK
  <2>1. Planned \in LessonType /\ Confirmed \in LessonType
        /\ Planned.status # "cancelled" /\ Confirmed.status # "cancelled"
    BY DEF Planned, Confirmed, LessonType
  <2>2. lesson \in [Lessons -> LessonType] /\ \A l \in Lessons : lesson[l].status # "cancelled"
    BY <2>1 DEF Init
  <2>3. NoInvoice \in InvoiceType BY DEF NoInvoice, InvoiceType
  <2>4. Rows BY <2>2, <2>3 DEF Init, Rows
  <2>5. call \in [Calls -> CallType] BY DoneIs DEF Init
  <2> QED BY <2>4, <2>5, TypeOKIs
<1>2. Shapes
  <2>1. Shaped(Idle)
    BY DoneIs DEF Shaped, Reconciling, Drafting, LessonOps, PeriodOps
  <2> QED BY <2>1 DEF Init, Shapes
<1>3. \A c \in Calls : call[c].at = "new" BY DoneIs DEF Init
<1>4. Books
  <2>1. Carried = 0 BY DEF Init, Carried, Periods
  <2>2. Before BY <1>3, <2>1 DEF Before
  <2>3. Closing BY <1>3 DEF Closing, Closes, Drafting
  <2>4. OneHolder BY <1>3 DEF OneHolder, Holds
  <2> QED BY <2>2, <2>3, <2>4 DEF Books
<1>5. Accounted BY DEF Init, Accounted, Periods
<1> QED BY <1>1, <1>2, <1>4, <1>5 DEF BillInv, TypeInv

LEMMA BillNext == BillInv /\ [Next]_vars => BillInv'
<1> SUFFICES ASSUME BillInv, [Next]_vars PROVE BillInv' OBVIOUS
<1>1. CASE UNCHANGED vars BY <1>1, StutterStep
<1>2. ASSUME NEW c \in Calls, Proceed(c) PROVE BillInv'
  <2>1. CASE UpdateStatus(c) \/ SoftDelete(c) BY <2>1, ScheduleStep
  <2>2. CASE MarkHeldAndConfirmed(c) BY <2>2, MarkStep
  <2>3. CASE Reconcile(c) BY <2>3, ReconcileStep
  <2>4. CASE ReconcileFails(c) BY <2>4, FailStep
  <2>5. CASE LockInvoice(c) BY <2>5, LockStep
  <2>6. CASE ResolveDelta(c) BY <2>6, ResolveStep
  <2>7. CASE PostAdjustment(c) BY <2>7, PostStep
  <2>8. CASE ComputePeriod(c) \/ CheckDraft(c) BY <2>8, PrepareStep DEF Prepares
  <2>9. CASE CommitDraft(c) BY <2>9, DraftStep
  <2>10. CASE CommitClose(c) BY <2>10, CloseStep
  <2> QED BY <1>2, <2>1, <2>2, <2>3, <2>4, <2>5, <2>6, <2>7, <2>8, <2>9, <2>10 DEF Proceed
<1>3. ASSUME NEW c \in Calls, NEW l \in Lessons, Schedule(c, l) PROVE BillInv'
  BY <1>3, PrepareStep DEF Prepares
<1>4. ASSUME NEW c \in Calls, NEW p \in Periods, Draft(c, p) \/ Close(c, p) PROVE BillInv'
  BY <1>4, PrepareStep DEF Prepares
<1>5. CASE \/ \E l \in Lessons : MoveEnrolment(l)
           \/ \E p \in Periods : EnsurePeriod(p) \/ VoidInvoice(p)
  BY <1>5, ElsewhereStep
<1> QED BY <1>1, <1>2, <1>3, <1>4, <1>5 DEF Next

\* What was billed for a closed month and what was carried from it since add up to what
\* the month comes to, for any number of reconciliations, drafts and closes at once and
\* whichever months are closed later.
THEOREM BillsAreWhole == Spec => []CarriedInFull
<1>1. BillInv => CarriedInFull
  <2> SUFFICES ASSUME BillInv, AllLooked, missed = {} PROVE BillIsWhole BY DEF CarriedInFull
  <2>1. Accounted BY DEF BillInv
  <2>2. \A c \in Calls : ~Coming(c) /\ ~Posting(c) BY DEF AllLooked, Coming, Posting
  <2> QED BY <2>1, <2>2 DEF Accounted, AllLooked
<1> QED BY <1>1, BillInit, BillNext, PTL DEF Spec

\* The types, for any number of requests and lessons and any debt.
THEOREM BillingTypeCorrect == Spec => []TypeOK
<1>1. BillInv => TypeOK BY DEF BillInv, TypeInv
<1> QED BY <1>1, BillInit, BillNext, PTL DEF Spec

Frozen(p) ==
  invoice[p].status \in {"issued", "void"} =>
    /\ invoice'[p].status \in {invoice[p].status, "void"}
    /\ invoice'[p].opening = invoice[p].opening /\ invoice'[p].charge = invoice[p].charge

LEMMA FrozenStep ==
  ASSUME BillInv, [Next]_vars, NEW p \in Periods
  PROVE  Frozen(p)
<1>0. Rows /\ \A c \in Calls : Shaped(call[c]) /\ call[c] \in CallType
  BY TypeOKIs DEF BillInv, TypeInv, Shapes
<1>1. CASE invoice' = invoice BY <1>1 DEF Frozen
<1>2. ASSUME NEW c \in Calls, CommitDraft(c) PROVE Frozen(p)
  <2>1. CASE call[c].known /\ Overwrites(c)
    BY <1>0, <1>2, <2>1 DEF CommitDraft, Overwrites, Frozen, Rows
  <2>2. CASE ~(call[c].known /\ Overwrites(c))
    BY <1>1, <1>2, <2>2 DEF CommitDraft
  <2> QED BY <2>1, <2>2
<1>3. ASSUME NEW c \in Calls, CommitClose(c) PROVE Frozen(p)
  <2>1. CASE call[c].known /\ ~Overwrites(c)
    BY <1>1, <1>3, <2>1 DEF CommitClose
  <2>2. CASE call[c].known /\ Overwrites(c)
    <3>1. \E i : invoice' = [invoice EXCEPT ![call[c].on] = i] BY <1>3, <2>2 DEF CommitClose
    <3> QED BY <1>0, <2>2, <3>1 DEF Overwrites, Frozen, Rows
  <2>3. CASE ~call[c].known
    <3>1. invoice' = [invoice EXCEPT ![call[c].on] = Settled(invoice[call[c].on])]
      BY <1>3, <2>3 DEF CommitClose
    <3>2. invoice[p].status # "draft" => Settled(invoice[p]) = invoice[p] BY DEF Settled
    <3>3. invoice[p].status # "draft" => invoice'[p] = invoice[p]
      BY <1>0, <3>1, <3>2 DEF Rows
    <3> QED BY <3>3 DEF Frozen
  <2> QED BY <2>1, <2>2, <2>3
<1>4. ASSUME NEW c \in Calls, PostAdjustment(c) PROVE Frozen(p)
  <2> DEFINE q == call[c].on
             inv == [TargetInvoice(c) EXCEPT !.adjustments = carried'[q]]
  <2>1. invoice' = [invoice EXCEPT ![q] = inv] BY <1>4 DEF PostAdjustment
  <2>2. ASSUME p = q, invoice[p].status \in {"issued", "void"}
        PROVE  inv.status = invoice[p].status /\ inv.opening = invoice[p].opening
               /\ inv.charge = invoice[p].charge
    <3>1. TargetInvoice(c) = invoice[p] BY <2>2 DEF TargetInvoice
    <3>2. invoice[p] \in InvoiceType BY <1>0 DEF Rows
    <3> QED BY <3>1, <3>2 DEF InvoiceType
  <2> HIDE DEF inv
  <2> QED BY <1>0, <2>1, <2>2 DEF Frozen, Rows
<1>5. ASSUME NEW r \in Periods, VoidInvoice(r) PROVE Frozen(p)
  <2>1. invoice' = [invoice EXCEPT ![r] = [invoice[r] EXCEPT !.status = "void"]]
    BY <1>5 DEF VoidInvoice
  <2>2. invoice[r] \in InvoiceType /\ invoice \in [Periods -> InvoiceType] BY <1>0 DEF Rows
  <2>3. /\ [invoice[r] EXCEPT !.status = "void"].status = "void"
        /\ [invoice[r] EXCEPT !.status = "void"].opening = invoice[r].opening
        /\ [invoice[r] EXCEPT !.status = "void"].charge = invoice[r].charge
    BY <2>2 DEF InvoiceType
  <2> QED BY <2>1, <2>2, <2>3 DEF Frozen
<1>6. ASSUME NEW c \in Calls, Prepares(c) PROVE invoice' = invoice
  BY <1>6, PrepareAside DEF BillInv, rows
<1>7. ASSUME NEW c \in Calls,
             \/ UpdateStatus(c) \/ SoftDelete(c) \/ MarkHeldAndConfirmed(c)
             \/ Reconcile(c) \/ ReconcileFails(c) \/ LockInvoice(c) \/ ResolveDelta(c)
      PROVE  invoice' = invoice
  BY <1>7 DEF UpdateStatus, SoftDelete, MarkHeldAndConfirmed, Reconcile, ReconcileFails,
              LockInvoice, ResolveDelta, rows
<1>8. ASSUME \/ \E l \in Lessons : MoveEnrolment(l)
             \/ \E r \in Periods : EnsurePeriod(r)
             \/ UNCHANGED vars
      PROVE  invoice' = invoice
  BY <1>8 DEF MoveEnrolment, EnsurePeriod, vars, rows
<1> QED BY <1>1, <1>2, <1>3, <1>4, <1>5, <1>6, <1>7, <1>8 DEF Next, Proceed, Prepares

\* An issued invoice is a snapshot, for any number of drafts, closes and adjustments.
THEOREM InvoicesAreFinal == Spec => IssuedIsFinal
<1>1. BillInv /\ [Next]_vars =>
        [\A p \in Periods : invoice[p].status \in {"issued", "void"} =>
           /\ invoice'[p].status \in {invoice[p].status, "void"}
           /\ invoice'[p].opening = invoice[p].opening /\ invoice'[p].charge = invoice[p].charge]_vars
  BY FrozenStep DEF Frozen
<1> QED BY <1>1, BillInit, BillNext, PTL DEF Spec, IssuedIsFinal
=============================================================================
