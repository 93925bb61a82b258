---------------------------- MODULE LedgerProofs ----------------------------
(***************************************************************************)
(* What holds of Ledger for every set of requests and invoices: the paid   *)
(* amounts, reversals, the absence of deadlock, the statuses, and what an  *)
(* allocation may do.  PaidOn and Pass are recursions over finite sets:    *)
(* that they have a solution, how a sum follows its entries and what a     *)
(* pass promises are lemmas of their own, by induction over the subsets.   *)
(***************************************************************************)
EXTENDS Ledger, FiniteSetTheorems, NaturalsInduction, WellFoundedInduction, TLAPS

InvoiceFields == {"status", "opening", "charge", "adjustments", "paid"}
PaymentOps    == {"record", "reallocate", "reverse", "auto"}

LiveIn(pays, p) == pays[p].amount > 0 /\ pays[p].reverses = NoPayment /\ ~pays[p].reversed

\* What the tables and the requests look like: enough to follow an update of a field.
Shapes ==
  /\ DOMAIN invoice = Invoices
  /\ \A i \in Invoices : DOMAIN invoice[i] = InvoiceFields
  /\ payment \in [Calls -> [amount : Nat, reverses : Calls \cup {NoPayment}, reversed : BOOLEAN]]
  /\ DOMAIN split = Calls
  /\ \A p \in Calls : DOMAIN split[p] = Invoices
  /\ DOMAIN call = Calls
  /\ \A c \in Calls :
       /\ call[c] = [at |-> call[c].at, op |-> call[c].op, on |-> call[c].on, amount |-> call[c].amount,
                     parts |-> call[c].parts, wants |-> call[c].wants, holds |-> call[c].holds]
       /\ call[c].wants \subseteq Invoices /\ call[c].holds \subseteq Invoices
       /\ call[c].op = "record" => call[c].amount \in Nat
       /\ call[c].op = "reallocate" => call[c].parts \in [Invoices -> Nat]

\* Until a request is done it has no row; the payment it works on, which it has
\* locked, is live, and nobody else works on it.
Locks ==
  /\ \A c \in Calls : call[c].at # "done" => payment[c] = NoRow /\ split[c] = Nothing
  /\ \A c \in Calls : call[c].at = "locking" =>
       /\ call[c].op \in PaymentOps
       /\ call[c].op = "record" => call[c].on = c
       /\ call[c].op # "record" => call[c].on \in Calls /\ Live(call[c].on)
  /\ \A c, d \in Calls :
       call[c].at = "locking" /\ call[d].at = "locking" /\ call[c].on = call[d].on => c = d
  /\ \A c \in Calls : call[c].at \in {"judged", "inserted", "summed"} => call[c].op \notin PaymentOps

\* The invoices a request still wants come after those it has.
Ordered ==
  \A c \in Calls :
    /\ call[c].at # "locking" => call[c].holds = {}
    /\ \A h \in call[c].holds, w \in call[c].wants : h < w

IInv == Shapes /\ Locks /\ Ordered /\ ReversedExactly /\ PaidIsAllocated

-----------------------------------------------------------------------------
(* What every step uses. *)

\* A set of natural numbers that is finite and not empty has a largest member.
LEMMA Largest ==
  ASSUME NEW H, H \subseteq Nat, IsFiniteSet(H), H # {}
  PROVE  \E x \in H : \A y \in H : y <= x
<1> DEFINE Above(x) == {y \in H : x <= y}
<1> DEFINE T == {Above(x) : x \in H}
<1>1. IsWellFoundedOn(StrictSubsetOrdering(H), FiniteSubsetsOf(H))
  BY FS_StrictSubsetOrderingWellFounded
<1>2. \A x \in H : Above(x) \in SUBSET H /\ IsFiniteSet(Above(x))
  <2>1. \A x \in H : Above(x) \in SUBSET H
    OBVIOUS
  <2> HIDE DEF Above
  <2> QED
    BY <2>1, FS_Subset
<1>3. T \subseteq FiniteSubsetsOf(H) /\ T # {}
  <2> HIDE DEF Above
  <2> QED
    BY <1>2 DEF FiniteSubsetsOf
<1> HIDE DEF T
<1>4. \E t \in T : \A u \in T : ~ (<<u, t>> \in StrictSubsetOrdering(H))
  BY <1>1, <1>3, WFMin
<1>5. PICK x \in H : \A u \in T : ~ (<<u, Above(x)>> \in StrictSubsetOrdering(H))
  BY <1>4 DEF T
<1>6. ASSUME NEW y \in H, ~ (y <= x) PROVE FALSE
  <2>1. x \in Nat /\ y \in Nat
    OBVIOUS
  <2>2. x < y
    BY <2>1, <1>6
  <2>3. x \in Above(x) /\ x \notin Above(y)
    BY <2>1, <2>2
  <2>4. \A z \in Above(y) : z \in Above(x)
    <3> SUFFICES ASSUME NEW z \in H, y <= z PROVE x <= z
      OBVIOUS
    <3>1. z \in Nat
      OBVIOUS
    <3> QED
      BY <3>1, <2>1, <2>2
  <2>5. <<Above(y), Above(x)>> \in StrictSubsetOrdering(H)
    BY <2>3, <2>4 DEF StrictSubsetOrdering
  <2> QED
    BY <1>5, <2>5 DEF T
<1> QED
  BY <1>6

\* Induction over the natural numbers, for the members of a set.
LEMMA Counting ==
  ASSUME NEW G, 0 \in G, \A n \in Nat : n \in G => n + 1 \in G
  PROVE  \A n \in Nat : n \in G
<1> DEFINE Bad == {n \in Nat : n \notin G}
<1> SUFFICES ASSUME Bad # {} PROVE FALSE
  OBVIOUS
<1>1. IsWellFoundedOn(OpToRel(<,Nat), Nat)
  BY NatLessThanWellFounded
<1>2. Bad \subseteq Nat
  OBVIOUS
<1> HIDE DEF Bad
<1>3. PICK m \in Bad : \A k \in Bad : ~ (<<k, m>> \in OpToRel(<,Nat))
  BY <1>1, <1>2, WFMin
<1>4. m \in Nat /\ m # 0 /\ m \notin G
  BY DEF Bad
<1>5. m - 1 \in Nat /\ (m - 1) + 1 = m
  BY <1>4
<1>6. m - 1 \in Bad
  BY <1>4, <1>5 DEF Bad
<1>7. <<m - 1, m>> \in OpToRel(<,Nat)
  BY <1>4, <1>5 DEF OpToRel
<1> QED
  BY <1>3, <1>6, <1>7

\* A set G of subsets of S that grows: with a set that lacks its picked member it has
\* that set.
Grows(S, G, pick) ==
  /\ {} \in G
  /\ \A s \in SUBSET S : s # {} => pick[s] \in s /\ (s \ {pick[s]} \in G => s \in G)

\* Induction over the subsets of a finite set: one picked member is taken out at a time.
LEMMA PickedOut ==
  ASSUME NEW S, IsFiniteSet(S), NEW G, NEW pick, Grows(S, G, pick)
  PROVE  \A s \in SUBSET S : s \in G
<1> USE DEF Grows
<1> DEFINE Bad == {s \in SUBSET S : s \notin G}
<1> SUFFICES ASSUME Bad # {} PROVE FALSE
  OBVIOUS
<1>1. IsWellFoundedOn(StrictSubsetOrdering(S), FiniteSubsetsOf(S))
  BY FS_StrictSubsetOrderingWellFounded
<1>2. Bad \subseteq FiniteSubsetsOf(S)
  BY FS_Subset DEF FiniteSubsetsOf
<1> HIDE DEF Bad
<1>3. PICK s \in Bad : \A u \in Bad : ~ (<<u, s>> \in StrictSubsetOrdering(S))
  BY <1>1, <1>2, WFMin
<1>4. s \in SUBSET S /\ s \notin G
  BY DEF Bad
<1> DEFINE x == pick[s]
<1>5. s # {} /\ x \in s
  BY <1>4
<1>6. s \ {x} \in SUBSET S /\ s \ {x} # s /\ s \ {x} \subseteq s
  BY <1>4, <1>5
<1>7. <<s \ {x}, s>> \in StrictSubsetOrdering(S)
  BY <1>4, <1>6 DEF StrictSubsetOrdering
<1>8. s \ {x} \in G
  BY <1>3, <1>6, <1>7 DEF Bad
<1> QED
  BY <1>4, <1>5, <1>8


\* The functions on the subsets of S that satisfy a recursion: base for none, and
\* step when the picked member is put back.
Recursions(S, V, base, pick, step) ==
  {g \in [SUBSET S -> V] :
     \A s \in SUBSET S : g[s] = IF s = {} THEN base ELSE step[pick[s]][g[s \ {pick[s]}]]}

\* A recursion over the subsets of a finite set that takes one chosen member out at a
\* time has a solution: count the members, and define it for one more than before.
LEMMA RecursionOnSets ==
  ASSUME NEW S, IsFiniteSet(S), NEW V, NEW base \in V, NEW pick, NEW step,
         \A s \in SUBSET S : s # {} => pick[s] \in s,
         \A x \in S, v \in V : step[x][v] \in V
  PROVE  Recursions(S, V, base, pick, step) # {}
<1> DEFINE Small(n) == {s \in SUBSET S : Cardinality(s) <= n}
<1> DEFINE Solves(g, n) ==
      \A s \in Small(n) : g[s] = IF s = {} THEN base ELSE step[pick[s]][g[s \ {pick[s]}]]
<1> DEFINE G == {n \in Nat : \E g \in [SUBSET S -> V] : Solves(g, n)}
<1>1. \A s \in SUBSET S : IsFiniteSet(s) /\ Cardinality(s) \in Nat /\ Cardinality(s) <= Cardinality(S)
  BY FS_Subset, FS_CardinalityType
<1>2. ASSUME NEW s \in SUBSET S, s # {}
      PROVE  /\ pick[s] \in S /\ s \ {pick[s]} \in SUBSET S
             /\ Cardinality(s \ {pick[s]}) = Cardinality(s) - 1
  BY <1>1, <1>2, FS_RemoveElement
<1>3. 0 \in G
  <2> DEFINE g == [s \in SUBSET S |-> base]
  <2>1. \A s \in Small(0) : s = {}
    BY <1>1, FS_EmptySet
  <2>2. g \in [SUBSET S -> V] /\ Solves(g, 0)
    BY <2>1
  <2> QED
    BY <2>2
<1>4. ASSUME NEW n \in Nat, n \in G PROVE n + 1 \in G
  <2>1. PICK g \in [SUBSET S -> V] : Solves(g, n)
    BY <1>4
  <2> DEFINE h == [s \in SUBSET S |-> IF s \in Small(n) \/ s = {} THEN g[s]
                                     ELSE step[pick[s]][g[s \ {pick[s]}]]]
  <2>2. h \in [SUBSET S -> V]
    <3> SUFFICES ASSUME NEW s \in SUBSET S PROVE h[s] \in V
      OBVIOUS
    <3>1. CASE s \in Small(n) \/ s = {}
      BY <3>1
    <3>2. CASE ~ (s \in Small(n) \/ s = {})
      <4>1. pick[s] \in S /\ g[s \ {pick[s]}] \in V
        BY <1>2, <3>2
      <4> QED
        BY <3>2, <4>1
    <3> QED
      BY <3>1, <3>2
  <2>3. ASSUME NEW s \in Small(n + 1)
        PROVE  h[s] = IF s = {} THEN base ELSE step[pick[s]][h[s \ {pick[s]}]]
    <3>1. s \in SUBSET S /\ Cardinality(s) \in Nat /\ Cardinality(s) <= n + 1
      BY <1>1
    <3>2. CASE s = {}
      <4>1. Cardinality(s) = 0
        BY <3>2, FS_EmptySet
      <4>2. s \in Small(n)
        BY <3>1, <4>1
      <4>3. g[s] = base
        BY <2>1, <3>2, <4>2
      <4> QED
        BY <3>1, <3>2, <4>3
    <3>3. CASE s # {}
      <4> DEFINE t == s \ {pick[s]}
      <4>1. t \in SUBSET S /\ Cardinality(t) \in Nat /\ Cardinality(t) <= n
        BY <1>1, <1>2, <3>1, <3>3
      <4>2. t \in Small(n)
        BY <4>1
      <4>3. h[t] = g[t]
        BY <4>1, <4>2
      <4>4. h[s] = step[pick[s]][g[t]]
        <5>1. CASE s \in Small(n)
          BY <2>1, <3>1, <3>3, <5>1
        <5>2. CASE s \notin Small(n)
          BY <3>1, <3>3, <5>2
        <5> QED
          BY <5>1, <5>2
      <4> QED
        BY <3>3, <4>3, <4>4
    <3> QED
      BY <3>2, <3>3
  <2> HIDE DEF h
  <2>4. Solves(h, n + 1)
    BY <2>3
  <2> HIDE DEF Solves
  <2>5. n + 1 \in Nat
    OBVIOUS
  <2> QED
    BY <2>2, <2>4, <2>5
<1> HIDE DEF G
<1>5. Cardinality(S) \in G
  BY <1>1, <1>3, <1>4, Counting
<1>6. PICK g \in [SUBSET S -> V] : Solves(g, Cardinality(S))
  BY <1>5 DEF G
<1>7. \A s \in SUBSET S : s \in Small(Cardinality(S))
  BY <1>1
<1> HIDE DEF Small
<1> QED
  BY <1>6, <1>7 DEF Recursions

\* The sums of f over the subsets of S, one member at a time.
PartialSums(S, f) ==
  {g \in [SUBSET S -> Int] :
     /\ SumFunction(f) = g[S]
     /\ g[{}] = 0
     /\ \A s \in SUBSET S : s # {} =>
          g[s] = f[CHOOSE x \in s : TRUE] + g[s \ {CHOOSE x \in s : TRUE}]}

\* SumFunction is such a recursion.
LEMMA SumUnfolds ==
  ASSUME NEW S, IsFiniteSet(S), NEW f \in [S -> Int]
  PROVE  PartialSums(S, f) # {}
<1> DEFINE any(s) == CHOOSE x \in s : TRUE
<1> DEFINE Adds(g) == g = [s \in SUBSET S |-> IF s = {} THEN 0
                             ELSE f[CHOOSE x \in s : TRUE] + g[s \ {CHOOSE x \in s : TRUE}]]
<1> DEFINE sum == CHOOSE g : Adds(g)
<1>1. SumFunction(f) = sum[S]
  <2>1. DOMAIN f = S
    OBVIOUS
  <2> QED
    BY <2>1 DEF SumFunction, SumFunctionOnSet, FoldFunctionOnSet, MapThenFoldSet
<1> DEFINE pick == [s \in SUBSET S |-> any(s)]
<1> DEFINE step == [x \in S |-> [v \in Int |-> f[x] + v]]
<1>2. \A s \in SUBSET S : s # {} => pick[s] \in s
  OBVIOUS
<1>3. \A x \in S, v \in Int : step[x][v] = f[x] + v /\ step[x][v] \in Int
  OBVIOUS
<1> HIDE DEF step
<1>4. PICK g \in [SUBSET S -> Int] :
        \A s \in SUBSET S : g[s] = IF s = {} THEN 0 ELSE step[pick[s]][g[s \ {pick[s]}]]
  <2> HIDE DEF pick
  <2>1. 0 \in Int /\ \A x \in S, v \in Int : step[x][v] \in Int
    BY <1>3
  <2>2. Recursions(S, Int, 0, pick, step) # {}
    BY <1>2, <2>1, RecursionOnSets
  <2> QED
    BY <2>2 DEF Recursions
<1>5. ASSUME NEW s \in SUBSET S
      PROVE  g[s] = IF s = {} THEN 0 ELSE f[any(s)] + g[s \ {any(s)}]
  <2>1. CASE s = {}
    BY <1>4, <2>1
  <2>2. CASE s # {}
    <3>1. pick[s] = any(s) /\ pick[s] \in S /\ g[s \ {pick[s]}] \in Int
      BY <1>2, <2>2
    <3>2. step[pick[s]][g[s \ {pick[s]}]] = f[any(s)] + g[s \ {any(s)}]
      BY <1>3, <3>1
    <3> QED
      BY <1>4, <2>2, <3>2
  <2> QED
    BY <2>1, <2>2
<1>6. Adds(g)
  BY <1>5
<1>7. Adds(sum)
  <2> HIDE DEF Adds
  <2> QED
    BY <1>6
<1>8. \A s \in SUBSET S : sum[s] = IF s = {} THEN 0 ELSE f[any(s)] + sum[s \ {any(s)}]
  <2> HIDE DEF sum
  <2> QED
    BY <1>7, Zenon
<1>9. DOMAIN sum = SUBSET S /\ sum = [s \in SUBSET S |-> sum[s]]
  <2> HIDE DEF sum
  <2> QED
    BY <1>7
<1> HIDE DEF sum
<1> DEFINE G == {s \in SUBSET S : sum[s] \in Int}
<1>10. {} \in G
  BY <1>8
<1>11. ASSUME NEW s \in SUBSET S, s # {}, s \ {pick[s]} \in G PROVE s \in G
  <2>1. f[any(s)] \in Int /\ pick[s] = any(s)
    BY <1>11
  <2>2. sum[s \ {any(s)}] \in Int
    BY <1>11, <2>1
  <2>3. sum[s] = f[any(s)] + sum[s \ {any(s)}]
    BY <1>8, <1>11
  <2> HIDE DEF any
  <2> QED
    BY <2>1, <2>2, <2>3
<1> HIDE DEF G, pick
<1>12. \A s \in SUBSET S : s \in G
  <2>1. Grows(S, G, pick)
    BY <1>2, <1>10, <1>11 DEF Grows
  <2> QED
    BY <2>1, PickedOut
<1>13. sum \in [SUBSET S -> Int]
  BY <1>9, <1>12 DEF G
<1> QED
  BY <1>1, <1>8, <1>13 DEF PartialSums

\* A sum of integers is one, and changes with an entry by what the entry changes.
LEMMA SumChanges ==
  ASSUME NEW S, IsFiniteSet(S), NEW f \in [S -> Int], NEW h \in [S -> Int], NEW x \in S,
         \A y \in S : y # x => h[y] = f[y]
  PROVE  /\ SumFunction(f) \in Int /\ SumFunction(h) \in Int
         /\ SumFunction(h) = SumFunction(f) + (h[x] - f[x])
<1> DEFINE any(s) == CHOOSE y \in s : TRUE
<1>1. PICK gf \in [SUBSET S -> Int] :
        /\ SumFunction(f) = gf[S]
        /\ gf[{}] = 0
        /\ \A s \in SUBSET S : s # {} => gf[s] = f[any(s)] + gf[s \ {any(s)}]
  <2>1. PartialSums(S, f) # {}
    BY SumUnfolds
  <2> QED
    BY <2>1 DEF PartialSums
<1>2. PICK gh \in [SUBSET S -> Int] :
        /\ SumFunction(h) = gh[S]
        /\ gh[{}] = 0
        /\ \A s \in SUBSET S : s # {} => gh[s] = h[any(s)] + gh[s \ {any(s)}]
  <2>1. PartialSums(S, h) # {}
    BY SumUnfolds
  <2> QED
    BY <2>1 DEF PartialSums
<1> DEFINE G == {s \in SUBSET S : gh[s] = gf[s] + (IF x \in s THEN h[x] - f[x] ELSE 0)}
<1> DEFINE pick == [s \in SUBSET S |-> any(s)]
<1>3. {} \in G
  BY <1>1, <1>2
<1>4. \A s \in SUBSET S : s # {} => pick[s] \in s /\ pick[s] = any(s)
  OBVIOUS
<1> HIDE DEF pick
<1>5. ASSUME NEW s \in SUBSET S, s # {}, s \ {pick[s]} \in G PROVE s \in G
  <2> DEFINE y == any(s)
  <2> DEFINE t == s \ {y}
  <2>1. y \in s /\ y \in S /\ t \in SUBSET S /\ t \in G
    BY <1>4, <1>5
  <2>2. gf[s] = f[y] + gf[t] /\ gh[s] = h[y] + gh[t]
    BY <1>1, <1>2, <1>5
  <2>3. gh[t] = gf[t] + (IF x \in t THEN h[x] - f[x] ELSE 0)
    BY <2>1
  <2>4. /\ f[y] \in Int /\ h[y] \in Int /\ gf[t] \in Int /\ gh[t] \in Int
        /\ f[x] \in Int /\ h[x] \in Int
    BY <2>1
  <2>5. CASE y = x
    <3>1. x \notin t /\ x \in s
      BY <2>1, <2>5
    <3>2. gh[s] = gf[s] + (h[x] - f[x])
      <4> HIDE DEF y, t
      <4> QED
        BY <2>2, <2>3, <2>4, <2>5, <3>1
    <3> QED
      BY <3>1, <3>2
  <2>6. CASE y # x
    <3>1. x \in t <=> x \in s
      BY <2>6
    <3>2. h[y] = f[y]
      BY <2>1, <2>6
    <3>3. gh[s] = gf[s] + (IF x \in s THEN h[x] - f[x] ELSE 0)
      <4> HIDE DEF y, t
      <4> QED
        BY <2>2, <2>3, <2>4, <3>1, <3>2
    <3> QED
      BY <3>3
  <2> QED
    BY <2>5, <2>6
<1> HIDE DEF G
<1>6. S \in G
  <2>1. Grows(S, G, pick)
    BY <1>3, <1>4, <1>5 DEF Grows
  <2>2. \A s \in SUBSET S : s \in G
    BY <2>1, PickedOut
  <2> QED
    BY <2>2
<1> QED
  BY <1>1, <1>2, <1>6 DEF G

\* A sum of integers is one, and nothing adds up to nothing.
LEMMA SumIsInt ==
  ASSUME NEW S, IsFiniteSet(S), NEW f \in [S -> Int]
  PROVE  /\ SumFunction(f) \in Int
         /\ (\A x \in S : f[x] = 0) => SumFunction(f) = 0
<1> DEFINE any(s) == CHOOSE y \in s : TRUE
<1>1. PICK g \in [SUBSET S -> Int] :
        /\ SumFunction(f) = g[S]
        /\ g[{}] = 0
        /\ \A s \in SUBSET S : s # {} => g[s] = f[any(s)] + g[s \ {any(s)}]
  <2>1. PartialSums(S, f) # {}
    BY SumUnfolds
  <2> QED
    BY <2>1 DEF PartialSums
<1>2. S \in SUBSET S
  OBVIOUS
<1>3. SumFunction(f) \in Int
  BY <1>1, <1>2
<1>4. ASSUME \A x \in S : f[x] = 0 PROVE SumFunction(f) = 0
  <2> DEFINE G == {s \in SUBSET S : g[s] = 0}
  <2> DEFINE pick == [s \in SUBSET S |-> any(s)]
  <2>1. {} \in G
    BY <1>1
  <2>2. \A s \in SUBSET S : s # {} => pick[s] \in s /\ pick[s] = any(s)
    OBVIOUS
  <2> HIDE DEF pick
  <2>3. ASSUME NEW s \in SUBSET S, s # {}, s \ {pick[s]} \in G PROVE s \in G
    <3>1. any(s) \in S /\ g[s \ {any(s)}] = 0
      BY <2>2, <2>3
    <3>2. g[s] = f[any(s)] + g[s \ {any(s)}]
      BY <1>1, <2>3
    <3>3. f[any(s)] = 0
      BY <1>4, <3>1
    <3> QED
      BY <3>1, <3>2, <3>3
  <2> HIDE DEF G
  <2>4. S \in G
    <3>1. Grows(S, G, pick)
      BY <2>1, <2>2, <2>3 DEF Grows
    <3> QED
      BY <1>2, <3>1, PickedOut
  <2> QED
    BY <1>1, <2>4 DEF G
<1> QED
  BY <1>3, <1>4

\* A commit leaves what is on an invoice as it was when it touches no row of it.
LEMMA CommitKeepsPaid ==
  ASSUME Shapes, PaidIsAllocated, NEW c \in Calls, NEW pays, NEW splits, NEW touched,
         Commit(c, pays, splits, touched),
         \A i \in Invoices \ touched : \A p \in Calls :
           (IF pays[p].reverses = NoPayment THEN splits[p][i] ELSE -splits[p][i])
             = (IF payment[p].reverses = NoPayment THEN split[p][i] ELSE -split[p][i])
  PROVE  PaidIsAllocated'
<1> SUFFICES ASSUME NEW i \in Invoices
             PROVE  invoice'[i].paid = PaidOn(i, pays, splits)
  BY DEF PaidIsAllocated, Commit
<1>1. CASE i \in touched
  <2>1. invoice'[i] = RecalcInvoicePaid(invoice[i], PaidOn(i, pays, splits))
    BY <1>1 DEF Commit
  <2>2. DOMAIN invoice[i] = InvoiceFields
    BY DEF Shapes
  <2> QED
    BY <2>1, <2>2 DEF RecalcInvoicePaid, InvoiceFields
<1>2. CASE i \notin touched
  <2>1. PaidOn(i, pays, splits) = PaidOn(i, payment, split)
    <3>1. [p \in Calls |-> IF pays[p].reverses = NoPayment THEN splits[p][i] ELSE -splits[p][i]]
           = [p \in Calls |-> IF payment[p].reverses = NoPayment THEN split[p][i] ELSE -split[p][i]]
      BY <1>2
    <3> QED
      BY <3>1 DEF PaidOn
  <2>2. invoice'[i] = invoice[i]
    BY <1>2 DEF Commit
  <2> QED
    BY <2>1, <2>2 DEF PaidIsAllocated
<1> QED
  BY <1>1, <1>2


\* A request that moves on changes no row: what is left is its own record.
LEMMA CallShapes ==
  ASSUME Shapes, NEW c \in Calls, NEW r, call' = [call EXCEPT ![c] = r],
         r = [at |-> r.at, op |-> r.op, on |-> r.on, amount |-> r.amount,
              parts |-> r.parts, wants |-> r.wants, holds |-> r.holds],
         r.wants \subseteq Invoices, r.holds \subseteq Invoices,
         r.op = "record" => r.amount \in Nat,
         r.op = "reallocate" => r.parts \in [Invoices -> Nat],
         UNCHANGED payment, DOMAIN invoice' = Invoices,
         \A i \in Invoices : DOMAIN invoice'[i] = InvoiceFields,
         DOMAIN split' = Calls, \A p \in Calls : DOMAIN split'[p] = Invoices
  PROVE  Shapes'
<1>1. DOMAIN call' = Calls /\ \A d \in Calls : call'[d] = IF d = c THEN r ELSE call[d]
  BY DEF Shapes
<1>2. payment' \in [Calls -> [amount : Nat, reverses : Calls \cup {NoPayment}, reversed : BOOLEAN]]
  BY DEF Shapes
<1>3. ASSUME NEW d \in Calls
      PROVE  /\ call'[d] = [at |-> call'[d].at, op |-> call'[d].op, on |-> call'[d].on,
                           amount |-> call'[d].amount, parts |-> call'[d].parts,
                           wants |-> call'[d].wants, holds |-> call'[d].holds]
             /\ call'[d].wants \subseteq Invoices /\ call'[d].holds \subseteq Invoices
             /\ call'[d].op = "record" => call'[d].amount \in Nat
             /\ call'[d].op = "reallocate" => call'[d].parts \in [Invoices -> Nat]
  <2>1. CASE d = c
    BY <1>1, <2>1, Zenon
  <2>2. CASE d # c
    BY <1>1, <2>2, Zenon DEF Shapes
  <2> QED
    BY <2>1, <2>2
<1> QED
  BY <1>1, <1>2, <1>3 DEF Shapes

LEMMA Idles ==
  /\ Idle = [at |-> Idle.at, op |-> Idle.op, on |-> Idle.on, amount |-> Idle.amount,
             parts |-> Idle.parts, wants |-> Idle.wants, holds |-> Idle.holds]
  /\ Idle.at = "new" /\ Idle.op = "none" /\ Idle.wants = {} /\ Idle.holds = {}
  /\ Done = [Idle EXCEPT !.at = "done"]
  /\ Done = [at |-> Done.at, op |-> Done.op, on |-> Done.on, amount |-> Done.amount,
             parts |-> Done.parts, wants |-> Done.wants, holds |-> Done.holds]
  /\ Done.at = "done" /\ Done.op = "none" /\ Done.wants = {} /\ Done.holds = {}
BY DEF Idle, Done

LEMMA InitInv == Init => IInv
<1> SUFFICES ASSUME Init PROVE IInv
  OBVIOUS
<1>1. Shapes
  <2>1. DOMAIN invoice = Invoices /\ \A i \in Invoices : DOMAIN invoice[i] = InvoiceFields
    BY DEF Init, InvoiceFields
  <2>2. payment \in [Calls -> [amount : Nat, reverses : Calls \cup {NoPayment}, reversed : BOOLEAN]]
    BY DEF Init, NoRow
  <2>3. DOMAIN split = Calls /\ \A p \in Calls : DOMAIN split[p] = Invoices
    BY DEF Init, Nothing
  <2>4. DOMAIN call = Calls /\ \A c \in Calls : call[c] = Idle
    BY DEF Init
  <2> QED
    BY <2>1, <2>2, <2>3, <2>4, Idles DEF Shapes
<1>2. Locks
  BY Idles DEF Init, Locks
<1>3. Ordered
  BY Idles DEF Init, Ordered
<1>4. ReversedExactly
  BY DEF Init, NoRow, ReversedExactly
<1>5. PaidIsAllocated
  <2> SUFFICES ASSUME NEW i \in Invoices PROVE invoice[i].paid = PaidOn(i, payment, split)
    BY DEF PaidIsAllocated
  <2>1. [p \in Calls |-> IF payment[p].reverses = NoPayment THEN split[p][i] ELSE -split[p][i]]
           = [p \in Calls |-> 0]
    BY DEF Init, NoRow, Nothing
  <2>2. [p \in Calls |-> 0] \in [Calls -> Int] /\ \A p \in Calls : [q \in Calls |-> 0][p] = 0
    OBVIOUS
  <2>3. IsFiniteSet(Calls)
    BY LedgerConstants
  <2>4. SumFunction([p \in Calls |-> 0]) = 0
    BY <2>2, <2>3, SumIsInt
  <2>5. PaidOn(i, payment, split) = 0
    BY <2>1, <2>4 DEF PaidOn
  <2> QED
    BY <2>5 DEF Init
<1> QED
  BY <1>1, <1>2, <1>3, <1>4, <1>5 DEF IInv

-----------------------------------------------------------------------------
(* The steps that write no payment and no allocation. *)

\* What payments and allocations say stays when neither changes, and no paid amount.
LEMMA NothingPaid ==
  ASSUME IInv, UNCHANGED <<payment, split>>, DOMAIN invoice' = Invoices,
         \A i \in Invoices : invoice'[i].paid = invoice[i].paid
  PROVE  ReversedExactly' /\ PaidIsAllocated'
<1>1. ReversedExactly'
  BY DEF IInv, ReversedExactly
<1>2. PaidIsAllocated'
  <2> SUFFICES ASSUME NEW i \in Invoices PROVE invoice'[i].paid = PaidOn(i, payment', split')
    BY DEF PaidIsAllocated
  <2> QED
    BY DEF IInv, PaidIsAllocated
<1> QED
  BY <1>1, <1>2

LEMMA BeginKeeps ==
  ASSUME IInv, NEW c \in Calls, NEW op \in PaymentOps, NEW p \in Calls, NEW amount, NEW parts,
         NEW wants, wants \subseteq Invoices, Begin(c, op, p, amount, parts, wants),
         op = "record" => p = c /\ amount \in Nat,
         op # "record" => Live(p),
         op = "reallocate" => parts \in [Invoices -> Nat]
  PROVE  IInv'
<1> DEFINE r == [at |-> "locking", op |-> op, on |-> p, amount |-> amount,
                 parts |-> parts, wants |-> wants, holds |-> {}]
<1>1. /\ call' = [call EXCEPT ![c] = r]
      /\ UNCHANGED <<invoice, posted, payment, split>>
      /\ call[c].at = "new" /\ PaymentFree(p)
  BY DEF Begin
<1>2. Shapes'
  <2>1. Shapes
    BY DEF IInv
  <2>2. /\ r = [at |-> r.at, op |-> r.op, on |-> r.on, amount |-> r.amount,
                parts |-> r.parts, wants |-> r.wants, holds |-> r.holds]
        /\ r.wants \subseteq Invoices /\ r.holds \subseteq Invoices
        /\ r.op = "record" => r.amount \in Nat
        /\ r.op = "reallocate" => r.parts \in [Invoices -> Nat]
    OBVIOUS
  <2>3. /\ DOMAIN invoice' = Invoices
        /\ \A i \in Invoices : DOMAIN invoice'[i] = InvoiceFields
        /\ DOMAIN split' = Calls /\ \A q \in Calls : DOMAIN split'[q] = Invoices
    BY <1>1, <2>1 DEF Shapes
  <2> HIDE DEF r
  <2> QED
    BY <1>1, <2>1, <2>2, <2>3, CallShapes
<1>3. \A d \in Calls : call'[d] = IF d = c THEN r ELSE call[d]
  BY <1>1 DEF IInv, Shapes
<1>4. Locks'
  <2>1. ASSUME NEW d \in Calls
        PROVE  /\ call'[d].at # "done" => payment'[d] = NoRow /\ split'[d] = Nothing
               /\ call'[d].at = "locking" =>
                    /\ call'[d].op \in PaymentOps
                    /\ call'[d].op = "record" => call'[d].on = d
                    /\ call'[d].op # "record" => call'[d].on \in Calls /\ LiveIn(payment', call'[d].on)
    <3>1. CASE d = c
      <4>1. r.at = "locking" /\ r.op = op /\ r.on = p
        OBVIOUS
      <4>2. payment[d] = NoRow /\ split[d] = Nothing
        BY <1>1, <3>1 DEF IInv, Locks
      <4> QED
        BY <1>1, <1>3, <3>1, <4>1, <4>2 DEF Live, LiveIn
    <3>2. CASE d # c
      BY <1>1, <1>3, <3>2 DEF IInv, Locks, Live, LiveIn
    <3> QED
      BY <3>1, <3>2
  <2>2. ASSUME NEW d \in Calls, NEW e \in Calls, call'[d].at = "locking", call'[e].at = "locking",
               call'[d].on = call'[e].on
        PROVE  d = e
    BY <1>1, <1>3, <2>2 DEF IInv, Locks, PaymentFree
  <2>3. \A d \in Calls : call'[d].at \in {"judged", "inserted", "summed"} => call'[d].op \notin PaymentOps
    BY <1>3 DEF IInv, Locks
  <2> QED
    BY <2>1, <2>2, <2>3 DEF Locks, Live, LiveIn
<1>5. Ordered'
  BY <1>3 DEF IInv, Ordered
<1> QED
  BY <1>1, <1>2, <1>4, <1>5, NothingPaid DEF IInv, Shapes

\* The smallest id still wanted comes after every id taken before it.
LEMMA LockNextKeeps ==
  ASSUME IInv, NEW c \in Calls, LockNext(c)
  PROVE  IInv'
<1>1. PICK i \in call[c].wants :
        /\ call[c].at = "locking"
        /\ \A j \in call[c].wants : i <= j
        /\ call' = [call EXCEPT ![c].wants = @ \ {i}, ![c].holds = @ \cup {i}]
        /\ UNCHANGED <<invoice, posted, payment, split>>
  BY DEF LockNext
<1> DEFINE r == [call[c] EXCEPT !.wants = @ \ {i}, !.holds = @ \cup {i}]
<1>2. call' = [call EXCEPT ![c] = r]
  BY <1>1 DEF IInv, Shapes
<1>3. /\ r = [at |-> r.at, op |-> r.op, on |-> r.on, amount |-> r.amount,
              parts |-> r.parts, wants |-> r.wants, holds |-> r.holds]
      /\ r.at = call[c].at /\ r.op = call[c].op /\ r.on = call[c].on
      /\ r.amount = call[c].amount /\ r.parts = call[c].parts
      /\ r.wants = call[c].wants \ {i} /\ r.holds = call[c].holds \cup {i}
  <2> DEFINE old == call[c]
  <2>1. old = [at |-> old.at, op |-> old.op, on |-> old.on, amount |-> old.amount,
               parts |-> old.parts, wants |-> old.wants, holds |-> old.holds]
    BY DEF IInv, Shapes
  <2>2. r = [old EXCEPT !.wants = old.wants \ {i}, !.holds = old.holds \cup {i}]
    OBVIOUS
  <2> HIDE DEF old, r
  <2>3. r = [at |-> old.at, op |-> old.op, on |-> old.on, amount |-> old.amount,
             parts |-> old.parts, wants |-> old.wants \ {i}, holds |-> old.holds \cup {i}]
    BY <2>1, <2>2
  <2> QED
    BY <2>3 DEF old
<1> HIDE DEF r
<1>4. Shapes'
  <2>1. Shapes
    BY DEF IInv
  <2>2. i \in Invoices /\ r.wants \subseteq Invoices /\ r.holds \subseteq Invoices
    BY <1>3, <2>1 DEF Shapes
  <2>3. /\ r.op = "record" => r.amount \in Nat
        /\ r.op = "reallocate" => r.parts \in [Invoices -> Nat]
    BY <1>3, <2>1 DEF Shapes
  <2>4. /\ DOMAIN invoice' = Invoices
        /\ \A j \in Invoices : DOMAIN invoice'[j] = InvoiceFields
        /\ DOMAIN split' = Calls /\ \A q \in Calls : DOMAIN split'[q] = Invoices
    BY <1>1, <2>1 DEF Shapes
  <2> QED
    BY <1>1, <1>2, <1>3, <2>1, <2>2, <2>3, <2>4, CallShapes
<1>5. \A d \in Calls : call'[d] = IF d = c THEN r ELSE call[d]
  BY <1>2 DEF IInv, Shapes
<1>6. \A d \in Calls : call'[d].at = call[d].at /\ call'[d].op = call[d].op /\ call'[d].on = call[d].on
  BY <1>3, <1>5
<1>7. Locks'
  <2>1. payment' = payment /\ split' = split
    BY <1>1
  <2> QED
    BY <1>6, <2>1 DEF IInv, Locks, Live
<1>8. Ordered'
  <2> SUFFICES ASSUME NEW d \in Calls
               PROVE  /\ call'[d].at # "locking" => call'[d].holds = {}
                      /\ \A h \in call'[d].holds, w \in call'[d].wants : h < w
    BY DEF Ordered
  <2>1. CASE d # c
    BY <1>5, <2>1 DEF IInv, Ordered
  <2>2. CASE d = c
    <3>1. call'[d].at = "locking"
      BY <1>1, <1>6, <2>2
    <3>2. ASSUME NEW h \in call'[d].holds, NEW w \in call'[d].wants
          PROVE  h < w
      <4>1. w \in call[c].wants /\ w # i /\ (h \in call[c].holds \/ h = i)
        BY <1>3, <1>5, <2>2, <3>2
      <4>2. i <= w
        BY <1>1, <4>1
      <4>3. w \in Nat /\ i \in Nat
        BY <4>1, LedgerConstants DEF IInv, Shapes
      <4> QED
        BY <4>1, <4>2, <4>3 DEF IInv, Ordered
    <3> QED
      BY <3>1, <3>2
  <2> QED
    BY <2>1, <2>2
<1> QED
  BY <1>1, <1>4, <1>7, <1>8, NothingPaid DEF IInv, Shapes

\* Corrections and voids: a request that holds no lock goes on, an invoice may change,
\* its paid amount not.
LEMMA CorrectionKeeps ==
  ASSUME IInv, NEW c \in Calls, call[c].at # "done", call[c].at # "locking",
         NEW r, call' = [call EXCEPT ![c] = r],
         r = [at |-> r.at, op |-> r.op, on |-> r.on, amount |-> r.amount,
              parts |-> r.parts, wants |-> r.wants, holds |-> r.holds],
         r.wants \subseteq Invoices, r.holds = {}, r.at # "locking", r.op \notin PaymentOps,
         UNCHANGED <<payment, split>>, DOMAIN invoice' = Invoices,
         \A i \in Invoices : DOMAIN invoice'[i] = InvoiceFields /\ invoice'[i].paid = invoice[i].paid
  PROVE  IInv'
<1>1. Shapes'
  <2>1. Shapes
    BY DEF IInv
  <2>2. r.op # "record" /\ r.op # "reallocate"
    BY DEF PaymentOps
  <2>3. DOMAIN split' = Calls /\ \A q \in Calls : DOMAIN split'[q] = Invoices
    BY <2>1 DEF Shapes
  <2> QED
    BY <2>1, <2>2, <2>3, CallShapes
<1>2. \A d \in Calls : call'[d] = IF d = c THEN r ELSE call[d]
  BY DEF IInv, Shapes
<1>3. Locks'
  BY <1>2 DEF IInv, Locks, Live
<1>4. Ordered'
  BY <1>2 DEF IInv, Ordered
<1> QED
  BY <1>1, <1>3, <1>4, NothingPaid DEF IInv

-----------------------------------------------------------------------------
(* The commits. *)

\* The part of the invariant that a commit keeps whatever it writes, as long as the
\* payments other requests work on stay as they are.
LEMMA CommitKeepsRest ==
  ASSUME IInv, NEW c \in Calls, call[c].at = "locking", NEW pays, NEW splits, NEW touched,
         Commit(c, pays, splits, touched),
         pays \in [Calls -> [amount : Nat, reverses : Calls \cup {NoPayment}, reversed : BOOLEAN]],
         DOMAIN splits = Calls, \A p \in Calls : DOMAIN splits[p] = Invoices,
         \A p \in Calls \ {c} : p # call[c].on => pays[p] = payment[p] /\ splits[p] = split[p]
  PROVE  Shapes' /\ Locks' /\ Ordered'
<1>1. \A d \in Calls : call'[d] = IF d = c THEN Done ELSE call[d]
  BY DEF Commit, IInv, Shapes
<1>2. payment' = pays /\ split' = splits
  BY DEF Commit
<1>3. Shapes'
  <2>1. DOMAIN invoice' = Invoices
    BY DEF Commit
  <2>2. ASSUME NEW i \in Invoices PROVE DOMAIN invoice'[i] = InvoiceFields
    <3>1. DOMAIN invoice[i] = InvoiceFields
      BY DEF IInv, Shapes
    <3>2. DOMAIN RecalcInvoicePaid(invoice[i], PaidOn(i, pays, splits)) = InvoiceFields
      BY <3>1 DEF RecalcInvoicePaid
    <3>3. invoice'[i] = IF i \in touched THEN RecalcInvoicePaid(invoice[i], PaidOn(i, pays, splits))
                        ELSE invoice[i]
      BY DEF Commit
    <3> QED
      BY <3>1, <3>2, <3>3
  <2>3. DOMAIN call' = Calls
    BY DEF Commit, IInv, Shapes
  <2>4. ASSUME NEW d \in Calls
        PROVE  /\ call'[d] = [at |-> call'[d].at, op |-> call'[d].op, on |-> call'[d].on,
                             amount |-> call'[d].amount, parts |-> call'[d].parts,
                             wants |-> call'[d].wants, holds |-> call'[d].holds]
               /\ call'[d].wants \subseteq Invoices /\ call'[d].holds \subseteq Invoices
               /\ call'[d].op = "record" => call'[d].amount \in Nat
               /\ call'[d].op = "reallocate" => call'[d].parts \in [Invoices -> Nat]
    <3>1. CASE d = c
      <4>1. call'[d] = Done
        BY <1>1, <3>1
      <4> QED
        BY <4>1, Idles, Zenon
    <3>2. CASE d # c
      BY <1>1, <3>2, Zenon DEF IInv, Shapes
    <3> QED
      BY <3>1, <3>2
  <2> QED
    BY <1>2, <2>1, <2>2, <2>3, <2>4 DEF Shapes
<1>4. Locks'
  <2>1. ASSUME NEW d \in Calls, d # c, call[d].at # "done"
        PROVE  payment'[d] = NoRow /\ split'[d] = Nothing
    <3>1. payment[d] = NoRow /\ split[d] = Nothing
      BY <2>1 DEF IInv, Locks
    <3>2. d # call[c].on
      BY <2>1, <3>1 DEF IInv, Locks, Live, NoRow
    <3> QED
      BY <1>2, <2>1, <3>1, <3>2
  <2>2. ASSUME NEW d \in Calls, d # c, call[d].at = "locking"
        PROVE  /\ call[d].op \in PaymentOps
               /\ call[d].op = "record" => call[d].on = d
               /\ call[d].op # "record" => call[d].on \in Calls /\ LiveIn(payment', call[d].on)
    <3>1. /\ call[d].op \in PaymentOps
          /\ call[d].op = "record" => call[d].on = d
          /\ call[d].op # "record" => call[d].on \in Calls /\ Live(call[d].on)
      BY <2>2 DEF IInv, Locks
    <3>2. ASSUME call[d].op # "record" PROVE LiveIn(payment', call[d].on)
      <4>1. call[d].on \in Calls /\ Live(call[d].on)
        BY <3>1, <3>2
      <4>2. payment[c] = NoRow
        BY DEF IInv, Locks
      <4>3. call[d].on # c
        BY <4>1, <4>2 DEF Live, NoRow
      <4>4. call[d].on # call[c].on
        BY <2>2 DEF IInv, Locks
      <4>5. payment'[call[d].on] = payment[call[d].on]
        BY <1>2, <4>1, <4>3, <4>4
      <4> QED
        BY <4>1, <4>5 DEF Live, LiveIn
    <3> QED
      BY <3>1, <3>2
  <2>3. \A d, e \in Calls : call'[d].at = "locking" /\ call'[e].at = "locking"
                           /\ call'[d].on = call'[e].on => d = e
    BY <1>1, Idles DEF IInv, Locks
  <2>5. \A d \in Calls : call'[d].at # "done" => payment'[d] = NoRow /\ split'[d] = Nothing
    BY <1>1, <2>1, Idles
  <2>6. \A d \in Calls : call'[d].at = "locking" =>
          /\ call'[d].op \in PaymentOps
          /\ call'[d].op = "record" => call'[d].on = d
          /\ call'[d].op # "record" => call'[d].on \in Calls /\ LiveIn(payment', call'[d].on)
    BY <1>1, <2>2, Idles
  <2>7. \A d \in Calls : call'[d].at \in {"judged", "inserted", "summed"} => call'[d].op \notin PaymentOps
    BY <1>1, Idles DEF IInv, Locks
  <2> QED
    BY <2>3, <2>5, <2>6, <2>7 DEF Locks, Live, LiveIn
<1>5. Ordered'
  BY <1>1, Idles DEF IInv, Ordered
<1> QED
  BY <1>3, <1>4, <1>5

LEMMA CommitRecordKeeps ==
  ASSUME IInv, NEW c \in Calls, CommitRecord(c)
  PROVE  IInv'
<1> DEFINE taken == Allocate(call[c].amount, call[c].holds \cap Candidates)
<1> DEFINE pays == [payment EXCEPT ![c] = [NoRow EXCEPT !.amount = call[c].amount]]
<1> DEFINE splits == [split EXCEPT ![c] = Adding(taken, Nothing)]
<1>1. call[c].at = "locking" /\ call[c].op = "record" /\ Commit(c, pays, splits, Touched(taken))
  BY DEF CommitRecord, Locked
<1> HIDE DEF taken
<1>2. payment[c] = NoRow /\ split[c] = Nothing /\ call[c].amount \in Nat
  BY <1>1 DEF IInv, Locks, Shapes
<1>3. pays \in [Calls -> [amount : Nat, reverses : Calls \cup {NoPayment}, reversed : BOOLEAN]]
  BY <1>2 DEF IInv, Shapes, NoRow
<1>4. DOMAIN splits = Calls /\ \A p \in Calls : DOMAIN splits[p] = Invoices
  BY DEF IInv, Shapes, Adding
<1>5. /\ \A p \in Calls \ {c} : pays[p] = payment[p] /\ splits[p] = split[p]
      /\ splits[c] = Adding(taken, Nothing)
      /\ pays[c].amount = call[c].amount /\ pays[c].reverses = NoPayment /\ pays[c].reversed = FALSE
  BY DEF IInv, Shapes, NoRow
<1>6. payment' = pays /\ split' = splits
  BY <1>1 DEF Commit
<1> HIDE DEF pays, splits
<1>7. Shapes' /\ Locks' /\ Ordered'
  BY <1>1, <1>3, <1>4, <1>5, CommitKeepsRest
<1>8. PaidIsAllocated'
  <2> SUFFICES ASSUME NEW i \in Invoices \ Touched(taken), NEW p \in Calls
               PROVE  (IF pays[p].reverses = NoPayment THEN splits[p][i] ELSE -splits[p][i])
                        = (IF payment[p].reverses = NoPayment THEN split[p][i] ELSE -split[p][i])
    BY <1>1, CommitKeepsPaid DEF IInv
  <2>1. taken[i] = 0
    BY DEF Touched
  <2>2. splits[c][i] = 0 /\ split[c][i] = 0
    BY <1>2, <1>5, <2>1 DEF Adding, Nothing
  <2> QED
    BY <1>2, <1>5, <2>2 DEF NoRow
<1>9. ReversedExactly'
  <2>1. \A p \in Calls : payment[p].reverses # NoPayment =>
          payment[p].reverses \in Calls /\ p # c /\ payment[p].reverses # c
    BY <1>2 DEF IInv, ReversedExactly, Shapes, NoRow
  <2> QED
    BY <1>5, <1>6, <2>1 DEF IInv, ReversedExactly
<1> QED
  BY <1>7, <1>8, <1>9 DEF IInv

\* A live payment is neither reversed nor a reversal: its split may change.
LEMMA ResplitKeeps ==
  ASSUME IInv, NEW c \in Calls, NEW op \in PaymentOps \ {"record"}, Locked(c, op), NEW s, NEW touched,
         DOMAIN s = Invoices, \A i \in Invoices \ touched : s[i] = split[call[c].on][i],
         Commit(c, payment, [split EXCEPT ![call[c].on] = s], touched)
  PROVE  IInv'
<1> DEFINE q == call[c].on
<1> DEFINE splits == [split EXCEPT ![q] = s]
<1>1. call[c].at = "locking" /\ call[c].op # "record" /\ q \in Calls /\ Live(q)
  BY DEF Locked, IInv, Locks
<1>2. \A p \in Calls : splits[p] = IF p = q THEN s ELSE split[p]
  BY <1>1 DEF IInv, Shapes
<1>3. DOMAIN splits = Calls /\ \A p \in Calls : DOMAIN splits[p] = Invoices
  BY <1>2 DEF IInv, Shapes
<1>4. payment' = payment /\ split' = splits
  BY DEF Commit
<1>5. payment \in [Calls -> [amount : Nat, reverses : Calls \cup {NoPayment}, reversed : BOOLEAN]]
  BY DEF IInv, Shapes
<1> HIDE DEF splits
<1>6. Shapes' /\ Locks' /\ Ordered'
  BY <1>1, <1>2, <1>3, <1>5, CommitKeepsRest DEF splits
<1>7. PaidIsAllocated'
  <2>1. \A i \in Invoices \ touched : \A p \in Calls :
          (IF payment[p].reverses = NoPayment THEN splits[p][i] ELSE -splits[p][i])
            = (IF payment[p].reverses = NoPayment THEN split[p][i] ELSE -split[p][i])
    BY <1>2
  <2>2. Commit(c, payment, splits, touched)
    BY DEF splits
  <2> QED
    BY <2>1, <2>2, CommitKeepsPaid DEF IInv
<1>8. ReversedExactly'
  BY <1>1, <1>2, <1>4 DEF IInv, ReversedExactly, Live, Shapes
<1> QED
  BY <1>6, <1>7, <1>8 DEF IInv

LEMMA CommitAutoKeeps ==
  ASSUME IInv, NEW c \in Calls, CommitAuto(c)
  PROVE  IInv'
<1> DEFINE taken == Allocate(call[c].amount, call[c].holds \cap Candidates)
<1> DEFINE s == Adding(taken, split[call[c].on])
<1>1. Locked(c, "auto") /\ call[c].on \in Calls
  BY DEF CommitAuto, Locked, IInv, Locks
<1>2. Commit(c, payment, [split EXCEPT ![call[c].on] = s], Touched(taken))
  BY <1>1 DEF CommitAuto, IInv, Shapes
<1> HIDE DEF taken
<1>3. DOMAIN s = Invoices /\ \A i \in Invoices \ Touched(taken) : s[i] = split[call[c].on][i]
  BY DEF Adding, Touched
<1> HIDE DEF s
<1> QED
  BY <1>1, <1>2, <1>3, ResplitKeeps DEF PaymentOps

LEMMA CommitReallocateKeeps ==
  ASSUME IInv, NEW c \in Calls, CommitReallocate(c)
  PROVE  IInv'
<1> DEFINE s == call[c].parts
<1> DEFINE touched == Touched(split[call[c].on]) \cup Touched(s)
<1>1. Locked(c, "reallocate") /\ Commit(c, payment, [split EXCEPT ![call[c].on] = s], touched)
  BY DEF CommitReallocate
<1>2. DOMAIN s = Invoices
  BY <1>1 DEF Locked, IInv, Shapes
<1>3. \A i \in Invoices \ touched : s[i] = split[call[c].on][i]
  BY DEF Touched
<1> HIDE DEF s, touched
<1> QED
  BY <1>1, <1>2, <1>3, ResplitKeeps DEF PaymentOps

\* The reversal entry takes the split the payment has while it is locked, and the
\* payment is stamped in the same transaction.
LEMMA CommitReverseKeeps ==
  ASSUME IInv, NEW c \in Calls, CommitReverse(c)
  PROVE  IInv'
<1> DEFINE q == call[c].on
<1> DEFINE pays == [payment EXCEPT ![c] = [NoRow EXCEPT !.amount = payment[q].amount, !.reverses = q],
                                   ![q].reversed = TRUE]
<1> DEFINE splits == [split EXCEPT ![c] = split[q]]
<1>1. call[c].at = "locking" /\ call[c].op = "reverse" /\ Commit(c, pays, splits, Touched(split[q]))
  BY DEF CommitReverse, Locked
<1>2. q \in Calls /\ Live(q) /\ payment[c] = NoRow /\ split[c] = Nothing
  BY <1>1 DEF IInv, Locks
<1>3. q # c
  BY <1>2 DEF Live, NoRow
<1>4. /\ pays[c] = [amount |-> payment[q].amount, reverses |-> q, reversed |-> FALSE]
      /\ pays[q] = [payment[q] EXCEPT !.reversed = TRUE]
      /\ \A p \in Calls \ {c, q} : pays[p] = payment[p]
      /\ DOMAIN pays = Calls
      /\ \A p \in Calls : splits[p] = IF p = c THEN split[q] ELSE split[p]
  BY <1>2, <1>3 DEF IInv, Shapes, NoRow
<1>5. pays \in [Calls -> [amount : Nat, reverses : Calls \cup {NoPayment}, reversed : BOOLEAN]]
  <2>1. payment \in [Calls -> [amount : Nat, reverses : Calls \cup {NoPayment}, reversed : BOOLEAN]]
    BY DEF IInv, Shapes
  <2>2. [payment[q] EXCEPT !.reversed = TRUE] \in [amount : Nat, reverses : Calls \cup {NoPayment}, reversed : BOOLEAN]
    BY <1>2, <2>1
  <2>3. [NoRow EXCEPT !.amount = payment[q].amount, !.reverses = q]
          \in [amount : Nat, reverses : Calls \cup {NoPayment}, reversed : BOOLEAN]
    BY <1>2, <2>1 DEF NoRow
  <2>4. pays = [payment EXCEPT ![c] = [NoRow EXCEPT !.amount = payment[q].amount, !.reverses = q],
                               ![q] = [payment[q] EXCEPT !.reversed = TRUE]]
    BY <1>2, <1>3, <2>1
  <2> HIDE DEF pays
  <2> QED
    BY <1>2, <2>1, <2>2, <2>3, <2>4
<1>6. /\ pays[q].amount = payment[q].amount /\ pays[q].reverses = NoPayment /\ pays[q].reversed
  BY <1>2, <1>4 DEF IInv, Shapes, Live
<1>7. DOMAIN splits = Calls /\ \A p \in Calls : DOMAIN splits[p] = Invoices
  BY <1>2 DEF IInv, Shapes
<1>8. payment' = pays /\ split' = splits
  BY <1>1 DEF Commit
<1> HIDE DEF pays, splits
<1>9. Shapes' /\ Locks' /\ Ordered'
  BY <1>1, <1>4, <1>5, <1>7, CommitKeepsRest
<1>10. PaidIsAllocated'
  <2> SUFFICES ASSUME NEW i \in Invoices \ Touched(split[q]), NEW p \in Calls
               PROVE  (IF pays[p].reverses = NoPayment THEN splits[p][i] ELSE -splits[p][i])
                        = (IF payment[p].reverses = NoPayment THEN split[p][i] ELSE -split[p][i])
    BY <1>1, CommitKeepsPaid DEF IInv
  <2>1. split[q][i] = 0 /\ split[c][i] = 0
    BY <1>2 DEF Touched, Nothing
  <2>2. CASE p = c
    BY <1>2, <1>4, <2>1, <2>2 DEF NoRow
  <2>3. CASE p = q
    BY <1>2, <1>3, <1>4, <1>6, <2>3 DEF Live
  <2>4. CASE p \notin {c, q}
    BY <1>4, <2>4
  <2> QED
    BY <2>2, <2>3, <2>4
<1>11. ReversedExactly'
  <2>1. \A p \in Calls : payment[p].reverses # NoPayment =>
          /\ payment[p].reverses \in Calls
          /\ p # c /\ p # q /\ payment[p].reverses # c /\ payment[p].reverses # q
    BY <1>2 DEF IInv, ReversedExactly, Shapes, NoRow, Live
  <2>2. q # NoPayment
    BY <1>2, LedgerConstants
  <2>3. \A p \in Calls : pays[p].reverses = IF p = c THEN q ELSE payment[p].reverses
    <3>1. pays[c].reverses = q
      BY <1>4
    <3> QED
      BY <1>2, <1>4, <1>6, <3>1, ZenonT(60) DEF Live
  <2>4. ASSUME NEW p \in Calls, pays[p].reverses # NoPayment
        PROVE  LET r == pays[p].reverses
               IN pays[r].reversed /\ splits[p] = splits[r] /\ pays[p].amount = pays[r].amount
    <3>1. CASE p = c
      <4>1. pays[c].reverses = q /\ pays[c].amount = payment[q].amount
        BY <1>4
      <4>2. splits[c] = split[q] /\ splits[q] = split[q]
        BY <1>2, <1>3, <1>4
      <4> QED
        BY <1>6, <3>1, <4>1, <4>2
    <3>2. CASE p # c
      BY <1>4, <2>1, <2>3, <2>4, <3>2 DEF IInv, ReversedExactly
    <3> QED
      BY <3>1, <3>2
  <2>5. ASSUME NEW p \in Calls, NEW r \in Calls,
               pays[p].reverses = pays[r].reverses, pays[p].reverses # NoPayment
        PROVE  p = r
    BY <2>1, <2>3, <2>5 DEF IInv, ReversedExactly
  <2> QED
    BY <1>8, <2>4, <2>5 DEF ReversedExactly
<1> QED
  BY <1>9, <1>10, <1>11 DEF IInv

LEMMA RefuseKeeps ==
  ASSUME IInv, NEW c \in Calls, RefuseReallocate(c)
  PROVE  IInv'
<1>1. call' = [call EXCEPT ![c] = Done] /\ UNCHANGED <<invoice, posted, payment, split>>
  BY DEF RefuseReallocate
<1>2. Shapes'
  <2>1. Shapes
    BY DEF IInv
  <2>2. /\ DOMAIN invoice' = Invoices
        /\ \A j \in Invoices : DOMAIN invoice'[j] = InvoiceFields
        /\ DOMAIN split' = Calls /\ \A q \in Calls : DOMAIN split'[q] = Invoices
    BY <1>1, <2>1 DEF Shapes
  <2>3. Done.op # "record" /\ Done.op # "reallocate" /\ Done.wants \subseteq Invoices /\ Done.holds \subseteq Invoices
    BY Idles
  <2> QED
    BY <1>1, <2>1, <2>2, <2>3, Idles, CallShapes
<1>3. \A d \in Calls : call'[d] = IF d = c THEN Done ELSE call[d]
  BY <1>1 DEF IInv, Shapes
<1>4. Locks'
  BY <1>1, <1>3, Idles DEF IInv, Locks, Live
<1>5. Ordered'
  BY <1>3, Idles DEF IInv, Ordered
<1> QED
  BY <1>1, <1>2, <1>4, <1>5, NothingPaid DEF IInv, Shapes

LEMMA JudgeKeeps ==
  ASSUME IInv, NEW c \in Calls, NEW op \in {"adjust", "void"}, NEW i \in Invoices, NEW amount,
         Judge(c, op, i, amount)
  PROVE  IInv'
<1> DEFINE r == [at |-> "judged", op |-> op, on |-> NoPayment, amount |-> amount,
                 parts |-> Nothing, wants |-> {i}, holds |-> {}]
<1>1. /\ call[c].at = "new" /\ call' = [call EXCEPT ![c] = r]
      /\ UNCHANGED <<invoice, posted, payment, split>>
  BY DEF Judge
<1>2. /\ r = [at |-> r.at, op |-> r.op, on |-> r.on, amount |-> r.amount,
              parts |-> r.parts, wants |-> r.wants, holds |-> r.holds]
      /\ r.wants = {i} /\ r.holds = {} /\ r.at = "judged" /\ r.op \notin PaymentOps
  BY DEF PaymentOps
<1> HIDE DEF r
<1>3. /\ UNCHANGED <<payment, split>> /\ DOMAIN invoice' = Invoices
      /\ \A j \in Invoices : DOMAIN invoice'[j] = InvoiceFields /\ invoice'[j].paid = invoice[j].paid
  BY <1>1 DEF IInv, Shapes
<1> QED
  BY <1>1, <1>2, <1>3, CorrectionKeeps

\* What the later steps of a correction find: no lock, and no payment in hand.
LEMMA Correction ==
  ASSUME IInv, NEW c \in Calls, call[c].at \in {"judged", "inserted", "summed"}
  PROVE  /\ call[c].at # "done" /\ call[c].at # "locking" /\ call[c].holds = {}
         /\ call[c].op \notin PaymentOps /\ call[c].wants \subseteq Invoices
BY DEF IInv, Locks, Ordered, Shapes

LEMMA AdjustKeeps ==
  ASSUME IInv, NEW c \in Calls, CreateAdjustment(c) \/ SumAdjustments(c)
  PROVE  IInv'
<1> DEFINE inserted == [call[c] EXCEPT !.at = "inserted"]
<1> DEFINE summed(i) == [call[c] EXCEPT !.at = "summed",
                                        !.parts = [Nothing EXCEPT ![i] = posted[i] + call[c].amount]]
<1>1. PICK r : /\ call[c].at \in {"judged", "inserted"} /\ call' = [call EXCEPT ![c] = r]
               /\ r = inserted \/ \E i \in Invoices : r = summed(i)
  <2>1. CASE CreateAdjustment(c)
    <3>1. call' = [call EXCEPT ![c] = inserted]
      BY <2>1 DEF CreateAdjustment, IInv, Shapes
    <3> QED
      BY <2>1, <3>1 DEF CreateAdjustment
  <2>2. CASE SumAdjustments(c)
    <3>1. PICK i \in call[c].wants :
            /\ call[c].at = "inserted"
            /\ call' = [call EXCEPT ![c].at = "summed",
                                    ![c].parts = [Nothing EXCEPT ![i] = posted[i] + call[c].amount]]
      BY <2>2 DEF SumAdjustments
    <3>2. i \in Invoices
      BY DEF IInv, Shapes
    <3>3. call' = [call EXCEPT ![c] = summed(i)]
      BY <3>1 DEF IInv, Shapes
    <3> QED
      BY <3>1, <3>2, <3>3
  <2> QED
    BY <2>1, <2>2
<1>2. /\ call[c].holds = {} /\ call[c].op \notin PaymentOps /\ call[c].wants \subseteq Invoices
      /\ call[c].at # "done" /\ call[c].at # "locking"
  BY <1>1, Correction
<1>3. /\ r = [at |-> r.at, op |-> r.op, on |-> r.on, amount |-> r.amount,
              parts |-> r.parts, wants |-> r.wants, holds |-> r.holds]
      /\ r.wants = call[c].wants /\ r.holds = call[c].holds /\ r.op = call[c].op
      /\ r.at \in {"inserted", "summed"}
  BY <1>1 DEF IInv, Shapes
<1>4. UNCHANGED <<invoice, payment, split>>
  BY DEF CreateAdjustment, SumAdjustments
<1>5. /\ DOMAIN invoice' = Invoices
      /\ \A j \in Invoices : DOMAIN invoice'[j] = InvoiceFields /\ invoice'[j].paid = invoice[j].paid
  BY <1>4 DEF IInv, Shapes
<1>6. r.at # "locking" /\ r.wants \subseteq Invoices /\ r.holds = {} /\ r.op \notin PaymentOps
  BY <1>2, <1>3
<1> QED
  BY <1>1, <1>2, <1>3, <1>4, <1>5, <1>6, CorrectionKeeps

\* The end of a correction writes an invoice, but not its paid amount.
LEMMA CorrectedKeeps ==
  ASSUME IInv, NEW c \in Calls, CommitAdjustment(c) \/ VoidInvoice(c)
  PROVE  IInv'
<1>1. /\ call[c].at \in {"judged", "summed"} /\ call' = [call EXCEPT ![c] = Done]
      /\ UNCHANGED <<payment, split>>
  BY DEF CommitAdjustment, VoidInvoice
<1>2. DOMAIN invoice' = Invoices
  BY DEF CommitAdjustment, VoidInvoice, IInv, Shapes
<1>3. ASSUME NEW j \in Invoices
      PROVE  DOMAIN invoice'[j] = InvoiceFields /\ invoice'[j].paid = invoice[j].paid
  <2>1. DOMAIN invoice[j] = InvoiceFields /\ DOMAIN invoice = Invoices
    BY DEF IInv, Shapes
  <2>2. CASE CommitAdjustment(c)
    <3>1. PICK i \in call[c].wants : invoice' = [invoice EXCEPT ![i] = RecalcInvoiceTotals(@, call[c].parts[i])]
      BY <2>2 DEF CommitAdjustment
    <3> QED
      BY <2>1, <3>1 DEF RecalcInvoiceTotals, InvoiceFields
  <2>3. CASE VoidInvoice(c)
    BY <2>1, <2>3 DEF VoidInvoice, InvoiceFields
  <2> QED
    BY <2>2, <2>3
<1>4. call[c].at # "done" /\ call[c].at # "locking"
  BY <1>1
<1>5. /\ Done = [at |-> Done.at, op |-> Done.op, on |-> Done.on, amount |-> Done.amount,
                 parts |-> Done.parts, wants |-> Done.wants, holds |-> Done.holds]
      /\ Done.wants \subseteq Invoices /\ Done.holds = {} /\ Done.at # "locking"
      /\ Done.op \notin PaymentOps
  BY Idles DEF PaymentOps
<1> QED
  BY <1>1, <1>2, <1>3, <1>4, <1>5, CorrectionKeeps

LEMMA CloseKeeps ==
  ASSUME IInv, NEW i \in Invoices, CloseIssues(i)
  PROVE  IInv'
<1>1. UNCHANGED <<posted, payment, split, call>>
  BY DEF CloseIssues
<1>2. /\ DOMAIN invoice' = Invoices
      /\ \A j \in Invoices : DOMAIN invoice'[j] = InvoiceFields /\ invoice'[j].paid = invoice[j].paid
  BY DEF CloseIssues, IInv, Shapes, InvoiceFields
<1> QED
  BY <1>1, <1>2, NothingPaid DEF IInv, Shapes, Locks, Live, Ordered

LEMMA RequestKeeps ==
  ASSUME IInv, NEW c \in Calls, Request(c)
  PROVE  IInv'
<1>1. Candidates \subseteq Invoices
  BY DEF Candidates
<1>2. ASSUME NEW a \in Amounts, Record(c, a)
      PROVE  IInv'
  <2>1. a \in Nat
    BY LedgerConstants
  <2> QED
    BY <1>1, <1>2, <2>1, BeginKeeps DEF Record, PaymentOps
<1>3. ASSUME NEW p \in Calls, NEW parts \in [Invoices -> Amounts \cup {0}], Reallocate(c, p, parts)
      PROVE  IInv'
  <2>1. parts \in [Invoices -> Nat]
    <3>1. Amounts \cup {0} \subseteq Nat
      BY LedgerConstants
    <3> QED
      BY <3>1
  <2>2. Touched(split[p]) \cup Touched(parts) \subseteq Invoices
    BY DEF Touched
  <2> QED
    BY <1>3, <2>1, <2>2, BeginKeeps DEF Reallocate, PaymentOps
<1>4. ASSUME NEW p \in Calls, Reverse(c, p)
      PROVE  IInv'
  <2>1. Touched(split[p]) \subseteq Invoices
    BY DEF Touched
  <2> QED
    BY <1>4, <2>1, BeginKeeps DEF Reverse, PaymentOps
<1>5. ASSUME NEW p \in Calls, AutoAllocateRemainder(c, p)
      PROVE  IInv'
  BY <1>1, <1>5, BeginKeeps DEF AutoAllocateRemainder, PaymentOps
<1>6. ASSUME NEW i \in Invoices, NEW a \in Changes, AddAdjustment(c, i, a)
      PROVE  IInv'
  BY <1>6, JudgeKeeps DEF AddAdjustment
<1>7. ASSUME NEW i \in Invoices, JudgeVoid(c, i)
      PROVE  IInv'
  BY <1>7, JudgeKeeps DEF JudgeVoid
<1> QED
  BY <1>2, <1>3, <1>4, <1>5, <1>6, <1>7 DEF Request

LEMMA StepKeeps == IInv /\ [Next]_vars => IInv'
<1> SUFFICES ASSUME IInv, [Next]_vars PROVE IInv'
  OBVIOUS
<1>1. ASSUME NEW c \in Calls, Request(c)
      PROVE  IInv'
  BY <1>1, RequestKeeps
<1>2. ASSUME NEW c \in Calls, Proceed(c)
      PROVE  IInv'
  BY <1>2, LockNextKeeps, CommitRecordKeeps, CommitAutoKeeps, CommitReallocateKeeps, RefuseKeeps,
     CommitReverseKeeps, AdjustKeeps, CorrectedKeeps DEF Proceed, Commits
<1>3. ASSUME NEW i \in Invoices, CloseIssues(i)
      PROVE  IInv'
  BY <1>3, CloseKeeps
<1>4. CASE UNCHANGED vars
  BY <1>4, NothingPaid DEF vars, IInv, Shapes, Locks, Live, Ordered
<1> QED
  BY <1>1, <1>2, <1>3, <1>4 DEF Next

LEMMA Invariant == Spec => []IInv
BY InitInv, StepKeeps, PTL DEF Spec

-----------------------------------------------------------------------------
(* The allocator. *)

PassStates == [left : Nat, taken : Splits]

\* What a pass over T makes of a state: nobody takes more than it is owed, what is
\* taken is gone, and something is left only when all of T took all of it.
Passed(state, owed, T, r) ==
  /\ r \in PassStates
  /\ \A i \in Invoices \ T : r.taken[i] = state.taken[i]
  /\ \A i \in T : state.taken[i] <= r.taken[i] /\ r.taken[i] <= state.taken[i] + owed[i]
  /\ r.left > 0 => \A i \in T : r.taken[i] = state.taken[i] + owed[i]
  /\ state.left = 0 => r.left = 0 /\ \A i \in T : r.taken[i] = state.taken[i]
  /\ SumFunction(r.taken) + r.left = SumFunction(state.taken) + state.left

LEMMA LastIsIn ==
  ASSUME NEW T \in SUBSET Invoices, T # {}
  PROVE  LastOf(T) \in T
<1> DEFINE G == {t \in SUBSET Invoices : t = {} \/ \E i \in t : \A j \in t : Rank[j] <= Rank[i]}
<1> DEFINE pick == [t \in SUBSET Invoices |-> CHOOSE x \in t : TRUE]
<1>1. \A t \in SUBSET Invoices : t # {} => pick[t] \in t
  OBVIOUS
<1> HIDE DEF pick
<1>2. ASSUME NEW t \in SUBSET Invoices, t # {}, t \ {pick[t]} \in G PROVE t \in G
  <2> DEFINE x == pick[t]
  <2>1. x \in t
    BY <1>1, <1>2
  <2>2. \A j \in t : Rank[j] \in Nat
    BY LedgerConstants
  <2>3. CASE t \ {x} = {}
    <3>1. \A j \in t : j = x
      BY <2>1, <2>3
    <3> QED
      BY <2>1, <2>2, <3>1
  <2>4. CASE t \ {x} # {}
    <3>1. PICK i \in t \ {x} : \A j \in t \ {x} : Rank[j] <= Rank[i]
      BY <1>2, <2>4
    <3>2. CASE Rank[x] <= Rank[i]
      BY <3>1, <3>2
    <3>3. CASE ~ (Rank[x] <= Rank[i])
      <4>1. ASSUME NEW j \in t PROVE Rank[j] <= Rank[x]
        <5>1. Rank[j] \in Nat /\ Rank[i] \in Nat /\ Rank[x] \in Nat
          BY <2>1, <2>2
        <5>2. j = x \/ Rank[j] <= Rank[i]
          BY <3>1
        <5> QED
          BY <3>3, <5>1, <5>2
      <4> QED
        BY <2>1, <4>1
    <3> QED
      BY <3>2, <3>3
  <2> QED
    BY <2>3, <2>4
<1>3. {} \in G
  OBVIOUS
<1> HIDE DEF G
<1>4. T \in G
  <2>1. IsFiniteSet(Invoices)
    BY LedgerConstants
  <2>2. Grows(Invoices, G, pick)
    BY <1>1, <1>2, <1>3 DEF Grows
  <2>3. \A t \in SUBSET Invoices : t \in G
    BY <2>1, <2>2, PickedOut
  <2> QED
    BY <2>3
<1> QED
  BY <1>4 DEF G, LastOf

\* One invoice takes its part.
LEMMA PassStep ==
  ASSUME NEW T \in SUBSET Invoices, NEW i \in T, NEW state \in PassStates,
         NEW owed \in [Invoices -> Nat], NEW st, Passed(state, owed, T \ {i}, st)
  PROVE  LET take == Lesser(st.left, owed[i])
         IN Passed(state, owed, T, [left |-> st.left - take, taken |-> [st.taken EXCEPT ![i] = @ + take]])
<1> DEFINE take == Lesser(st.left, owed[i])
<1> DEFINE h == [st.taken EXCEPT ![i] = @ + take]
<1> DEFINE r == [left |-> st.left - take, taken |-> h]
<1>1. st.left \in Nat /\ st.taken \in [Invoices -> Nat] /\ owed[i] \in Nat
  BY DEF Passed, PassStates, Splits
<1>2. /\ take \in Nat /\ take <= st.left /\ take <= owed[i]
      /\ take = st.left \/ take = owed[i]
  BY <1>1 DEF Lesser
<1> HIDE DEF take
<1>3. /\ h \in [Invoices -> Nat] /\ h[i] = st.taken[i] + take
      /\ \A j \in Invoices : j # i => h[j] = st.taken[j]
  BY <1>1, <1>2
<1>4. r.left = st.left - take /\ r.taken = h
  OBVIOUS
<1>5. r \in PassStates
  BY <1>1, <1>2, <1>3 DEF PassStates, Splits
<1>6. SumFunction(h) + (st.left - take) = SumFunction(st.taken) + st.left
  <2>1. st.taken \in [Invoices -> Int] /\ h \in [Invoices -> Int] /\ IsFiniteSet(Invoices)
    BY <1>1, <1>3, LedgerConstants
  <2> HIDE DEF h
  <2>2. /\ SumFunction(st.taken) \in Int /\ SumFunction(h) \in Int
        /\ SumFunction(h) = SumFunction(st.taken) + (h[i] - st.taken[i])
    BY <1>3, <2>1, SumChanges
  <2>3. h[i] - st.taken[i] = take
    BY <1>1, <1>2, <1>3
  <2> QED
    BY <1>1, <1>2, <2>2, <2>3
<1>7. st.taken[i] = state.taken[i]
  BY DEF Passed
<1>8. ASSUME NEW j \in T
      PROVE  /\ state.taken[j] <= h[j] /\ h[j] <= state.taken[j] + owed[j]
             /\ st.left - take > 0 => h[j] = state.taken[j] + owed[j]
             /\ state.left = 0 => h[j] = state.taken[j]
  <2>1. state.taken[j] \in Nat /\ owed[j] \in Nat /\ st.taken[j] \in Nat
    BY <1>1 DEF PassStates, Splits
  <2>2. CASE j = i
    <3>1. state.left = 0 => st.left = 0
      BY DEF Passed
    <3> QED
      BY <1>1, <1>2, <1>3, <1>7, <2>1, <2>2, <3>1
  <2>3. CASE j # i
    <3>1. /\ state.taken[j] <= st.taken[j] /\ st.taken[j] <= state.taken[j] + owed[j]
          /\ st.left > 0 => st.taken[j] = state.taken[j] + owed[j]
          /\ state.left = 0 => st.taken[j] = state.taken[j]
      BY <2>3 DEF Passed
    <3>2. st.left - take > 0 => st.left > 0
      BY <1>1, <1>2
    <3>3. h[j] = st.taken[j]
      BY <1>3, <2>3
    <3> QED
      BY <3>1, <3>2, <3>3
  <2> QED
    BY <2>2, <2>3
<1>9. state.left = 0 => st.left - take = 0
  BY <1>1, <1>2 DEF Passed
<1>10. \A j \in Invoices \ T : h[j] = state.taken[j]
  BY <1>3 DEF Passed
<1>11. SumFunction(st.taken) + st.left = SumFunction(state.taken) + state.left
  BY DEF Passed
<1> HIDE DEF h
<1>12. Passed(state, owed, T, r)
  BY <1>4, <1>5, <1>6, <1>8, <1>9, <1>10, <1>11 DEF Passed
<1> QED
  BY <1>12 DEF h, take

\* A pass, from the first invoice to the last.
LEMMA PassGives ==
  ASSUME NEW S \in SUBSET Invoices, NEW state \in PassStates, NEW owed \in [Invoices -> Nat]
  PROVE  Passed(state, owed, S, Pass(state, owed, S))
<1> DEFINE Solves(g) ==
      g = [T \in SUBSET S |->
             IF T = {} THEN state
             ELSE LET i    == LastOf(T)
                      st   == g[T \ {i}]
                      take == Lesser(st.left, owed[i])
                  IN [left |-> st.left - take, taken |-> [st.taken EXCEPT ![i] = @ + take]]]
<1> DEFINE upTo == CHOOSE g : Solves(g)
<1>1. Pass(state, owed, S) = upTo[S]
  BY DEF Pass
<1> DEFINE pick == [T \in SUBSET S |-> LastOf(T)]
<1> DEFINE step == [i \in S |-> [st \in PassStates |->
                     LET take == Lesser(st.left, owed[i])
                     IN [left |-> st.left - take, taken |-> [st.taken EXCEPT ![i] = @ + take]]]]
<1>2. \A T \in SUBSET S : T # {} => pick[T] \in T /\ pick[T] = LastOf(T)
  BY LastIsIn
<1>3. ASSUME NEW i \in S, NEW st \in PassStates PROVE step[i][st] \in PassStates
  <2> DEFINE take == Lesser(st.left, owed[i])
  <2>1. st.left \in Nat /\ st.taken \in [Invoices -> Nat] /\ owed[i] \in Nat
    BY DEF PassStates, Splits
  <2>2. take \in Nat /\ st.left - take \in Nat
    BY <2>1 DEF Lesser
  <2>3. step[i][st] = [left |-> st.left - take, taken |-> [st.taken EXCEPT ![i] = @ + take]]
    OBVIOUS
  <2> HIDE DEF take, step
  <2>4. [st.taken EXCEPT ![i] = @ + take] \in [Invoices -> Nat]
    BY <2>1, <2>2
  <2> QED
    BY <2>2, <2>3, <2>4 DEF PassStates, Splits
<1>4. PICK g \in [SUBSET S -> PassStates] :
        \A T \in SUBSET S : g[T] = IF T = {} THEN state ELSE step[pick[T]][g[T \ {pick[T]}]]
  <2> HIDE DEF pick, step
  <2>1. IsFiniteSet(S)
    BY LedgerConstants, FS_Subset
  <2>2. Recursions(S, PassStates, state, pick, step) # {}
    BY <1>2, <1>3, <2>1, RecursionOnSets
  <2> QED
    BY <2>2 DEF Recursions
<1>5. Solves(g)
  <2>1. ASSUME NEW T \in SUBSET S, T # {}
        PROVE  g[T] = LET i    == LastOf(T)
                          st   == g[T \ {i}]
                          take == Lesser(st.left, owed[i])
                      IN [left |-> st.left - take, taken |-> [st.taken EXCEPT ![i] = @ + take]]
    <3>1. pick[T] \in S /\ pick[T] = LastOf(T) /\ g[T \ {pick[T]}] \in PassStates
      BY <1>2, <2>1
    <3>2. g[T] = step[pick[T]][g[T \ {pick[T]}]]
      BY <1>4, <2>1
    <3> QED
      BY <3>1, <3>2
  <2>2. g[{}] = state
    BY <1>4
  <2> QED
    BY <2>1, <2>2
<1>6. Solves(upTo)
  <2> HIDE DEF Solves
  <2> QED
    BY <1>5
<1> HIDE DEF upTo, step
<1> DEFINE G == {T \in SUBSET S : Passed(state, owed, T, upTo[T])}
<1>7. {} \in G
  <2>1. upTo[{}] = state
    BY <1>6
  <2> QED
    BY <2>1 DEF Passed
<1>8. ASSUME NEW T \in SUBSET S, T # {}, T \ {pick[T]} \in G PROVE T \in G
  <2> DEFINE i == LastOf(T)
  <2> DEFINE st == upTo[T \ {i}]
  <2> DEFINE take == Lesser(st.left, owed[i])
  <2>1. i \in T /\ T \in SUBSET Invoices /\ Passed(state, owed, T \ {i}, st)
    BY <1>2, <1>8
  <2>2. upTo[T] = [left |-> st.left - take, taken |-> [st.taken EXCEPT ![i] = @ + take]]
    BY <1>6, <1>8
  <2> HIDE DEF i, st
  <2>3. Passed(state, owed, T, [left |-> st.left - take, taken |-> [st.taken EXCEPT ![i] = @ + take]])
    BY <2>1, PassStep
  <2> QED
    BY <2>2, <2>3
<1> HIDE DEF G, pick
<1>9. S \in G
  <2>1. IsFiniteSet(S)
    BY LedgerConstants, FS_Subset
  <2>2. Grows(S, G, pick)
    BY <1>2, <1>7, <1>8 DEF Grows
  <2>3. \A T \in SUBSET S : T \in G
    BY <2>1, <2>2, PickedOut
  <2> QED
    BY <2>3
<1> QED
  BY <1>1, <1>9 DEF G

\* What an invoice owes, carried or not.
LEMMA Unpaid ==
  ASSUME TypeOK, NEW i \in Invoices
  PROVE  LET inv == invoice[i]
         IN /\ Due(inv) \in Int /\ inv.paid \in Int
            /\ OpeningUnpaid(inv) \in Nat /\ RestUnpaid(inv) \in Nat
            /\ Takes(inv) => OpeningUnpaid(inv) + RestUnpaid(inv) = Due(inv) - inv.paid
<1> DEFINE inv == invoice[i]
<1> DEFINE carried == inv.opening - inv.paid
<1> DEFINE all == Due(inv) - inv.paid
<1>1. /\ inv.opening \in Nat /\ inv.charge \in Nat /\ inv.adjustments \in Int /\ inv.paid \in Int
      /\ Due(inv) \in Int
  BY DEF TypeOK, Due
<1>2. carried \in Int /\ all \in Int
  BY <1>1
<1>3. OpeningUnpaid(inv) = Lesser(Atleast0(carried), Atleast0(all))
  BY DEF OpeningUnpaid
<1>4. RestUnpaid(inv) = Atleast0(all) - OpeningUnpaid(inv)
  BY DEF RestUnpaid
<1>5. Takes(inv) => all > 0
  BY <1>1 DEF Takes
<1> HIDE DEF carried, all
<1>6. Atleast0(all) \in Nat /\ Atleast0(carried) \in Nat /\ (all > 0 => Atleast0(all) = all)
  BY <1>2 DEF Atleast0
<1>7. OpeningUnpaid(inv) \in Nat /\ OpeningUnpaid(inv) <= Atleast0(all)
  BY <1>3, <1>6 DEF Lesser
<1>8. RestUnpaid(inv) \in Nat /\ OpeningUnpaid(inv) + RestUnpaid(inv) = Atleast0(all)
  <2> DEFINE opening == OpeningUnpaid(inv)
  <2> DEFINE rest == RestUnpaid(inv)
  <2> DEFINE sum == Atleast0(all)
  <2>1. opening \in Nat /\ sum \in Nat /\ opening <= sum /\ rest = sum - opening
    BY <1>4, <1>6, <1>7
  <2> HIDE DEF opening, rest, sum
  <2>2. rest \in Nat /\ opening + rest = sum
    BY <2>1
  <2> QED
    BY <2>2 DEF opening, rest, sum
<1>9. Takes(inv) => Atleast0(all) = Due(inv) - inv.paid
  BY <1>5, <1>6 DEF all
<1> QED
  BY <1>1, <1>7, <1>8, <1>9

\* What Allocate promises: nobody gets more than it owes, no more goes than there is,
\* what is left over is left because everybody has all, and no current charge is paid
\* while a carried balance is open.
Allots(amount, S, taken) ==
  /\ taken \in Splits
  /\ Touched(taken) \subseteq S
  /\ \A i \in S : taken[i] <= Due(invoice[i]) - invoice[i].paid
  /\ SumFunction(taken) \in Int /\ SumFunction(taken) <= amount
  /\ amount - SumFunction(taken) > 0 => \A i \in S : taken[i] = Due(invoice[i]) - invoice[i].paid
  /\ \A i, j \in S : taken[i] < OpeningUnpaid(invoice[i]) => taken[j] <= OpeningUnpaid(invoice[j])

LEMMA AllocateAllots ==
  ASSUME TypeOK, NEW amount \in Nat, NEW S \in SUBSET Candidates
  PROVE  Allots(amount, S, Allocate(amount, S))
<1> DEFINE none == [left |-> amount, taken |-> Nothing]
<1> DEFINE carried == [i \in Invoices |-> OpeningUnpaid(invoice[i])]
<1> DEFINE rest == [i \in Invoices |-> RestUnpaid(invoice[i])]
<1> DEFINE first == Pass(none, carried, S)
<1> DEFINE second == Pass(first, rest, S)
<1>1. S \in SUBSET Invoices /\ \A i \in S : i \in Invoices /\ Takes(invoice[i])
  BY DEF Candidates
<1>2. none \in PassStates /\ none.left = amount /\ none.taken = Nothing
  BY DEF PassStates, Splits, Nothing
<1>3. carried \in [Invoices -> Nat] /\ rest \in [Invoices -> Nat]
  BY Unpaid
<1>4. \A i \in S : /\ carried[i] = OpeningUnpaid(invoice[i])
                   /\ carried[i] + rest[i] = Due(invoice[i]) - invoice[i].paid
                   /\ Due(invoice[i]) - invoice[i].paid \in Int
  BY <1>1, Unpaid
<1>5. Allocate(amount, S) = second.taken
  BY DEF Allocate
<1> HIDE DEF none, carried, rest
<1>6. Passed(none, carried, S, first)
  BY <1>1, <1>2, <1>3, PassGives
<1> HIDE DEF first
<1>7. first \in PassStates
  BY <1>6 DEF Passed
<1>8. Passed(first, rest, S, second)
  BY <1>1, <1>3, <1>7, PassGives
<1> HIDE DEF second
<1> DEFINE taken == second.taken
<1>9. /\ taken \in [Invoices -> Nat] /\ first.taken \in [Invoices -> Nat]
      /\ first.left \in Nat /\ second.left \in Nat
  BY <1>7, <1>8 DEF Passed, PassStates, Splits
<1>10. \A i \in Invoices : none.taken[i] = 0
  BY <1>2 DEF Nothing
<1>11. ASSUME NEW i \in S
       PROVE  /\ first.taken[i] <= carried[i]
              /\ first.left > 0 => first.taken[i] = carried[i]
              /\ first.taken[i] <= taken[i] /\ taken[i] <= first.taken[i] + rest[i]
              /\ second.left > 0 => first.left > 0 /\ taken[i] = first.taken[i] + rest[i]
              /\ first.left = 0 => taken[i] = first.taken[i]
              /\ i \in Invoices /\ carried[i] \in Nat /\ rest[i] \in Nat
              /\ taken[i] \in Nat /\ first.taken[i] \in Nat
  <2>1. i \in Invoices /\ none.taken[i] = 0
    BY <1>1, <1>10
  <2>2. first.taken[i] <= 0 + carried[i] /\ (first.left > 0 => first.taken[i] = 0 + carried[i])
    BY <1>6, <2>1 DEF Passed
  <2>3. /\ first.taken[i] <= taken[i] /\ taken[i] <= first.taken[i] + rest[i]
        /\ second.left > 0 => taken[i] = first.taken[i] + rest[i]
        /\ first.left = 0 => second.left = 0 /\ taken[i] = first.taken[i]
    BY <1>8 DEF Passed
  <2>4. carried[i] \in Nat /\ rest[i] \in Nat /\ taken[i] \in Nat /\ first.taken[i] \in Nat
    BY <1>3, <1>9, <2>1
  <2> QED
    BY <1>9, <2>1, <2>2, <2>3, <2>4
<1>12. Touched(taken) \subseteq S
  <2>1. \A i \in Invoices \ S : taken[i] = 0
    BY <1>6, <1>8, <1>10 DEF Passed
  <2> QED
    BY <2>1 DEF Touched
<1>13. SumFunction(taken) + second.left = amount /\ SumFunction(taken) \in Int
  <2>1. IsFiniteSet(Invoices)
    BY LedgerConstants
  <2>2. taken \in [Invoices -> Int] /\ first.taken \in [Invoices -> Int] /\ Nothing \in [Invoices -> Int]
    BY <1>9 DEF Nothing
  <2>3. \A i \in Invoices : Nothing[i] = 0
    BY DEF Nothing
  <2>4. SumFunction(taken) \in Int /\ SumFunction(first.taken) \in Int /\ SumFunction(Nothing) = 0
    BY <2>1, <2>2, <2>3, SumIsInt
  <2>5. SumFunction(first.taken) + first.left = 0 + amount
    BY <1>2, <1>6, <2>4 DEF Passed
  <2>6. SumFunction(taken) + second.left = SumFunction(first.taken) + first.left
    BY <1>8 DEF Passed
  <2> QED
    BY <1>9, <2>4, <2>5, <2>6
<1>14. SumFunction(taken) <= amount /\ (amount - SumFunction(taken) > 0 => second.left > 0)
  BY <1>9, <1>13
<1>15. \A i \in S : taken[i] <= Due(invoice[i]) - invoice[i].paid
  BY <1>4, <1>11
<1>16. second.left > 0 => \A i \in S : taken[i] = Due(invoice[i]) - invoice[i].paid
  BY <1>4, <1>9, <1>11
<1>17. ASSUME NEW i \in S, NEW j \in S, taken[i] < OpeningUnpaid(invoice[i])
       PROVE  taken[j] <= OpeningUnpaid(invoice[j])
  <2>1. taken[i] < carried[i]
    BY <1>4, <1>17
  <2>2. first.left = 0
    BY <1>9, <1>11, <2>1
  <2>3. taken[j] <= carried[j]
    BY <1>11, <2>2
  <2> QED
    BY <1>4, <2>3
<1> QED
  BY <1>5, <1>9, <1>12, <1>13, <1>14, <1>15, <1>16, <1>17 DEF Allots, Splits

-----------------------------------------------------------------------------
(* Statuses and amounts. *)

\* A draft has no money on it, and what a remainder is allocated from is not negative.
Drafts ==
  /\ \A c \in Calls : call[c].op = "auto" => call[c].amount \in Nat
  /\ \A i \in Invoices : invoice[i].status = "draft" =>
       invoice[i].paid = 0 /\ \A p \in Calls : split[p][i] = 0

MInv == IInv /\ TypeOK /\ Drafts /\ StatusTellsMoney

PaymentRows == [amount : Nat, reverses : Calls \cup {NoPayment}, reversed : BOOLEAN]
InvoiceRows == [status : Statuses, opening : Nat, charge : Nat, adjustments : Int, paid : Int]
CallRows    == [at : {"new", "locking", "judged", "inserted", "summed", "done"},
                op : {"none", "record", "reallocate", "reverse", "auto", "adjust", "void"},
                on : Calls \cup {NoPayment}, amount : Int, parts : [Invoices -> Int],
                wants : SUBSET Invoices, holds : SUBSET Invoices]

\* What one invoice's status tells.
Tells(inv) ==
  /\ inv.status = "issued" => inv.paid <= 0
  /\ inv.status = "partially_paid" => inv.paid > 0 /\ (inv.paid < Due(inv) \/ Due(inv) <= 0)
  /\ inv.status = "paid" => inv.paid > 0 /\ inv.paid >= Due(inv)

LEMMA PaidIsInt ==
  ASSUME NEW pays \in [Calls -> PaymentRows], NEW splits \in [Calls -> Splits], NEW i \in Invoices
  PROVE  PaidOn(i, pays, splits) \in Int
<1> DEFINE f == [p \in Calls |-> IF pays[p].reverses = NoPayment THEN splits[p][i] ELSE -splits[p][i]]
<1>1. f \in [Calls -> Int]
  BY DEF Splits
<1>2. IsFiniteSet(Calls)
  BY LedgerConstants
<1> HIDE DEF f
<1>3. SumFunction(f) \in Int
  BY <1>1, <1>2, SumIsInt
<1> QED
  BY <1>3 DEF PaidOn, f

\* The two recomputations of an invoice.
LEMMA RecalcPaid ==
  ASSUME NEW inv \in InvoiceRows, NEW paid \in Int
  PROVE  LET new == RecalcInvoicePaid(inv, paid)
         IN /\ new \in InvoiceRows /\ Due(new) = Due(inv) /\ new.paid = paid
            /\ new.status = "draft" <=> inv.status = "draft"
            /\ inv.status \notin {"draft", "void"} => Tells(new)
            /\ inv.status \in {"draft", "void"} => new.status = inv.status
<1> DEFINE new == RecalcInvoicePaid(inv, paid)
<1>1. /\ inv.opening \in Nat /\ inv.charge \in Nat /\ inv.adjustments \in Int /\ inv.status \in Statuses
      /\ Due(inv) \in Int
  BY DEF InvoiceRows, Due
<1> DEFINE status == IF inv.status \in {"void", "draft"} THEN inv.status
                     ELSE IF paid >= Due(inv) /\ Due(inv) > 0 THEN "paid"
                     ELSE IF paid > 0 THEN "partially_paid" ELSE "issued"
<1>2. new = [inv EXCEPT !.paid = paid, !.status = status]
  BY DEF RecalcInvoicePaid
<1>3. /\ status \in Statuses
      /\ status = "draft" <=> inv.status = "draft"
      /\ inv.status \in {"draft", "void"} => status = inv.status
  BY <1>1 DEF Statuses
<1>4. inv.status \notin {"draft", "void"} =>
        /\ status = "issued" => paid <= 0
        /\ status = "partially_paid" => paid > 0 /\ (paid < Due(inv) \/ Due(inv) <= 0)
        /\ status = "paid" => paid > 0 /\ paid >= Due(inv)
  BY <1>1
<1> HIDE DEF status, new
<1>5. new = [status |-> status, opening |-> inv.opening, charge |-> inv.charge,
             adjustments |-> inv.adjustments, paid |-> paid]
  BY <1>2 DEF InvoiceRows
<1>6. new \in InvoiceRows /\ new.paid = paid /\ new.status = status /\ Due(new) = Due(inv)
  BY <1>1, <1>3, <1>5 DEF InvoiceRows, Due
<1> QED
  BY <1>3, <1>4, <1>6 DEF new, Tells

LEMMA RecalcTotals ==
  ASSUME NEW inv \in InvoiceRows, NEW total \in Int, Tells(inv)
  PROVE  LET new == RecalcInvoiceTotals(inv, total)
         IN /\ new \in InvoiceRows /\ new.paid = inv.paid
            /\ new.status = "draft" <=> inv.status = "draft"
            /\ Tells(new)
<1> DEFINE new == RecalcInvoiceTotals(inv, total)
<1> DEFINE due == inv.opening + inv.charge + total
<1>1. /\ inv.opening \in Nat /\ inv.charge \in Nat /\ inv.paid \in Int /\ inv.status \in Statuses
      /\ due \in Int
  BY DEF InvoiceRows
<1> HIDE DEF due
<1> DEFINE status == IF inv.status \in {"void", "draft"} THEN inv.status
                     ELSE IF inv.paid <= 0 THEN "issued"
                     ELSE IF inv.paid < due THEN "partially_paid" ELSE "paid"
<1>2. new = [inv EXCEPT !.adjustments = total, !.status = status]
  BY DEF RecalcInvoiceTotals, due
<1>3. /\ status \in Statuses /\ (status = "draft" <=> inv.status = "draft")
      /\ status = "issued" => inv.paid <= 0
      /\ status = "partially_paid" => inv.paid > 0 /\ inv.paid < due
      /\ status = "paid" => inv.paid > 0 /\ inv.paid >= due
  BY <1>1 DEF Statuses
<1> HIDE DEF status, new
<1>4. new = [status |-> status, opening |-> inv.opening, charge |-> inv.charge,
             adjustments |-> total, paid |-> inv.paid]
  BY <1>2 DEF InvoiceRows
<1>5. /\ new \in InvoiceRows /\ new.paid = inv.paid /\ new.status = status
      /\ Due(new) = due
  BY <1>1, <1>3, <1>4 DEF InvoiceRows, Due, due
<1> QED
  BY <1>3, <1>5 DEF new, Tells

LEMMA Typed ==
  /\ TypeOK <=> /\ invoice \in [Invoices -> InvoiceRows]
                /\ posted \in [Invoices -> Int]
                /\ payment \in [Calls -> PaymentRows]
                /\ split \in [Calls -> Splits]
                /\ call \in [Calls -> CallRows]
  /\ StatusTellsMoney <=> \A i \in Invoices : Tells(invoice[i])
BY DEF TypeOK, InvoiceRows, PaymentRows, CallRows, StatusTellsMoney, Tells

LEMMA IdleRows == Idle \in CallRows /\ Done \in CallRows /\ Done.op # "auto"
BY DEF Idle, Done, CallRows, Nothing

LEMMA InitMoney == Init => MInv
<1> SUFFICES ASSUME Init PROVE MInv
  OBVIOUS
<1>1. \A i \in Invoices : Bills[i] \in [status : {"draft", "issued"}, opening : Nat, charge : Nat]
  BY LedgerConstants
<1>2. invoice \in [Invoices -> InvoiceRows]
  BY <1>1 DEF Init, InvoiceRows, Statuses
<1>3. posted \in [Invoices -> Int]
  BY DEF Init
<1>4. payment \in [Calls -> PaymentRows]
  BY DEF Init, NoRow, PaymentRows
<1>5. split \in [Calls -> Splits]
  BY DEF Init, Splits, Nothing
<1>6. call \in [Calls -> CallRows] /\ \A c \in Calls : call[c].op = "none"
  BY IdleRows, Idles DEF Init
<1>7. Drafts
  BY <1>6 DEF Init, Drafts, Nothing
<1>8. \A i \in Invoices : Tells(invoice[i])
  BY <1>1 DEF Init, Tells
<1> QED
  BY <1>2, <1>3, <1>4, <1>5, <1>6, <1>7, <1>8, Typed, InitInv DEF MInv

\* What MInv adds to IInv.
Money == TypeOK /\ Drafts /\ StatusTellsMoney

\* A request that moves on, or an invoice that is corrected: nothing is paid.
LEMMA MovesKeep ==
  ASSUME MInv, NEW c \in Calls, NEW r \in CallRows, r.op = "auto" => r.amount \in Nat,
         call' = [call EXCEPT ![c] = r], UNCHANGED <<payment, split>>,
         posted' \in [Invoices -> Int], invoice' \in [Invoices -> InvoiceRows],
         \A i \in Invoices : /\ invoice'[i].status = "draft" => invoice[i].status = "draft"
                             /\ invoice'[i].paid = invoice[i].paid
                             /\ Tells(invoice'[i])
  PROVE  Money'
<1>1. call \in [Calls -> CallRows] /\ payment \in [Calls -> PaymentRows] /\ split \in [Calls -> Splits]
  BY Typed DEF MInv
<1>2. call' \in [Calls -> CallRows] /\ \A d \in Calls : call'[d] = IF d = c THEN r ELSE call[d]
  BY <1>1
<1>3. TypeOK'
  BY <1>1, <1>2 DEF TypeOK, CallRows, InvoiceRows, PaymentRows
<1>4. Drafts'
  BY <1>2 DEF MInv, Drafts
<1>5. StatusTellsMoney'
  BY DEF StatusTellsMoney, Tells
<1> QED
  BY <1>3, <1>4, <1>5 DEF Money

\* What a request records of itself when it begins or is judged.
LEMMA BeginMoney ==
  ASSUME MInv, NEW c \in Calls, NEW r \in CallRows, r.op = "auto" => r.amount \in Nat,
         call' = [call EXCEPT ![c] = r], UNCHANGED <<invoice, posted, payment, split>>
  PROVE  Money'
<1>1. invoice \in [Invoices -> InvoiceRows] /\ posted \in [Invoices -> Int]
  BY Typed DEF MInv
<1>2. \A i \in Invoices : Tells(invoice[i])
  BY Typed DEF MInv
<1>3. /\ posted' \in [Invoices -> Int] /\ invoice' \in [Invoices -> InvoiceRows]
      /\ \A i \in Invoices : /\ invoice'[i].status = "draft" => invoice[i].status = "draft"
                             /\ invoice'[i].paid = invoice[i].paid
                             /\ Tells(invoice'[i])
  BY <1>1, <1>2
<1>4. UNCHANGED <<payment, split>>
  OBVIOUS
<1> QED
  BY <1>3, <1>4, MovesKeep

LEMMA RequestMoney ==
  ASSUME MInv, NEW c \in Calls, Request(c)
  PROVE  Money'
<1>1. Candidates \subseteq Invoices /\ Nothing \in [Invoices -> Int]
  BY DEF Candidates, Nothing
<1>2. \A p \in Calls : Touched(split[p]) \subseteq Invoices
  BY DEF Touched
<1>3. ASSUME NEW op \in {"record", "reallocate", "reverse", "auto"}, NEW p \in Calls, NEW amount \in Int,
             NEW parts \in [Invoices -> Int], NEW wants \in SUBSET Invoices,
             op = "auto" => amount \in Nat, Begin(c, op, p, amount, parts, wants)
      PROVE  Money'
  <2> DEFINE r == [at |-> "locking", op |-> op, on |-> p, amount |-> amount,
                   parts |-> parts, wants |-> wants, holds |-> {}]
  <2>1. r \in CallRows
    BY DEF CallRows
  <2>2. r.op = "auto" => r.amount \in Nat
    BY <1>3
  <2>3. call' = [call EXCEPT ![c] = r] /\ UNCHANGED <<invoice, posted, payment, split>>
    BY <1>3 DEF Begin
  <2> HIDE DEF r
  <2> QED
    BY <2>1, <2>2, <2>3, BeginMoney
<1>4. ASSUME NEW op \in {"adjust", "void"}, NEW i \in Invoices, NEW amount \in Int, Judge(c, op, i, amount)
      PROVE  Money'
  <2> DEFINE r == [at |-> "judged", op |-> op, on |-> NoPayment, amount |-> amount,
                   parts |-> Nothing, wants |-> {i}, holds |-> {}]
  <2>1. r \in CallRows
    BY <1>1 DEF CallRows
  <2>2. r.op # "auto"
    BY <1>4
  <2>3. call' = [call EXCEPT ![c] = r] /\ UNCHANGED <<invoice, posted, payment, split>>
    BY <1>4 DEF Judge
  <2> HIDE DEF r
  <2> QED
    BY <2>1, <2>2, <2>3, BeginMoney
<1>5. ASSUME NEW a \in Amounts, Record(c, a) PROVE Money'
  <2>1. a \in Int
    BY LedgerConstants
  <2> QED
    BY <1>1, <1>3, <1>5, <2>1 DEF Record
<1>6. ASSUME NEW p \in Calls, NEW parts \in [Invoices -> Amounts \cup {0}], Reallocate(c, p, parts)
      PROVE  Money'
  <2>1. parts \in [Invoices -> Int]
    <3>1. Amounts \cup {0} \subseteq Int
      BY LedgerConstants
    <3> QED
      BY <3>1
  <2>2. Touched(split[p]) \cup Touched(parts) \subseteq Invoices
    BY DEF Touched
  <2> QED
    BY <1>3, <1>6, <2>1, <2>2 DEF Reallocate
<1>7. ASSUME NEW p \in Calls, Reverse(c, p) PROVE Money'
  BY <1>1, <1>2, <1>3, <1>7 DEF Reverse
<1>8. ASSUME NEW p \in Calls, AutoAllocateRemainder(c, p) PROVE Money'
  <2>1. split[p] \in [Invoices -> Int] /\ payment[p].amount \in Nat
    BY Typed DEF MInv, Splits, PaymentRows
  <2>2. SumFunction(split[p]) \in Int
    BY <2>1, LedgerConstants, SumIsInt
  <2>3. Remainder(p) \in Int
    BY <2>1, <2>2 DEF Remainder
  <2>4. Remainder(p) \in Nat
    BY <1>8, <2>3 DEF AutoAllocateRemainder
  <2> QED
    BY <1>1, <1>3, <1>8, <2>3, <2>4 DEF AutoAllocateRemainder
<1>9. ASSUME NEW i \in Invoices, NEW a \in Changes, AddAdjustment(c, i, a) PROVE Money'
  <2>1. a \in Int
    BY LedgerConstants
  <2> QED
    BY <1>4, <1>9, <2>1 DEF AddAdjustment
<1>10. ASSUME NEW i \in Invoices, JudgeVoid(c, i) PROVE Money'
  BY <1>4, <1>10 DEF JudgeVoid
<1> QED
  BY <1>5, <1>6, <1>7, <1>8, <1>9, <1>10 DEF Request

LEMMA AdvanceMoney ==
  ASSUME MInv, NEW c \in Calls,
         LockNext(c) \/ RefuseReallocate(c) \/ CreateAdjustment(c) \/ SumAdjustments(c)
  PROVE  Money'
<1>1. /\ call \in [Calls -> CallRows] /\ posted \in [Invoices -> Int]
      /\ call[c].op = "auto" => call[c].amount \in Nat
  BY Typed DEF MInv, Drafts
<1>2. UNCHANGED <<invoice, posted, payment, split>>
  BY DEF LockNext, RefuseReallocate, CreateAdjustment, SumAdjustments
<1>3. \E r \in CallRows : /\ call' = [call EXCEPT ![c] = r]
                          /\ r.op = "auto" => r.amount \in Nat
  <2>1. CASE LockNext(c)
    <3>1. PICK i \in call[c].wants :
            call' = [call EXCEPT ![c].wants = @ \ {i}, ![c].holds = @ \cup {i}]
      BY <2>1 DEF LockNext
    <3> DEFINE r == [call[c] EXCEPT !.wants = @ \ {i}, !.holds = @ \cup {i}]
    <3>2. call' = [call EXCEPT ![c] = r]
      BY <1>1, <3>1
    <3>3. r \in CallRows /\ r.op = call[c].op /\ r.amount = call[c].amount
      BY <1>1, <3>1 DEF CallRows
    <3> QED
      BY <1>1, <3>2, <3>3
  <2>2. CASE RefuseReallocate(c)
    BY <2>2, IdleRows DEF RefuseReallocate
  <2>3. CASE CreateAdjustment(c)
    <3> DEFINE r == [call[c] EXCEPT !.at = "inserted"]
    <3>1. call' = [call EXCEPT ![c] = r]
      BY <1>1, <2>3 DEF CreateAdjustment
    <3>2. r \in CallRows /\ r.op = call[c].op /\ r.amount = call[c].amount
      BY <1>1 DEF CallRows
    <3> QED
      BY <1>1, <3>1, <3>2
  <2>4. CASE SumAdjustments(c)
    <3>1. PICK i \in call[c].wants :
            call' = [call EXCEPT ![c].at = "summed",
                                 ![c].parts = [Nothing EXCEPT ![i] = posted[i] + call[c].amount]]
      BY <2>4 DEF SumAdjustments
    <3> DEFINE parts == [Nothing EXCEPT ![i] = posted[i] + call[c].amount]
    <3> DEFINE r == [call[c] EXCEPT !.at = "summed", !.parts = parts]
    <3>2. call' = [call EXCEPT ![c] = r]
      BY <1>1, <3>1
    <3>3. i \in Invoices /\ posted[i] + call[c].amount \in Int
      BY <1>1, <3>1 DEF CallRows
    <3>4. parts \in [Invoices -> Int]
      BY <3>3 DEF Nothing
    <3> HIDE DEF parts
    <3>5. r \in CallRows /\ r.op = call[c].op /\ r.amount = call[c].amount
      BY <1>1, <3>4 DEF CallRows
    <3> QED
      BY <1>1, <3>2, <3>5
  <2> QED
    BY <2>1, <2>2, <2>3, <2>4
<1> QED
  BY <1>2, <1>3, BeginMoney

LEMMA CorrectedMoney ==
  ASSUME MInv, NEW c \in Calls, CommitAdjustment(c) \/ VoidInvoice(c)
  PROVE  Money'
<1>1. /\ call \in [Calls -> CallRows] /\ posted \in [Invoices -> Int]
      /\ invoice \in [Invoices -> InvoiceRows] /\ \A i \in Invoices : Tells(invoice[i])
  BY Typed DEF MInv
<1>2. call' = [call EXCEPT ![c] = Done] /\ UNCHANGED <<payment, split>>
  BY DEF CommitAdjustment, VoidInvoice
<1>3. PICK i \in Invoices : \E inv \in InvoiceRows :
        /\ invoice' = [invoice EXCEPT ![i] = inv] /\ posted' \in [Invoices -> Int]
        /\ inv.status = "draft" => invoice[i].status = "draft"
        /\ inv.paid = invoice[i].paid
        /\ Tells(inv)
  <2>1. CASE CommitAdjustment(c)
    <3>1. PICK i \in call[c].wants :
            /\ invoice' = [invoice EXCEPT ![i] = RecalcInvoiceTotals(@, call[c].parts[i])]
            /\ posted' = [posted EXCEPT ![i] = @ + call[c].amount]
      BY <2>1 DEF CommitAdjustment
    <3>2. i \in Invoices /\ call[c].parts[i] \in Int /\ call[c].amount \in Int
      BY <1>1, <3>1 DEF CallRows
    <3>3. posted' \in [Invoices -> Int]
      BY <1>1, <3>1, <3>2
    <3> DEFINE inv == RecalcInvoiceTotals(invoice[i], call[c].parts[i])
    <3>4. invoice' = [invoice EXCEPT ![i] = inv]
      BY <1>1, <3>1
    <3>5. /\ inv \in InvoiceRows /\ inv.paid = invoice[i].paid
          /\ inv.status = "draft" <=> invoice[i].status = "draft"
          /\ Tells(inv)
      BY <1>1, <3>2, RecalcTotals
    <3> HIDE DEF inv
    <3> QED
      BY <3>2, <3>3, <3>4, <3>5
  <2>2. CASE VoidInvoice(c)
    <3>1. PICK i \in call[c].wants :
            /\ invoice' = [invoice EXCEPT ![i].status =
                             IF @ \in {"issued", "partially_paid"} THEN "void" ELSE @]
            /\ posted' = posted
      BY <2>2 DEF VoidInvoice
    <3>2. i \in Invoices
      BY <1>1, <3>1 DEF CallRows
    <3> DEFINE old == invoice[i]
    <3> DEFINE status == IF old.status \in {"issued", "partially_paid"} THEN "void" ELSE old.status
    <3> DEFINE inv == [old EXCEPT !.status = status]
    <3>3. invoice' = [invoice EXCEPT ![i] = inv]
      BY <1>1, <3>1
    <3>4. old \in InvoiceRows /\ Tells(old)
      BY <1>1, <3>2
    <3>5. /\ status \in Statuses /\ (status = "draft" => old.status = "draft")
          /\ status = "void" \/ status = old.status
      BY <3>4 DEF Statuses, InvoiceRows
    <3> HIDE DEF status, old
    <3>6. /\ inv \in InvoiceRows /\ inv.paid = old.paid /\ inv.status = status
          /\ Due(inv) = Due(old)
      BY <3>4, <3>5 DEF InvoiceRows, Due
    <3>7. Tells(inv)
      BY <3>4, <3>5, <3>6 DEF Tells
    <3> HIDE DEF inv
    <3> QED
      BY <1>1, <3>1, <3>2, <3>3, <3>5, <3>6, <3>7 DEF old
  <2> QED
    BY <2>1, <2>2
<1>4. PICK inv \in InvoiceRows :
        /\ invoice' = [invoice EXCEPT ![i] = inv] /\ posted' \in [Invoices -> Int]
        /\ inv.status = "draft" => invoice[i].status = "draft"
        /\ inv.paid = invoice[i].paid
        /\ Tells(inv)
  BY <1>3
<1>5. invoice' \in [Invoices -> InvoiceRows]
  BY <1>1, <1>4
<1>6. \A j \in Invoices : /\ invoice'[j].status = "draft" => invoice[j].status = "draft"
                          /\ invoice'[j].paid = invoice[j].paid
                          /\ Tells(invoice'[j])
  BY <1>1, <1>4
<1> QED
  BY <1>2, <1>4, <1>5, <1>6, IdleRows, MovesKeep

\* A draft that is issued owes, and has no money on it.
LEMMA CloseMoney ==
  ASSUME MInv, NEW i \in Invoices, CloseIssues(i)
  PROVE  Money'
<1>1. /\ call \in [Calls -> CallRows] /\ posted \in [Invoices -> Int]
      /\ payment \in [Calls -> PaymentRows] /\ split \in [Calls -> Splits]
      /\ invoice \in [Invoices -> InvoiceRows] /\ \A j \in Invoices : Tells(invoice[j])
  BY Typed DEF MInv
<1>2. UNCHANGED <<posted, payment, split, call>> /\ invoice[i].status = "draft"
  BY DEF CloseIssues
<1> DEFINE old == invoice[i]
<1> DEFINE status == IF old.opening = 0 /\ old.charge = 0 /\ old.adjustments = 0 THEN "void" ELSE "issued"
<1> DEFINE inv == [old EXCEPT !.status = status]
<1>3. invoice' = [invoice EXCEPT ![i] = inv]
  BY <1>1 DEF CloseIssues
<1>4. old.paid = 0 /\ old \in InvoiceRows
  BY <1>1, <1>2 DEF MInv, Drafts
<1>5. status \in {"void", "issued"}
  OBVIOUS
<1> HIDE DEF status, old
<1>6. inv \in InvoiceRows /\ inv.paid = 0 /\ inv.status = status
  BY <1>4, <1>5 DEF InvoiceRows, Statuses
<1>7. Tells(inv)
  BY <1>5, <1>6 DEF Tells
<1> HIDE DEF inv
<1>8. invoice' \in [Invoices -> InvoiceRows]
  BY <1>1, <1>3, <1>6
<1>9. \A j \in Invoices : invoice'[j] = IF j = i THEN inv ELSE invoice[j]
  BY <1>1, <1>3
<1>10. \A j \in Invoices : Tells(invoice'[j])
  BY <1>1, <1>7, <1>9
<1>11. TypeOK'
  BY <1>1, <1>2, <1>8 DEF TypeOK, CallRows, InvoiceRows, PaymentRows
<1>12. Drafts'
  BY <1>2, <1>5, <1>6, <1>9 DEF MInv, Drafts
<1>13. StatusTellsMoney'
  BY <1>10 DEF StatusTellsMoney, Tells
<1> QED
  BY <1>11, <1>12, <1>13 DEF Money

\* A commit that writes rows of numbers, and touches no draft.
LEMMA CommitMoney ==
  ASSUME MInv, NEW c \in Calls, NEW pays \in [Calls -> PaymentRows], NEW splits \in [Calls -> Splits],
         NEW touched, Commit(c, pays, splits, touched),
         \A i \in Invoices : invoice[i].status = "draft" =>
           i \notin touched /\ \A p \in Calls : splits[p][i] = 0
  PROVE  Money'
<1>1. /\ call \in [Calls -> CallRows] /\ posted \in [Invoices -> Int]
      /\ invoice \in [Invoices -> InvoiceRows] /\ \A i \in Invoices : Tells(invoice[i])
  BY Typed DEF MInv
<1>2. /\ payment' = pays /\ split' = splits /\ call' = [call EXCEPT ![c] = Done] /\ posted' = posted
      /\ invoice' = [i \in Invoices |-> IF i \in touched
                                        THEN RecalcInvoicePaid(invoice[i], PaidOn(i, pays, splits))
                                        ELSE invoice[i]]
  BY DEF Commit
<1>3. call' \in [Calls -> CallRows] /\ \A d \in Calls : call'[d] = IF d = c THEN Done ELSE call[d]
  BY <1>1, <1>2, IdleRows
<1>4. ASSUME NEW i \in Invoices
      PROVE  /\ invoice'[i] \in InvoiceRows /\ Tells(invoice'[i])
             /\ invoice'[i].status = "draft" => invoice[i].status = "draft" /\ invoice'[i].paid = invoice[i].paid
  <2>1. CASE i \in touched
    <3> DEFINE paid == PaidOn(i, pays, splits)
    <3>1. paid \in Int
      BY PaidIsInt
    <3>2. invoice'[i] = RecalcInvoicePaid(invoice[i], paid) /\ invoice[i] \in InvoiceRows
      BY <1>1, <1>2, <2>1
    <3>3. invoice[i].status # "draft"
      BY <2>1
    <3> HIDE DEF paid
    <3>4. /\ invoice'[i] \in InvoiceRows
          /\ invoice'[i].status # "draft"
          /\ invoice[i].status # "void" => Tells(invoice'[i])
          /\ invoice[i].status = "void" => invoice'[i].status = "void"
      BY <3>1, <3>2, <3>3, RecalcPaid
    <3> QED
      BY <3>4 DEF Tells
  <2>2. CASE i \notin touched
    BY <1>1, <1>2, <2>2
  <2> QED
    BY <2>1, <2>2
<1>5. invoice' \in [Invoices -> InvoiceRows]
  <2>1. invoice' = [i \in Invoices |-> invoice'[i]]
    BY <1>2
  <2> QED
    BY <1>4, <2>1
<1>6. TypeOK'
  BY <1>1, <1>2, <1>3, <1>5 DEF TypeOK, CallRows, InvoiceRows, PaymentRows
<1>7. Drafts'
  BY <1>2, <1>3, <1>4, IdleRows DEF MInv, Drafts
<1>8. StatusTellsMoney'
  BY <1>4 DEF StatusTellsMoney, Tells
<1> QED
  BY <1>6, <1>7, <1>8 DEF Money

\* What a commit of a new payment or of a remainder finds and allocates.
LEMMA Allocated ==
  ASSUME MInv, NEW c \in Calls, CommitRecord(c) \/ CommitAuto(c)
  PROVE  LET S == call[c].holds \cap Candidates
             taken == Allocate(call[c].amount, S)
             p == call[c].on
         IN /\ S \in SUBSET Candidates /\ Allots(call[c].amount, S, taken)
            /\ p \in Calls
            /\ split' = [split EXCEPT ![p] = Adding(taken, split[p])]
            /\ \A q \in Calls : payment'[q].reverses = payment[q].reverses
            /\ payment[p].reverses = NoPayment
            /\ payment' \in [Calls -> PaymentRows]
            /\ Adding(taken, split[p]) \in Splits
            /\ \A i \in Invoices : Adding(taken, split[p])[i] = split[p][i] + taken[i]
            /\ Commit(c, payment', split', Touched(taken))
<1> DEFINE S == call[c].holds \cap Candidates
<1> DEFINE taken == Allocate(call[c].amount, S)
<1> DEFINE p == call[c].on
<1>1. /\ payment \in [Calls -> PaymentRows] /\ split \in [Calls -> Splits] /\ call \in [Calls -> CallRows]
      /\ call[c].amount \in Nat /\ call[c].at = "locking" /\ call[c].op \in {"record", "auto"}
  BY Typed DEF MInv, IInv, Shapes, Drafts, CommitRecord, CommitAuto, Locked
<1>2. Allots(call[c].amount, S, taken)
  BY <1>1, AllocateAllots DEF MInv
<1>3. p \in Calls /\ payment[p].reverses = NoPayment /\ (call[c].op = "record" => p = c)
  BY <1>1 DEF MInv, IInv, Locks, Live, NoRow
<1> HIDE DEF taken
<1>4. taken \in [Invoices -> Nat] /\ split[p] \in [Invoices -> Nat]
  BY <1>1, <1>2, <1>3 DEF Allots, Splits
<1>5. /\ Adding(taken, split[p]) \in Splits
      /\ \A i \in Invoices : Adding(taken, split[p])[i] = split[p][i] + taken[i]
  BY <1>4 DEF Adding, Splits
<1>6. CASE CommitRecord(c)
  <2> DEFINE row == [NoRow EXCEPT !.amount = call[c].amount]
  <2>1. Commit(c, [payment EXCEPT ![c] = row], [split EXCEPT ![c] = Adding(taken, Nothing)], Touched(taken))
    BY <1>6 DEF CommitRecord, taken
  <2>2. p = c /\ split[c] = Nothing /\ payment[c] = NoRow
    BY <1>1, <1>3, <1>6 DEF CommitRecord, Locked, MInv, IInv, Locks
  <2>3. row \in PaymentRows /\ row.reverses = NoPayment
    BY <1>1 DEF NoRow, PaymentRows
  <2>4. payment' = [payment EXCEPT ![c] = row] /\ split' = [split EXCEPT ![c] = Adding(taken, Nothing)]
    BY <2>1 DEF Commit
  <2> HIDE DEF row
  <2>5. /\ payment' \in [Calls -> PaymentRows]
        /\ \A q \in Calls : payment'[q].reverses = payment[q].reverses
    BY <1>1, <1>3, <2>2, <2>3, <2>4
  <2>6. Commit(c, payment', split', Touched(taken))
    BY <2>1, <2>4
  <2> QED
    BY <1>2, <1>3, <1>5, <2>2, <2>4, <2>5, <2>6 DEF taken
<1>7. CASE CommitAuto(c)
  <2>1. Commit(c, payment, [split EXCEPT ![p] = Adding(taken, @)], Touched(taken))
    BY <1>7 DEF CommitAuto, taken
  <2>2. payment' = payment /\ split' = [split EXCEPT ![p] = Adding(taken, split[p])]
    BY <1>1, <1>3, <2>1 DEF Commit
  <2>3. Commit(c, payment', split', Touched(taken))
    BY <2>1, <2>2 DEF Commit
  <2> QED
    BY <1>1, <1>2, <1>3, <1>5, <2>2, <2>3 DEF taken
<1> QED
  BY <1>6, <1>7

LEMMA AllocatedMoney ==
  ASSUME MInv, NEW c \in Calls, CommitRecord(c) \/ CommitAuto(c)
  PROVE  Money'
<1> DEFINE S == call[c].holds \cap Candidates
<1> DEFINE taken == Allocate(call[c].amount, S)
<1> DEFINE p == call[c].on
<1>1. /\ S \in SUBSET Candidates /\ Allots(call[c].amount, S, taken)
      /\ p \in Calls
      /\ split' = [split EXCEPT ![p] = Adding(taken, split[p])]
      /\ payment' \in [Calls -> PaymentRows]
      /\ Adding(taken, split[p]) \in Splits
      /\ \A i \in Invoices : Adding(taken, split[p])[i] = split[p][i] + taken[i]
      /\ Commit(c, payment', split', Touched(taken))
  BY Allocated
<1> HIDE DEF taken
<1>2. split \in [Calls -> Splits] /\ split' \in [Calls -> Splits]
  BY <1>1, Typed DEF MInv
<1>3. ASSUME NEW i \in Invoices, invoice[i].status = "draft"
      PROVE  i \notin Touched(taken) /\ \A q \in Calls : split'[q][i] = 0
  <2>1. i \notin S
    BY <1>1, <1>3 DEF Candidates, Takes
  <2>2. i \notin Touched(taken)
    BY <1>1, <2>1 DEF Allots
  <2>3. taken[i] = 0 /\ \A q \in Calls : split[q][i] = 0
    BY <1>3, <2>2 DEF Touched, MInv, Drafts
  <2>4. Adding(taken, split[p])[i] = 0
    BY <1>1, <2>3
  <2> QED
    BY <1>1, <1>2, <2>2, <2>3, <2>4
<1>4. payment' \in [Calls -> PaymentRows]
  BY <1>1
<1> QED
  BY <1>1, <1>2, <1>3, <1>4, CommitMoney

LEMMA ReallocatedMoney ==
  ASSUME MInv, NEW c \in Calls, CommitReallocate(c)
  PROVE  Money'
<1> DEFINE p == call[c].on
<1> DEFINE parts == call[c].parts
<1> DEFINE touched == Touched(split[p]) \cup Touched(parts)
<1> DEFINE splits == [split EXCEPT ![p] = parts]
<1>1. /\ payment \in [Calls -> PaymentRows] /\ split \in [Calls -> Splits]
      /\ call[c].at = "locking" /\ call[c].op = "reallocate"
      /\ \A i \in Touched(parts) : Fits(c, i)
      /\ Commit(c, payment, splits, touched)
  BY Typed DEF MInv, CommitReallocate, Locked
<1>2. p \in Calls /\ parts \in Splits
  BY <1>1 DEF MInv, IInv, Locks, Shapes, Splits
<1>3. splits \in [Calls -> Splits] /\ \A q \in Calls : splits[q] = IF q = p THEN parts ELSE split[q]
  BY <1>1, <1>2
<1>4. ASSUME NEW i \in Invoices, invoice[i].status = "draft"
      PROVE  i \notin touched /\ \A q \in Calls : splits[q][i] = 0
  <2>1. \A q \in Calls : split[q][i] = 0
    BY <1>4 DEF MInv, Drafts
  <2>2. i \notin Touched(parts)
    BY <1>1, <1>4 DEF Fits
  <2>3. i \notin Touched(split[p])
    BY <1>2, <2>1 DEF Touched
  <2>4. parts[i] = 0
    BY <2>2 DEF Touched
  <2> QED
    BY <1>3, <2>1, <2>2, <2>3, <2>4
<1> HIDE DEF splits, touched
<1> QED
  BY <1>1, <1>3, <1>4, CommitMoney

LEMMA ReversedMoney ==
  ASSUME MInv, NEW c \in Calls, CommitReverse(c)
  PROVE  Money'
<1> DEFINE p == call[c].on
<1> DEFINE row == [NoRow EXCEPT !.amount = payment[p].amount, !.reverses = p]
<1> DEFINE pays == [payment EXCEPT ![c] = row, ![p].reversed = TRUE]
<1> DEFINE splits == [split EXCEPT ![c] = split[p]]
<1>1. /\ payment \in [Calls -> PaymentRows] /\ split \in [Calls -> Splits]
      /\ call[c].at = "locking" /\ call[c].op = "reverse"
      /\ Commit(c, pays, splits, Touched(split[p]))
  BY Typed DEF MInv, CommitReverse, Locked
<1>2. p \in Calls
  BY <1>1 DEF MInv, IInv, Locks
<1>3. row \in PaymentRows
  BY <1>1, <1>2 DEF PaymentRows, NoRow
<1>4. pays \in [Calls -> PaymentRows]
  <2> DEFINE first == [payment EXCEPT ![c] = row]
  <2> HIDE DEF row
  <2>1. first \in [Calls -> PaymentRows]
    BY <1>1, <1>3
  <2>2. pays = [first EXCEPT ![p].reversed = TRUE]
    OBVIOUS
  <2> HIDE DEF first
  <2>3. [first[p] EXCEPT !.reversed = TRUE] \in PaymentRows
    BY <1>2, <2>1 DEF PaymentRows
  <2> QED
    BY <1>2, <2>1, <2>2, <2>3
<1>5. splits \in [Calls -> Splits] /\ \A q \in Calls : splits[q] = IF q = c THEN split[p] ELSE split[q]
  BY <1>1, <1>2
<1>6. \A i \in Invoices : invoice[i].status = "draft" =>
        i \notin Touched(split[p]) /\ \A q \in Calls : splits[q][i] = 0
  BY <1>2, <1>5 DEF MInv, Drafts, Touched
<1> HIDE DEF splits, pays
<1> QED
  BY <1>1, <1>4, <1>5, <1>6, CommitMoney

LEMMA StepMoney == MInv /\ [Next]_vars => MInv'
<1> SUFFICES ASSUME MInv, [Next]_vars PROVE Money'
  BY StepKeeps DEF MInv, Money
<1>1. ASSUME NEW c \in Calls, Request(c)
      PROVE  Money'
  BY <1>1, RequestMoney
<1>2. ASSUME NEW c \in Calls, Proceed(c)
      PROVE  Money'
  BY <1>2, AdvanceMoney, AllocatedMoney, ReallocatedMoney, ReversedMoney, CorrectedMoney
     DEF Proceed, Commits
<1>3. ASSUME NEW i \in Invoices, CloseIssues(i)
      PROVE  Money'
  BY <1>3, CloseMoney
<1>4. CASE UNCHANGED vars
  BY <1>4 DEF vars, MInv, Money, TypeOK, Drafts, StatusTellsMoney
<1> QED
  BY <1>1, <1>2, <1>3, <1>4 DEF Next

LEMMA MoneyInvariant == Spec => []MInv
BY InitMoney, StepMoney, PTL DEF Spec

-----------------------------------------------------------------------------
(* What a commit puts on an invoice. *)

\* What one payment's row contributes to an invoice.
Counts(row, s, i) == IF row.reverses = NoPayment THEN s[i] ELSE -s[i]

LEMMA PaidChanges ==
  ASSUME MInv, NEW pays \in [Calls -> PaymentRows], NEW splits \in [Calls -> Splits],
         NEW i \in Invoices, NEW p \in Calls,
         \A q \in Calls : q # p => Counts(pays[q], splits[q], i) = Counts(payment[q], split[q], i)
  PROVE  /\ invoice[i].paid \in Int /\ PaidOn(i, pays, splits) \in Int
         /\ PaidOn(i, pays, splits) = invoice[i].paid
              + (Counts(pays[p], splits[p], i) - Counts(payment[p], split[p], i))
<1> DEFINE f == [q \in Calls |-> Counts(payment[q], split[q], i)]
<1> DEFINE h == [q \in Calls |-> Counts(pays[q], splits[q], i)]
<1>1. payment \in [Calls -> PaymentRows] /\ split \in [Calls -> Splits]
  BY Typed DEF MInv
<1>2. f \in [Calls -> Int] /\ h \in [Calls -> Int]
  BY <1>1 DEF Counts, Splits
<1>3. IsFiniteSet(Calls)
  BY LedgerConstants
<1>4. \A q \in Calls : q # p => h[q] = f[q]
  OBVIOUS
<1>5. PaidOn(i, payment, split) = SumFunction(f) /\ PaidOn(i, pays, splits) = SumFunction(h)
  BY DEF PaidOn, Counts
<1>6. f[p] = Counts(payment[p], split[p], i) /\ h[p] = Counts(pays[p], splits[p], i)
  OBVIOUS
<1> HIDE DEF f, h
<1>7. /\ SumFunction(f) \in Int /\ SumFunction(h) \in Int
      /\ SumFunction(h) = SumFunction(f) + (h[p] - f[p])
  BY <1>2, <1>3, <1>4, SumChanges
<1>8. invoice[i].paid = PaidOn(i, payment, split)
  BY DEF MInv, IInv, PaidIsAllocated
<1> QED
  BY <1>5, <1>6, <1>7, <1>8

\* Under a commit the paid amount of an invoice moves by what its row moves by.
LEMMA CommitPaid ==
  ASSUME MInv, NEW c \in Calls, NEW pays \in [Calls -> PaymentRows], NEW splits \in [Calls -> Splits],
         NEW touched, Commit(c, pays, splits, touched), NEW i \in Invoices, NEW p \in Calls,
         \A q \in Calls : q # p => Counts(pays[q], splits[q], i) = Counts(payment[q], split[q], i),
         i \notin touched => Counts(pays[p], splits[p], i) = Counts(payment[p], split[p], i)
  PROVE  /\ invoice'[i].paid \in Int /\ Due(invoice'[i]) = Due(invoice[i])
         /\ invoice'[i].paid = invoice[i].paid
              + (Counts(pays[p], splits[p], i) - Counts(payment[p], split[p], i))
<1> DEFINE paid == PaidOn(i, pays, splits)
<1> DEFINE now == Counts(pays[p], splits[p], i)
<1> DEFINE before == Counts(payment[p], split[p], i)
<1>1. invoice[i].paid \in Int /\ paid \in Int /\ paid = invoice[i].paid + (now - before)
  BY PaidChanges
<1>2. invoice[i] \in InvoiceRows
  BY Typed DEF MInv
<1>3. CASE i \in touched
  <2>1. invoice'[i] = RecalcInvoicePaid(invoice[i], paid)
    BY <1>3 DEF Commit
  <2> HIDE DEF paid, now, before
  <2>2. Due(invoice'[i]) = Due(invoice[i]) /\ invoice'[i].paid = paid
    BY <1>1, <1>2, <2>1, RecalcPaid
  <2> QED
    BY <1>1, <2>2 DEF now, before
<1>4. CASE i \notin touched
  <2>1. invoice'[i] = invoice[i] /\ now = before
    BY <1>4 DEF Commit
  <2>2. now \in Int
    <3>1. split[p] \in Splits
      BY Typed DEF MInv
    <3> QED
      BY <2>1, <3>1 DEF Counts, Splits
  <2> HIDE DEF now, before
  <2>3. now - before = 0
    BY <2>1, <2>2
  <2> QED
    BY <1>1, <2>1, <2>3 DEF now, before
<1> QED
  BY <1>3, <1>4

\* A new payment or a remainder: each invoice gains what Allocate gives it.
LEMMA AllocatedPaid ==
  ASSUME MInv, NEW c \in Calls, CommitRecord(c) \/ CommitAuto(c)
  PROVE  LET S == call[c].holds \cap Candidates
             taken == Allocate(call[c].amount, S)
             p == call[c].on
         IN /\ Allots(call[c].amount, S, taken) /\ S \in SUBSET Candidates
            /\ taken \in [Invoices -> Nat]
            /\ \A i \in Invoices :
                 /\ split'[p][i] - split[p][i] = taken[i]
                 /\ invoice[i].paid \in Int /\ Due(invoice[i]) \in Int
                 /\ invoice'[i].paid = invoice[i].paid + taken[i]
<1> DEFINE S == call[c].holds \cap Candidates
<1> DEFINE taken == Allocate(call[c].amount, S)
<1> DEFINE p == call[c].on
<1>1. /\ S \in SUBSET Candidates /\ Allots(call[c].amount, S, taken)
      /\ p \in Calls
      /\ split' = [split EXCEPT ![p] = Adding(taken, split[p])]
      /\ \A q \in Calls : payment'[q].reverses = payment[q].reverses
      /\ payment[p].reverses = NoPayment
      /\ payment' \in [Calls -> PaymentRows]
      /\ Adding(taken, split[p]) \in Splits
      /\ \A i \in Invoices : Adding(taken, split[p])[i] = split[p][i] + taken[i]
      /\ Commit(c, payment', split', Touched(taken))
  BY Allocated
<1> HIDE DEF taken
<1>2. split \in [Calls -> Splits] /\ split' \in [Calls -> Splits] /\ taken \in [Invoices -> Nat]
  BY <1>1, Typed DEF MInv, Allots, Splits
<1>3. \A q \in Calls : split'[q] = IF q = p THEN Adding(taken, split[p]) ELSE split[q]
  BY <1>1, <1>2
<1>4. ASSUME NEW i \in Invoices
      PROVE  /\ split'[p][i] - split[p][i] = taken[i]
             /\ invoice[i].paid \in Int /\ Due(invoice[i]) \in Int
             /\ invoice'[i].paid = invoice[i].paid + taken[i]
  <2>1. split'[p][i] = split[p][i] + taken[i] /\ split[p][i] \in Nat /\ taken[i] \in Nat
    BY <1>1, <1>2, <1>3 DEF Splits
  <2>2. \A q \in Calls : q # p => Counts(payment'[q], split'[q], i) = Counts(payment[q], split[q], i)
    BY <1>1, <1>3 DEF Counts
  <2>3. /\ Counts(payment'[p], split'[p], i) = split'[p][i]
        /\ Counts(payment[p], split[p], i) = split[p][i]
    BY <1>1 DEF Counts
  <2>4. i \notin Touched(taken) => split'[p][i] = split[p][i]
    BY <2>1 DEF Touched
  <2>5. invoice'[i].paid = invoice[i].paid + (split'[p][i] - split[p][i])
    <3> DEFINE pays == payment'
    <3> DEFINE splits == split'
    <3>1. /\ pays \in [Calls -> PaymentRows] /\ splits \in [Calls -> Splits]
          /\ Commit(c, pays, splits, Touched(taken))
      BY <1>1, <1>2
    <3>2. \A q \in Calls : q # p => Counts(pays[q], splits[q], i) = Counts(payment[q], split[q], i)
      BY <2>2
    <3>3. i \notin Touched(taken) => Counts(pays[p], splits[p], i) = Counts(payment[p], split[p], i)
      BY <2>3, <2>4
    <3>4. Counts(pays[p], splits[p], i) = splits[p][i] /\ splits[p] = split'[p]
      BY <2>3
    <3> HIDE DEF pays, splits
    <3>5. invoice'[i].paid = invoice[i].paid
              + (Counts(pays[p], splits[p], i) - Counts(payment[p], split[p], i))
      BY <1>1, <3>1, <3>2, <3>3, CommitPaid
    <3> QED
      BY <2>3, <3>4, <3>5
  <2>6. invoice[i].paid \in Int /\ Due(invoice[i]) \in Int
    BY Unpaid DEF MInv
  <2> QED
    BY <2>1, <2>5, <2>6
<1> QED
  BY <1>1, <1>2, <1>4 DEF taken

\* The money of an allocation goes to invoices that take part, and to none of them
\* more than it owes.
LEMMA AllocatedFits ==
  ASSUME MInv, NEW c \in Calls, CommitRecord(c) \/ CommitAuto(c),
         NEW i \in Invoices, invoice'[i].paid > invoice[i].paid
  PROVE  invoice'[i].paid <= Due(invoice[i]) /\ invoice[i].status \in {"issued", "partially_paid"}
<1> DEFINE S == call[c].holds \cap Candidates
<1> DEFINE taken == Allocate(call[c].amount, S)
<1>1. /\ Allots(call[c].amount, S, taken) /\ S \in SUBSET Candidates
      /\ taken \in [Invoices -> Nat]
      /\ invoice[i].paid \in Int /\ Due(invoice[i]) \in Int
      /\ invoice'[i].paid = invoice[i].paid + taken[i]
  BY AllocatedPaid
<1> HIDE DEF taken
<1>2. taken[i] \in Nat /\ taken[i] # 0
  BY <1>1
<1>3. i \in S
  BY <1>1, <1>2 DEF Allots, Touched
<1>4. taken[i] <= Due(invoice[i]) - invoice[i].paid
  BY <1>1, <1>3 DEF Allots
<1>5. invoice[i].status \in {"issued", "partially_paid"}
  BY <1>1, <1>3 DEF Candidates, Takes
<1> QED
  BY <1>1, <1>2, <1>4, <1>5

LEMMA ReallocatedFits ==
  ASSUME MInv, NEW c \in Calls, CommitReallocate(c), NEW i \in Invoices,
         invoice'[i].paid > invoice[i].paid
  PROVE  invoice'[i].paid <= Due(invoice[i]) /\ invoice[i].status \in {"issued", "partially_paid", "paid"}
<1> DEFINE p == call[c].on
<1> DEFINE parts == call[c].parts
<1> DEFINE touched == Touched(split[p]) \cup Touched(parts)
<1> DEFINE splits == [split EXCEPT ![p] = parts]
<1>1. /\ payment \in [Calls -> PaymentRows] /\ split \in [Calls -> Splits]
      /\ call[c].at = "locking" /\ call[c].op = "reallocate"
      /\ \A j \in Touched(parts) : Fits(c, j)
      /\ Commit(c, payment, splits, touched)
  BY Typed DEF MInv, CommitReallocate, Locked
<1>2. p \in Calls /\ parts \in Splits /\ payment[p].reverses = NoPayment
  BY <1>1 DEF MInv, IInv, Locks, Live, Shapes, Splits
<1>3. splits \in [Calls -> Splits] /\ \A q \in Calls : splits[q] = IF q = p THEN parts ELSE split[q]
  BY <1>1, <1>2
<1>4. \A q \in Calls : q # p => Counts(payment[q], splits[q], i) = Counts(payment[q], split[q], i)
  BY <1>3
<1>5. /\ Counts(payment[p], splits[p], i) = parts[i]
      /\ Counts(payment[p], split[p], i) = split[p][i]
  BY <1>2, <1>3 DEF Counts
<1>6. parts[i] \in Nat /\ split[p][i] \in Nat
  BY <1>1, <1>2 DEF Splits
<1>7. i \notin touched => parts[i] = split[p][i]
  BY DEF Touched
<1> HIDE DEF splits, touched
<1>8. invoice'[i].paid = invoice[i].paid + (parts[i] - split[p][i])
  <2>1. invoice'[i].paid = invoice[i].paid
            + (Counts(payment[p], splits[p], i) - Counts(payment[p], split[p], i))
    BY <1>1, <1>2, <1>3, <1>4, <1>5, <1>7, CommitPaid
  <2> QED
    BY <1>5, <2>1
<1>9. invoice[i].paid \in Int /\ Due(invoice[i]) \in Int
  BY Unpaid DEF MInv
<1>10. parts[i] # 0
  BY <1>6, <1>8, <1>9
<1>11. Fits(c, i)
  BY <1>1, <1>10 DEF Touched
<1>12. /\ parts[i] <= Due(invoice[i]) - (invoice[i].paid - split[p][i])
       /\ invoice[i].status \in {"issued", "partially_paid", "paid"}
  BY <1>11 DEF Fits
<1> HIDE DEF parts, p
<1> QED
  BY <1>6, <1>8, <1>9, <1>12

\* A reversal takes off what its payment put there.
LEMMA ReversedFits ==
  ASSUME MInv, NEW c \in Calls, CommitReverse(c), NEW i \in Invoices
  PROVE  invoice'[i].paid <= invoice[i].paid
<1> DEFINE p == call[c].on
<1> DEFINE row == [NoRow EXCEPT !.amount = payment[p].amount, !.reverses = p]
<1> DEFINE pays == [payment EXCEPT ![c] = row, ![p].reversed = TRUE]
<1> DEFINE splits == [split EXCEPT ![c] = split[p]]
<1>1. /\ payment \in [Calls -> PaymentRows] /\ split \in [Calls -> Splits]
      /\ call[c].at = "locking" /\ call[c].op = "reverse"
      /\ Commit(c, pays, splits, Touched(split[p]))
  BY Typed DEF MInv, CommitReverse, Locked
<1>2. p \in Calls /\ Live(p) /\ payment[c] = NoRow /\ split[c] = Nothing
  BY <1>1 DEF MInv, IInv, Locks
<1>3. p # c /\ p # NoPayment
  BY <1>2, LedgerConstants DEF Live, NoRow
<1>4. row \in PaymentRows /\ row.reverses = p
  BY <1>1, <1>2 DEF PaymentRows, NoRow
<1> HIDE DEF row
<1> DEFINE gone == [payment[p] EXCEPT !.reversed = TRUE]
<1>5. gone \in PaymentRows /\ gone.reverses = payment[p].reverses
  BY <1>1, <1>2 DEF PaymentRows
<1>6. /\ pays \in [Calls -> PaymentRows]
      /\ \A q \in Calls : pays[q] = IF q = c THEN row ELSE IF q = p THEN gone ELSE payment[q]
  <2>1. pays = [payment EXCEPT ![c] = row, ![p] = gone]
    BY <1>1, <1>2, <1>3
  <2> HIDE DEF gone, pays
  <2> QED
    BY <1>1, <1>2, <1>3, <1>4, <1>5, <2>1
<1>7. splits \in [Calls -> Splits] /\ \A q \in Calls : splits[q] = IF q = c THEN split[p] ELSE split[q]
  BY <1>1, <1>2
<1> HIDE DEF gone, pays, splits
<1>8. \A q \in Calls : q # c => Counts(pays[q], splits[q], i) = Counts(payment[q], split[q], i)
  BY <1>5, <1>6, <1>7 DEF Counts
<1>9. split[p][i] \in Nat
  BY <1>1, <1>2 DEF Splits
<1>10. Counts(pays[c], splits[c], i) = -split[p][i]
  BY <1>3, <1>4, <1>6, <1>7 DEF Counts
<1>11. Counts(payment[c], split[c], i) = 0
  BY <1>2 DEF Counts, NoRow, Nothing
<1>12. i \notin Touched(split[p]) => split[p][i] = 0
  BY DEF Touched
<1>13. invoice'[i].paid = invoice[i].paid + ((-split[p][i]) - 0)
  <2>1. i \notin Touched(split[p]) => Counts(pays[c], splits[c], i) = Counts(payment[c], split[c], i)
    BY <1>9, <1>10, <1>11, <1>12
  <2>2. invoice'[i].paid = invoice[i].paid
            + (Counts(pays[c], splits[c], i) - Counts(payment[c], split[c], i))
    BY <1>1, <1>6, <1>7, <1>8, <2>1, CommitPaid
  <2> QED
    BY <1>10, <1>11, <2>2
<1>14. invoice[i].paid \in Int
  BY Unpaid DEF MInv
<1> HIDE DEF p
<1> QED
  BY <1>9, <1>13, <1>14

\* Everything else leaves the paid amounts alone.
LEMMA NothingGained ==
  ASSUME MInv, NEW c \in Calls,
         \/ Request(c) \/ LockNext(c) \/ RefuseReallocate(c) \/ CreateAdjustment(c)
         \/ SumAdjustments(c) \/ CommitAdjustment(c) \/ VoidInvoice(c),
         NEW i \in Invoices
  PROVE  invoice'[i].paid = invoice[i].paid
<1>1. /\ call \in [Calls -> CallRows] /\ invoice \in [Invoices -> InvoiceRows]
      /\ \A j \in Invoices : Tells(invoice[j])
  BY Typed DEF MInv
<1>2. CASE Request(c)
  BY <1>2 DEF Request, Record, Reallocate, Reverse, AutoAllocateRemainder, Begin, AddAdjustment,
              JudgeVoid, Judge
<1>3. CASE CommitAdjustment(c)
  <2>1. PICK j \in call[c].wants : invoice' = [invoice EXCEPT ![j] = RecalcInvoiceTotals(@, call[c].parts[j])]
    BY <1>3 DEF CommitAdjustment
  <2>2. j \in Invoices /\ call[c].parts[j] \in Int
    BY <1>1, <2>1 DEF CallRows
  <2>3. RecalcInvoiceTotals(invoice[j], call[c].parts[j]).paid = invoice[j].paid
    BY <1>1, <2>2, RecalcTotals
  <2> QED
    BY <1>1, <2>1, <2>2, <2>3
<1>4. CASE VoidInvoice(c)
  BY <1>1, <1>4 DEF VoidInvoice, InvoiceRows
<1>5. CASE LockNext(c) \/ RefuseReallocate(c) \/ CreateAdjustment(c) \/ SumAdjustments(c)
  BY <1>5 DEF LockNext, RefuseReallocate, CreateAdjustment, SumAdjustments
<1> QED
  BY <1>2, <1>3, <1>4, <1>5

LEMMA OverpayStep ==
  MInv /\ [Next]_vars =>
    [\A i \in Invoices : invoice'[i].paid > invoice[i].paid =>
       invoice'[i].paid <= Due(invoice[i]) /\ invoice[i].status \in {"issued", "partially_paid", "paid"}]_vars
<1> SUFFICES ASSUME MInv, Next, NEW i \in Invoices, invoice'[i].paid > invoice[i].paid
             PROVE  /\ invoice'[i].paid <= Due(invoice[i])
                    /\ invoice[i].status \in {"issued", "partially_paid", "paid"}
  OBVIOUS
<1>1. invoice[i].paid \in Int /\ Due(invoice[i]) \in Int
  BY Unpaid DEF MInv
<1>2. MInv'
  BY StepMoney
<1>3. invoice'[i].paid \in Int
  BY <1>2 DEF MInv, TypeOK
<1>4. ASSUME NEW j \in Invoices, CloseIssues(j)
      PROVE  FALSE
  <2>1. invoice \in [Invoices -> InvoiceRows]
    BY Typed DEF MInv
  <2>2. invoice'[i].paid = invoice[i].paid
    BY <1>4, <2>1 DEF CloseIssues, InvoiceRows
  <2> QED
    BY <1>1, <2>2
<1>5. ASSUME NEW c \in Calls, CommitRecord(c) \/ CommitAuto(c)
      PROVE  invoice'[i].paid <= Due(invoice[i]) /\ invoice[i].status \in {"issued", "partially_paid"}
  BY <1>5, AllocatedFits
<1>6. ASSUME NEW c \in Calls, CommitReallocate(c)
      PROVE  /\ invoice'[i].paid <= Due(invoice[i])
             /\ invoice[i].status \in {"issued", "partially_paid", "paid"}
  BY <1>6, ReallocatedFits
<1>7. ASSUME NEW c \in Calls, CommitReverse(c)
      PROVE  FALSE
  <2>1. invoice'[i].paid <= invoice[i].paid
    BY <1>7, ReversedFits
  <2> QED
    BY <1>1, <1>3, <2>1
<1>8. ASSUME NEW c \in Calls,
             \/ Request(c) \/ LockNext(c) \/ RefuseReallocate(c) \/ CreateAdjustment(c)
             \/ SumAdjustments(c) \/ CommitAdjustment(c) \/ VoidInvoice(c)
      PROVE  FALSE
  <2>1. invoice'[i].paid = invoice[i].paid
    BY <1>8, NothingGained
  <2> QED
    BY <1>1, <2>1
<1> QED
  BY <1>4, <1>5, <1>6, <1>7, <1>8 DEF Next, Proceed, Commits

\* What Allocate promises, read off the rows that a commit writes.
LEMMA CarriedStep ==
  ASSUME MInv, NEW c \in Calls, CommitRecord(c) \/ CommitAuto(c)
  PROVE  LET S == call[c].holds \cap Candidates
             p == call[c].on
             taken(i) == split'[p][i] - split[p][i]
             left == call[c].amount - SumFunction([i \in Invoices |-> taken(i)])
         IN /\ \A i, j \in S : taken(i) < OpeningUnpaid(invoice[i]) => taken(j) <= OpeningUnpaid(invoice[j])
            /\ left > 0 => \A i \in S : invoice'[i].paid >= Due(invoice[i])
            /\ left >= 0
<1> DEFINE S == call[c].holds \cap Candidates
<1> DEFINE p == call[c].on
<1> DEFINE given == Allocate(call[c].amount, S)
<1>1. /\ Allots(call[c].amount, S, given) /\ S \in SUBSET Candidates
      /\ given \in [Invoices -> Nat]
      /\ \A i \in Invoices :
           /\ split'[p][i] - split[p][i] = given[i]
           /\ invoice[i].paid \in Int /\ Due(invoice[i]) \in Int
           /\ invoice'[i].paid = invoice[i].paid + given[i]
  BY AllocatedPaid
<1> HIDE DEF given
<1>2. S \subseteq Invoices
  BY <1>1 DEF Candidates
<1>3. [i \in Invoices |-> split'[p][i] - split[p][i]] = given
  BY <1>1
<1>4. call[c].amount \in Int
  BY Typed DEF MInv, CallRows
<1>5. call[c].amount - SumFunction(given) >= 0
  BY <1>1, <1>4 DEF Allots
<1>6. ASSUME call[c].amount - SumFunction(given) > 0, NEW i \in S
      PROVE  invoice'[i].paid >= Due(invoice[i])
  <2>1. given[i] = Due(invoice[i]) - invoice[i].paid
    BY <1>1, <1>6 DEF Allots
  <2> QED
    BY <1>1, <1>2, <2>1
<1>7. \A i, j \in S : given[i] < OpeningUnpaid(invoice[i]) => given[j] <= OpeningUnpaid(invoice[j])
  BY <1>1 DEF Allots
<1>8. \A i \in S : split'[p][i] - split[p][i] = given[i]
  BY <1>1, <1>2
<1> HIDE DEF S
<1> QED
  BY <1>3, <1>5, <1>6, <1>7, <1>8 DEF S

-----------------------------------------------------------------------------
(* The results. *)

\* In every state the paid amount of an invoice is the sum of what is allocated to it,
\* reversal entries counted against it (recalcInvoicePaidQuery), for any number of
\* overlapping requests.
THEOREM PaidAmountsAddUp == Spec => []PaidIsAllocated
<1>1. IInv => PaidIsAllocated
  BY DEF IInv
<1> QED
  BY <1>1, Invariant, PTL

\* A reversal mirrors its payment exactly, and there is at most one of it (Reverse).
THEOREM ReversalsAreExact == Spec => []ReversedExactly
<1>1. IInv => ReversedExactly
  BY DEF IInv
<1> QED
  BY <1>1, Invariant, PTL

\* The locks are taken in one order, so no set of requests waits in a circle: the one
\* that holds the largest id, or any one when no invoice is held, waits for none of
\* the others (the ORDER BY id of the locking queries).
LEMMA LockOrder == IInv => NoDeadlock
<1> SUFFICES ASSUME IInv, NEW S \in SUBSET Calls, S # {}
             PROVE  \E c \in S : \A d \in S : ~WaitsFor(c, d)
  BY DEF NoDeadlock
<1> DEFINE H == UNION {call[d].holds : d \in S}
<1>1. CASE \E c \in S : call[c].at \notin {"locking", "judged"}
  BY <1>1 DEF WaitsFor
<1>2. CASE \A c \in S : call[c].at \in {"locking", "judged"}
  <2>1. \A d \in S, i \in Invoices : ~Shares(d, i)
    BY <1>2 DEF Shares
  <2>2. \A c \in S : call[c].wants \subseteq Invoices /\ call[c].holds \subseteq Invoices
    BY DEF IInv, Shapes
  <2>3. CASE H = {}
    <3>1. \A d \in S : call[d].holds = {}
      BY <2>3
    <3> QED
      BY <2>1, <2>2, <3>1 DEF WaitsFor
  <2>4. CASE H # {}
    <3>1. H \subseteq Invoices /\ Invoices \subseteq Nat /\ IsFiniteSet(Invoices)
      BY <2>2, LedgerConstants
    <3>2. H \subseteq Nat /\ IsFiniteSet(H)
      <4> HIDE DEF H
      <4> QED
        BY <3>1, FS_Subset
    <3> HIDE DEF H
    <3>3. PICK m \in H : \A h \in H : h <= m
      BY <2>4, <3>2, Largest
    <3>4. PICK c \in S : m \in call[c].holds
      BY DEF H
    <3>5. call[c].at = "locking"
      BY <3>4 DEF IInv, Ordered
    <3>6. ASSUME NEW d \in S PROVE ~WaitsFor(c, d)
      <4>1. SUFFICES ASSUME NEW i \in call[c].wants, i \in call[d].holds PROVE FALSE
        BY <2>1, <2>2, <3>5 DEF WaitsFor
      <4>2. m < i
        BY <3>4, <4>1 DEF IInv, Ordered
      <4>3. i <= m
        BY <3>3, <4>1 DEF H
      <4>4. i \in Nat /\ m \in Nat
        BY <3>1, <3>2, <2>2
      <4> QED
        BY <4>2, <4>3, <4>4
    <3> QED
      BY <3>6
  <2> QED
    BY <2>3, <2>4
<1> QED
  BY <1>1, <1>2

THEOREM NoCircleOfWaits == Spec => []NoDeadlock
BY Invariant, LockOrder, PTL


\* Every row of the ledger keeps its type, paid amounts and remainders included: sums of
\* allocations stay whole numbers (the tables of payments and billing).
THEOREM LedgerTypeCorrect == Spec => []TypeOK
<1>1. MInv => TypeOK
  BY DEF MInv
<1> QED
  BY <1>1, MoneyInvariant, PTL

\* The status of an issued invoice tells where its money stands, whichever of the two
\* packages derived it last (recalcInvoicePaidQuery, RecalcInvoiceTotals).
THEOREM StatusIsRight == Spec => []StatusTellsMoney
<1>1. MInv => StatusTellsMoney
  BY DEF MInv
<1> QED
  BY <1>1, MoneyInvariant, PTL

\* No step puts more on an invoice than it owes, and none pays a draft or a void one
\* (Record, Reallocate, AutoAllocateRemainder under their locks).
THEOREM NobodyOverpays == Spec => NeverOverpays
BY MoneyInvariant, OverpayStep, PTL DEF Spec, NeverOverpays

\* Rule D8: no current charge is paid while a carried balance that takes part is open,
\* money is left over only when all that take part are paid, and never less than none
\* is left (Allocate, for any number of invoices and any amounts).
THEOREM CarriedBalancesFirst == Spec => CarriedFirst
<1>1. MInv /\ [Next]_vars =>
        [\A c \in Calls : (CommitRecord(c) \/ CommitAuto(c)) =>
           LET S == call[c].holds \cap Candidates
               p == call[c].on
               taken(i) == split'[p][i] - split[p][i]
               left == call[c].amount - SumFunction([i \in Invoices |-> taken(i)])
           IN /\ \A i, j \in S : taken(i) < OpeningUnpaid(invoice[i]) => taken(j) <= OpeningUnpaid(invoice[j])
              /\ left > 0 => \A i \in S : invoice'[i].paid >= Due(invoice[i])
              /\ left >= 0]_vars
  BY CarriedStep
<1> QED
  BY <1>1, MoneyInvariant, PTL DEF Spec, CarriedFirst
=============================================================================
