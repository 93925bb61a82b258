------------------------- MODULE AuditPipelineProofs -------------------------
(***************************************************************************)
(* What holds of EventBus for any number of events, subscribers and calls  *)
(* of Close and any queue length, and of AuditPipeline for any number of   *)
(* events and any lengths of the queue and of a batch: a step of the       *)
(* pipeline is one of the bus or leaves the bus alone; every event is in   *)
(* one place at a time on its way to audit_logs, so that each step of the  *)
(* pipeline is one of AuditTrail or changes nothing there, and after a     *)
(* drain nothing is left on the way.                                       *)
(***************************************************************************)
EXTENDS AuditPipeline, SequenceTheorems, TLAPS

-----------------------------------------------------------------------------
(* The bus alone. *)

\* The event the handler of s has, as a sequence.
InHand(s) == IF worker[s] = "handling" THEN <<hand[s]>> ELSE <<>>

\* The lock: a Publish that holds it keeps the bus open.
Locked == \A e \in Events : publisher[e] = "sending" => ~closed

Shut == shut = IF closed THEN Registered ELSE {}

Working ==
  \A s \in Subscribers :
    /\ worker[s] = "none" <=> s \notin Registered
    /\ worker[s] = "handling" <=> hand[s] # Nothing
    /\ worker[s] \in {"none", "exited"} => queue[s] = <<>>
    /\ worker[s] = "exited" => s \in shut

Draining ==
  /\ done => closed /\ \A s \in Registered : worker[s] = "exited"
  /\ \A c \in Closers : closer[c] = "drained" => done

\* Nothing a queue took is lost, doubled or reordered on its way to the handler.
Conserved == \A s \in Subscribers : accepted[s] = handled[s] \o (InHand(s) \o queue[s])

BusInv == TypeOK /\ Locked /\ Shut /\ Working /\ Draining

-----------------------------------------------------------------------------
LEMMA BusInit == Init => BusInv /\ Conserved
<1> SUFFICES ASSUME Init PROVE BusInv /\ Conserved OBVIOUS
<1>1. TypeOK
  <2>1. <<>> \in Seq(Subscribers) /\ <<>> \in Seq(Events) /\ Len(<<>>) = 0 BY EmptySeq
  <2>2. subs \in Seq(Subscribers) BY <2>1 DEF Init
  <2>3. queue \in [Subscribers -> Seq(Events)] BY <2>1, Zenon DEF Init
  <2>4. accepted \in [Subscribers -> Seq(Events)] BY <2>1, Zenon DEF Init
  <2>5. handled \in [Subscribers -> Seq(Events)] BY <2>1, Zenon DEF Init
  <2>6. \A s \in Subscribers : Len(queue[s]) <= Capacity
    <3>1. \A s \in Subscribers : Len(queue[s]) = 0 BY <2>1, Zenon DEF Init
    <3> QED BY <3>1, BusConstants
  <2>7. /\ closed \in BOOLEAN /\ done \in BOOLEAN /\ shut \subseteq Subscribers
        /\ publisher \in [Events -> {"new", "sending", "returned"}]
        /\ at \in [Events -> Nat]
        /\ worker \in [Subscribers -> {"none", "waiting", "handling", "exited"}]
        /\ hand \in [Subscribers -> Events \cup {Nothing}]
        /\ closer \in [Closers -> {"new", "waiting", "drained", "expired"}]
    BY DEF Init
  <2> QED BY <2>2, <2>3, <2>4, <2>5, <2>6, <2>7 DEF TypeOK
<1>2. Registered = {} BY DEF Init, Registered
<1>3. Locked /\ Shut /\ Working /\ Draining
  BY <1>2 DEF Init, Locked, Shut, Working, Draining
<1>4. Conserved
  <2> SUFFICES ASSUME NEW s \in Subscribers
               PROVE  accepted[s] = handled[s] \o (InHand(s) \o queue[s])
    BY DEF Conserved
  <2>1. accepted[s] = <<>> /\ handled[s] = <<>> /\ InHand(s) = <<>> /\ queue[s] = <<>>
    BY DEF Init, InHand
  <2> QED BY <2>1, EmptySeq, ConcatEmptySeq
<1> QED BY <1>1, <1>3, <1>4 DEF BusInv

LEMMA TypeStep == BusInv /\ [Next]_busVars => TypeOK'
<1> SUFFICES ASSUME BusInv, [Next]_busVars PROVE TypeOK' OBVIOUS
<1> USE DEF busState, pubState, subState, busGhost
<1>1. ASSUME NEW s \in Subscribers, Subscribe(s) PROVE TypeOK'
  <2>1. Append(subs, s) \in Seq(Subscribers) BY AppendProperties DEF BusInv, TypeOK
  <2> QED BY <1>1, <2>1 DEF Subscribe, BusInv, TypeOK
<1>2. ASSUME NEW s \in Subscribers, Receive(s) PROVE TypeOK'
  <2>1. queue[s] \in Seq(Events) /\ queue[s] # <<>> BY <1>2 DEF Receive, BusInv, TypeOK
  <2>2. /\ Head(queue[s]) \in Events /\ Tail(queue[s]) \in Seq(Events)
        /\ Len(Tail(queue[s])) = Len(queue[s]) - 1 /\ Len(queue[s]) \in Nat
    BY <2>1, HeadTailProperties, LenProperties
  <2>3. Len(Tail(queue[s])) <= Capacity BY <2>2, BusConstants DEF BusInv, TypeOK
  <2> QED BY <1>2, <2>2, <2>3 DEF Receive, BusInv, TypeOK
<1>3. ASSUME NEW s \in Subscribers, Return(s) PROVE TypeOK'
  <2>1. hand[s] \in Events BY <1>3 DEF Return, BusInv, TypeOK, Working
  <2>2. Append(handled[s], hand[s]) \in Seq(Events)
    BY <2>1, AppendProperties DEF BusInv, TypeOK
  <2> QED BY <1>3, <2>2 DEF Return, BusInv, TypeOK
<1>4. ASSUME NEW s \in Subscribers, Exit(s) PROVE TypeOK'
  BY <1>4 DEF Exit, BusInv, TypeOK
<1>5. ASSUME NEW e \in Events, Publish(e) \/ PublishReturns(e) PROVE TypeOK'
  BY <1>5 DEF Publish, PublishReturns, BusInv, TypeOK
<1>6. ASSUME NEW e \in Events, Offer(e) PROVE TypeOK'
  <2> DEFINE s == subs[at[e]]
  <2>1. s \in Subscribers BY <1>6, ElementOfSeq, LenProperties DEF Offer, BusInv, TypeOK
  <2>2. at[e] + 1 \in Nat BY DEF BusInv, TypeOK
  <2>3. /\ Append(queue[s], e) \in Seq(Events) /\ Append(accepted[s], e) \in Seq(Events)
        /\ Len(Append(queue[s], e)) = Len(queue[s]) + 1 /\ Len(queue[s]) \in Nat
    BY <2>1, AppendProperties, LenProperties DEF BusInv, TypeOK
  <2>4. CASE Room(s)
    <3>1. Len(Append(queue[s], e)) <= Capacity BY <2>3, <2>4, BusConstants DEF Room
    <3> QED BY <1>6, <2>1, <2>2, <2>3, <2>4, <3>1 DEF Offer, BusInv, TypeOK
  <2>5. CASE ~Room(s) BY <1>6, <2>2, <2>5 DEF Offer, BusInv, TypeOK
  <2> QED BY <2>4, <2>5
<1>7. ASSUME NEW c \in Closers, Close(c) PROVE TypeOK'
  <2>1. Registered \subseteq Subscribers
    BY ElementOfSeq, LenProperties DEF Registered, BusInv, TypeOK
  <2> QED BY <1>7, <2>1 DEF Close, BusInv, TypeOK
<1>8. ASSUME NEW c \in Closers, CloseReturns(c) \/ CloseExpires(c) PROVE TypeOK'
  BY <1>8 DEF CloseReturns, CloseExpires, BusInv, TypeOK
<1>9. CASE Drained BY <1>9 DEF Drained, BusInv, TypeOK
<1>10. CASE UNCHANGED busVars BY <1>10 DEF busVars, BusInv, TypeOK
<1> QED BY <1>1, <1>2, <1>3, <1>4, <1>5, <1>6, <1>7, <1>8, <1>9, <1>10 DEF Next

-----------------------------------------------------------------------------
\* Registered is what its name says.
LEMMA RegisteredGrows ==
  ASSUME subs \in Seq(Subscribers), NEW s \in Subscribers, subs' = Append(subs, s)
  PROVE  Registered' = Registered \cup {s}
<1>1. /\ Append(subs, s) \in Seq(Subscribers) /\ Len(Append(subs, s)) = Len(subs) + 1
      /\ \A i \in 1 .. Len(subs) : Append(subs, s)[i] = subs[i]
      /\ Append(subs, s)[Len(subs) + 1] = s
  BY AppendProperties
<1>2. /\ DOMAIN subs = 1 .. Len(subs) /\ Len(subs) \in Nat
      /\ DOMAIN subs' = 1 .. (Len(subs) + 1)
  BY <1>1, LenProperties
<1> QED BY <1>1, <1>2 DEF Registered

LEMMA ControlStep == BusInv /\ [Next]_busVars => Locked' /\ Shut' /\ Working' /\ Draining'
<1> SUFFICES ASSUME BusInv, [Next]_busVars
             PROVE  Locked' /\ Shut' /\ Working' /\ Draining'
  OBVIOUS
<1> USE DEF busState, pubState, subState, busGhost
<1>0. (subs' = subs) => Registered' = Registered BY DEF Registered
<1>1. ASSUME NEW s \in Subscribers, Subscribe(s)
      PROVE  Locked' /\ Shut' /\ Working' /\ Draining'
  <2>1. Registered' = Registered \cup {s}
    BY <1>1, RegisteredGrows DEF Subscribe, BusInv, TypeOK
  <2>2. Locked' /\ Shut' BY <1>1, <2>1 DEF Subscribe, BusInv, Locked, Shut
  <2>3. Working' BY <1>1, <2>1 DEF Subscribe, BusInv, TypeOK, Working
  <2>4. Draining' BY <1>1 DEF Subscribe, BusInv, Draining
  <2> QED BY <2>2, <2>3, <2>4
<1>2. ASSUME NEW s \in Subscribers, Receive(s)
      PROVE  Locked' /\ Shut' /\ Working' /\ Draining'
  <2>1. Head(queue[s]) \in Events
    BY <1>2, HeadTailProperties DEF Receive, BusInv, TypeOK
  <2>2. Locked' /\ Shut' BY <1>2, <1>0 DEF Receive, BusInv, Locked, Shut
  <2>3. Working' BY <1>0, <1>2, <2>1, NothingIsNoEvent DEF Receive, BusInv, TypeOK, Working
  <2>4. Draining' BY <1>0, <1>2 DEF Receive, BusInv, TypeOK, Draining
  <2> QED BY <2>2, <2>3, <2>4
<1>3. ASSUME NEW s \in Subscribers, Return(s)
      PROVE  Locked' /\ Shut' /\ Working' /\ Draining'
  <2>1. Locked' /\ Shut' BY <1>3, <1>0 DEF Return, BusInv, Locked, Shut
  <2>2. Working' BY <1>0, <1>3 DEF Return, BusInv, TypeOK, Working
  <2>3. Draining' BY <1>0, <1>3 DEF Return, BusInv, TypeOK, Draining
  <2> QED BY <2>1, <2>2, <2>3
<1>4. ASSUME NEW s \in Subscribers, Exit(s)
      PROVE  Locked' /\ Shut' /\ Working' /\ Draining'
  <2>1. Locked' /\ Shut' BY <1>4, <1>0 DEF Exit, BusInv, Locked, Shut
  <2>2. Working' BY <1>0, <1>4 DEF Exit, BusInv, TypeOK, Working
  <2>3. Draining' BY <1>0, <1>4 DEF Exit, BusInv, TypeOK, Draining
  <2> QED BY <2>1, <2>2, <2>3
<1>5. ASSUME NEW e \in Events, Publish(e) \/ PublishReturns(e)
      PROVE  Locked' /\ Shut' /\ Working' /\ Draining'
  BY <1>0, <1>5
  DEF Publish, PublishReturns, BusInv, TypeOK, Locked, Shut, Working, Draining
<1>6. ASSUME NEW e \in Events, Offer(e)
      PROVE  Locked' /\ Shut' /\ Working' /\ Draining'
  <2> DEFINE s == subs[at[e]]
  <2>1. s \in Subscribers /\ s \in Registered
    BY <1>6, ElementOfSeq, LenProperties DEF Offer, BusInv, TypeOK, Registered
  <2>2. worker[s] \notin {"none", "exited"}
    BY <1>6, <2>1 DEF Offer, BusInv, Locked, Shut, Working
  <2>3. \A o \in Subscribers \ {s} : queue'[o] = queue[o]
    BY <1>6 DEF Offer, BusInv, TypeOK
  <2>4. Locked' /\ Shut' BY <1>6, <1>0 DEF Offer, BusInv, Locked, Shut
  <2>5. Working' BY <1>0, <1>6, <2>2, <2>3 DEF Offer, BusInv, Working
  <2>6. Draining' BY <1>0, <1>6 DEF Offer, BusInv, Draining
  <2> QED BY <2>4, <2>5, <2>6
<1>7. ASSUME NEW c \in Closers, Close(c)
      PROVE  Locked' /\ Shut' /\ Working' /\ Draining'
  <2>1. Locked' /\ Shut' BY <1>0, <1>7 DEF Close, Reading, BusInv, Locked, Shut
  <2>2. Working' BY <1>0, <1>7 DEF Close, BusInv, Working, Shut
  <2>3. Draining' BY <1>0, <1>7 DEF Close, BusInv, TypeOK, Draining
  <2> QED BY <2>1, <2>2, <2>3
<1>8. ASSUME NEW c \in Closers, CloseReturns(c) \/ CloseExpires(c)
      PROVE  Locked' /\ Shut' /\ Working' /\ Draining'
  BY <1>0, <1>8
  DEF CloseReturns, CloseExpires, BusInv, TypeOK, Locked, Shut, Working, Draining
<1>9. CASE Drained
  BY <1>0, <1>9 DEF Drained, BusInv, Locked, Shut, Working, Draining
<1>10. CASE UNCHANGED busVars
  BY <1>0, <1>10 DEF busVars, BusInv, Locked, Shut, Working, Draining
<1> QED BY <1>1, <1>2, <1>3, <1>4, <1>5, <1>6, <1>7, <1>8, <1>9, <1>10 DEF Next

LEMMA BusStep == BusInv /\ [Next]_busVars => BusInv'
BY TypeStep, ControlStep DEF BusInv

\* The bus is well-typed and its queues never outgrow their buffers.
THEOREM BusTypeCorrect == Spec => []TypeOK
<1>1. BusInv => TypeOK BY DEF BusInv
<1> QED BY <1>1, BusInit, BusStep, PTL DEF Spec

\* No event is sent to a closed channel, however Close and Publish interleave.
THEOREM NeverSendsOnClosed == Spec => []NoSendOnClosed
<1>1. BusInv => NoSendOnClosed BY DEF BusInv, Locked, Shut, NoSendOnClosed
<1> QED BY <1>1, BusInit, BusStep, PTL DEF Spec

-----------------------------------------------------------------------------
\* Conservation, one step of the bus at a time.

LEMMA Associative == \A s, t, u \in Seq(Events) : (s \o t) \o u = s \o (t \o u)
BY ConcatAssociative

\* One more element, moved across a concatenation and appended inside of one.
LEMMA AppendInside ==
  \A h, i, q \in Seq(Events), e \in Events :
    /\ Append(h, e) \o q = h \o (<<e>> \o q)
    /\ Append(h \o (i \o q), e) = h \o (i \o Append(q, e))
<1> SUFFICES ASSUME NEW h \in Seq(Events), NEW i \in Seq(Events), NEW q \in Seq(Events),
                    NEW e \in Events
             PROVE  /\ Append(h, e) \o q = h \o (<<e>> \o q)
                    /\ Append(h \o (i \o q), e) = h \o (i \o Append(q, e))
  OBVIOUS
<1> DEFINE w == <<e>>
           iq == i \o q
<1>1. w \in Seq(Events) /\ iq \in Seq(Events) BY ConcatProperties
<1>2. /\ Append(h, e) = h \o w /\ Append(q, e) = q \o w /\ h \o iq \in Seq(Events)
  BY <1>1, AppendIsConcat, ConcatProperties
<1>3. Append(h \o iq, e) = (h \o iq) \o w BY <1>2, AppendIsConcat
<1>4. iq \o w = i \o (q \o w) BY <1>1, Associative, ZenonT(30)
<1> HIDE DEF w, iq
<1>5. (h \o w) \o q = h \o (w \o q) BY <1>1, Associative, ZenonT(30)
<1>6. (h \o iq) \o w = h \o (iq \o w) BY <1>1, Associative, ZenonT(30)
<1>7. Append(h, e) \o q = h \o (w \o q) BY <1>2, <1>5
<1>8. Append(h \o iq, e) = h \o (i \o Append(q, e)) BY <1>2, <1>3, <1>4, <1>6
<1> QED BY <1>7, <1>8 DEF w, iq

LEMMA InHandType == ASSUME BusInv, NEW s \in Subscribers PROVE InHand(s) \in Seq(Events)
<1>1. CASE worker[s] = "handling"
  <2>1. hand[s] \in Events BY <1>1 DEF BusInv, TypeOK, Working
  <2>2. <<hand[s]>> \in Seq(Events) BY <2>1
  <2> QED BY <1>1, <2>2 DEF InHand
<1>2. CASE worker[s] # "handling" BY <1>2, EmptySeq DEF InHand
<1> QED BY <1>1, <1>2

LEMMA ReceiveConserves ==
  ASSUME BusInv, Conserved, NEW s \in Subscribers, Receive(s)
  PROVE  Conserved'
<1>1. ASSUME NEW o \in Subscribers \ {s}
      PROVE  accepted[o]' = handled[o]' \o (InHand(o)' \o queue[o]')
  BY <1>1 DEF Receive, BusInv, TypeOK, Conserved, InHand, busGhost
<1>2. accepted[s]' = handled[s]' \o (InHand(s)' \o queue[s]')
  <2> DEFINE q == queue[s]
  <2>1. q \in Seq(Events) /\ q # <<>> BY DEF Receive, BusInv, TypeOK
  <2>2. InHand(s) = <<>> /\ InHand(s)' = <<Head(q)>> /\ queue[s]' = Tail(q)
    BY DEF Receive, BusInv, TypeOK, InHand
  <2>3. <<Head(q)>> \o Tail(q) = q BY <2>1, HeadTailProperties
  <2>4. <<>> \o q = q BY <2>1, ConcatEmptySeq
  <2> QED BY <2>2, <2>3, <2>4 DEF Receive, Conserved, busGhost
<1> QED BY <1>1, <1>2 DEF Conserved

LEMMA ReturnConserves ==
  ASSUME BusInv, Conserved, NEW s \in Subscribers, Return(s)
  PROVE  Conserved'
<1>1. ASSUME NEW o \in Subscribers \ {s}
      PROVE  accepted[o]' = handled[o]' \o (InHand(o)' \o queue[o]')
  BY <1>1 DEF Return, BusInv, TypeOK, Conserved, InHand
<1>2. accepted[s]' = handled[s]' \o (InHand(s)' \o queue[s]')
  <2> DEFINE q == queue[s]
             h == handled[s]
             e == hand[s]
  <2>1. q \in Seq(Events) /\ h \in Seq(Events) /\ e \in Events
    BY DEF Return, BusInv, TypeOK, Working
  <2>2. /\ InHand(s) = <<e>> /\ InHand(s)' = <<>> /\ queue[s]' = q
        /\ handled[s]' = Append(h, e)
    BY DEF Return, BusInv, TypeOK, InHand
  <2>3. Append(h, e) \o q = h \o (<<e>> \o q) BY <2>1, AppendInside, ZenonT(30)
  <2>4. <<>> \o q = q BY <2>1, ConcatEmptySeq
  <2>5. accepted[s]' = h \o (<<e>> \o q) BY <2>2 DEF Return, Conserved
  <2> HIDE DEF q, h, e
  <2> QED BY <2>2, <2>3, <2>4, <2>5
<1> QED BY <1>1, <1>2 DEF Conserved

LEMMA OfferConserves ==
  ASSUME BusInv, Conserved, NEW e \in Events, Offer(e)
  PROVE  Conserved'
<1>1. PICK s \in Subscribers : s = subs[at[e]]
  BY ElementOfSeq, LenProperties DEF Offer, BusInv, TypeOK
<1>2. /\ \/ queue' = queue /\ accepted' = accepted
         \/ /\ queue' = [queue EXCEPT ![s] = Append(@, e)]
            /\ accepted' = [accepted EXCEPT ![s] = Append(@, e)]
      /\ UNCHANGED <<worker, hand, handled>>
  BY <1>1 DEF Offer
<1>3. SUFFICES ASSUME NEW o \in Subscribers
               PROVE  accepted'[o] = handled'[o] \o (InHand(o)' \o queue'[o])
  BY DEF Conserved
<1>4. InHand(o)' = InHand(o) /\ handled' = handled BY <1>2 DEF InHand
<1>5. accepted[o] = handled[o] \o (InHand(o) \o queue[o]) BY DEF Conserved
<1>6. CASE queue'[o] = queue[o] /\ accepted'[o] = accepted[o] BY <1>4, <1>5, <1>6
<1>7. CASE queue'[o] = Append(queue[o], e) /\ accepted'[o] = Append(accepted[o], e)
  <2> DEFINE i == InHand(o)
  <2>1. queue[o] \in Seq(Events) /\ handled[o] \in Seq(Events) /\ i \in Seq(Events)
    BY InHandType DEF BusInv, TypeOK
  <2> HIDE DEF i
  <2>2. Append(handled[o] \o (i \o queue[o]), e) = handled[o] \o (i \o Append(queue[o], e))
    BY <2>1, AppendInside, ZenonT(30)
  <2> QED BY <1>4, <1>5, <1>7, <2>2 DEF i
<1>8. \/ queue'[o] = queue[o] /\ accepted'[o] = accepted[o]
      \/ queue'[o] = Append(queue[o], e) /\ accepted'[o] = Append(accepted[o], e)
  <2>1. queue \in [Subscribers -> Seq(Events)] /\ accepted \in [Subscribers -> Seq(Events)]
    BY DEF BusInv, TypeOK
  <2> QED BY <1>2, <2>1, Zenon
<1> QED BY <1>6, <1>7, <1>8

LEMMA ConservedStep == BusInv /\ Conserved /\ [Next]_busVars => Conserved'
<1> SUFFICES ASSUME BusInv, Conserved, [Next]_busVars PROVE Conserved' OBVIOUS
<1>1. ASSUME UNCHANGED <<queue, hand, busGhost>>,
             \A s \in Subscribers : worker'[s] = "handling" <=> worker[s] = "handling"
      PROVE  Conserved'
  BY <1>1 DEF Conserved, InHand, busGhost
<1>2. ASSUME NEW s \in Subscribers, Subscribe(s) \/ Exit(s) PROVE Conserved'
  BY <1>1, <1>2 DEF Subscribe, Exit, BusInv, TypeOK
<1>3. ASSUME NEW e \in Events, Publish(e) \/ PublishReturns(e) PROVE Conserved'
  BY <1>1, <1>3 DEF Publish, PublishReturns, subState
<1>4. ASSUME NEW c \in Closers, Close(c) \/ CloseReturns(c) \/ CloseExpires(c)
      PROVE  Conserved'
  BY <1>1, <1>4 DEF Close, CloseReturns, CloseExpires, subState
<1>5. CASE Drained BY <1>1, <1>5 DEF Drained, subState
<1>6. CASE UNCHANGED busVars BY <1>1, <1>6 DEF busVars, subState
<1> QED
  BY <1>2, <1>3, <1>4, <1>5, <1>6, ReceiveConserves, ReturnConserves, OfferConserves DEF Next

\* A Close that reports the drain is right: every event a queue took has been
\* handled, in the order it came.
THEOREM DrainIsComplete == Spec => []DrainMeansHandled
<1>1. BusInv /\ Conserved => DrainMeansHandled
  <2> SUFFICES ASSUME BusInv, Conserved, NEW c \in Closers, closer[c] = "drained",
                      NEW s \in Subscribers
               PROVE  handled[s] = accepted[s]
    BY DEF DrainMeansHandled
  <2>1. worker[s] \in {"none", "exited"} BY DEF BusInv, Draining, Working
  <2>2. queue[s] = <<>> /\ InHand(s) = <<>> BY <2>1 DEF BusInv, Working, InHand
  <2>3. accepted[s] = handled[s] \o (<<>> \o <<>>) BY <2>2 DEF Conserved
  <2>4. handled[s] \in Seq(Events) BY DEF BusInv, TypeOK
  <2> QED BY <2>3, <2>4, EmptySeq, ConcatEmptySeq
<1> QED BY <1>1, BusInit, BusStep, ConservedStep, PTL DEF Spec

-----------------------------------------------------------------------------
(* The pipeline. *)

\* The places of the events: not published, offered by a Publish, in the queue, with the
\* handler, in the buffer, in the batch of a flush.
New        == {e \in Events : publisher[e] = "new"}
Offering   == {e \in Events : publisher[e] = "sending" /\ at[e] \in DOMAIN subs}
Queued     == Elements(queue[Audit])
Held       == IF Handling THEN {hand[Audit]} ELSE {}
Buffered   == Elements(buf)
Batched(f) == Elements(batch[f])
Taken      == Elements(accepted[Audit])

Distinct(q) == \A i, j \in DOMAIN q : q[i] = q[j] => i = j

\* What the values look like.
Shapes ==
  /\ publisher \in [Events -> {"new", "sending", "returned"}]
  /\ at \in [Events -> Nat]
  /\ queue \in [{Audit} -> Seq(Events)]
  /\ accepted \in [{Audit} -> Seq(Events)]
  /\ worker \in [{Audit} -> {"none", "waiting", "handling", "exited"}]
  /\ DOMAIN hand = {Audit}
  /\ worker[Audit] = "handling" => hand[Audit] \in Events
  /\ closer \in [{Main} -> {"new", "waiting", "drained", "expired"}]
  /\ serving \subseteq Events
  /\ main \in Steps
  /\ buf \in Seq(Events)
  /\ off \in BOOLEAN /\ stop \in BOOLEAN /\ looping \in BOOLEAN
  /\ flushing \in [Flushers -> {"out", "swap", "insert", "over"}]
  /\ batch \in [Flushers -> Seq(Events)]
  /\ rows \in [Events -> Nat]
  /\ failed \subseteq Events

\* Where the bus is, by where main is.
Serving ==
  /\ subs = IF main = "boot" THEN <<>> ELSE <<Audit>>
  /\ \A e \in Events : publisher[e] # "new" => e \in serving
  /\ main = "boot" => serving = {}
  /\ closed <=> main \notin {"boot", "serving", "closeBus"}
  /\ \A e \in Events : publisher[e] = "sending" => ~closed
  /\ shut = IF closed THEN {Audit} ELSE {}
  /\ closer[Main] # "new" <=> closed
  /\ done => closed /\ worker[Audit] = "exited"
  /\ closer[Main] = "drained" => done

\* Where the worker, the loop and the flushes are.
Flushing ==
  /\ worker[Audit] = "none" <=> main = "boot"
  /\ worker[Audit] \in {"none", "exited"} => queue[Audit] = <<>>
  /\ worker[Audit] = "exited" => closed
  /\ flushing[Audit] # "out" => worker[Audit] = "handling"
  /\ \A f \in Flushers : flushing[f] # "insert" => batch[f] = <<>>
  /\ off <=> main \in {"flushing", "closeDB", "closed"}
  /\ main \in {"closeBuffer", "flushing", "closeDB", "closed"} => ~looping
  /\ ~looping => flushing["loop"] \in {"out", "over"}
  /\ flushing[Main] = "out" <=> ~off
  /\ main \in {"closeDB", "closed"} => flushing[Main] = "over"
  /\ flushing[Main] \in {"insert", "over"} => buf = <<>>

\* An event is in one place, and there once; its row is not stored before it leaves.
Apart ==
  /\ Distinct(queue[Audit])
  /\ (New \cup Offering) \cap (Queued \cup Held \cup Buffered) = {}
  /\ Queued \cap (Held \cup Buffered) = {}
  /\ Held \cap Buffered = {}
  /\ \A f \in Flushers : Batched(f) \cap (New \cup Offering \cup Queued \cup Held \cup Buffered) = {}
  /\ \A f, g \in Flushers : f # g => Batched(f) \cap Batched(g) = {}
  /\ \A e \in Events : rows[e] \in {0, 1}
  /\ \A e \in New \cup Pending : rows[e] = 0

\* What the queue took and toRow knows is under way, failed or stored, unless the drain
\* ran out of time and the subscriber has been closed.
Accounted ==
  ~off \/ closer[Main] = "drained" =>
    \A e \in Taken \ Unknown : e \in Queued \cup Held \cup Buffered \cup failed
                               \/ (\E f \in Flushers : e \in Batched(f)) \/ rows[e] = 1

IInv == Shapes /\ Serving /\ Flushing /\ Apart /\ Accounted

\* A step of AuditTrail: an event is published, rows are stored, or events are lost or only
\* change their place.
Publishing == \E e \in New : New' = New \ {e} /\ rows' = rows /\ Pending' \in {Pending, Pending \cup {e}}
Storing    == \E f \in Flushers :
                /\ Batched(f) \subseteq Pending /\ Pending' = Pending \ Batched(f)
                /\ New' = New /\ rows' = Inserted(f)
Moving     == New' = New /\ rows' = rows /\ Pending' \subseteq Pending
TrailStep  == Publishing \/ Storing \/ Moving

-----------------------------------------------------------------------------
(* Sequences and the sets of their elements. *)

LEMMA AppendElements ==
  ASSUME NEW q \in Seq(Events), NEW e \in Events
  PROVE  /\ Append(q, e) \in Seq(Events)
         /\ Elements(Append(q, e)) = Elements(q) \cup {e}
         /\ Distinct(q) /\ e \notin Elements(q) => Distinct(Append(q, e))
<1>1. /\ Append(q, e) \in Seq(Events) /\ Len(Append(q, e)) = Len(q) + 1
      /\ \A i \in 1 .. Len(q) : Append(q, e)[i] = q[i]
      /\ Append(q, e)[Len(q) + 1] = e
  BY AppendProperties
<1>2. Len(q) \in Nat /\ DOMAIN q = 1 .. Len(q) /\ DOMAIN Append(q, e) = 1 .. (Len(q) + 1)
  BY <1>1, LenProperties
<1>3. Elements(Append(q, e)) = Elements(q) \cup {e}
  BY <1>1, <1>2 DEF Elements
<1>4. Distinct(q) /\ e \notin Elements(q) => Distinct(Append(q, e))
  BY <1>1, <1>2 DEF Elements, Distinct
<1> QED
  BY <1>1, <1>3, <1>4

LEMMA TailElements ==
  ASSUME NEW q \in Seq(Events), q # <<>>, Distinct(q)
  PROVE  /\ Head(q) \in Events /\ Tail(q) \in Seq(Events) /\ Distinct(Tail(q))
         /\ Head(q) \notin Elements(Tail(q)) /\ Elements(q) = Elements(Tail(q)) \cup {Head(q)}
<1>1. /\ Head(q) = q[1] /\ Head(q) \in Events /\ Tail(q) \in Seq(Events)
      /\ Len(Tail(q)) = Len(q) - 1
      /\ \A i \in 1 .. Len(Tail(q)) : Tail(q)[i] = q[i + 1]
  BY HeadTailProperties
<1>2. /\ Len(q) \in Nat \ {0} /\ DOMAIN q = 1 .. Len(q)
      /\ DOMAIN Tail(q) = 1 .. (Len(q) - 1)
  BY <1>1, LenProperties, EmptySeq
<1>3. \A i \in DOMAIN Tail(q) : i + 1 \in DOMAIN q /\ i + 1 # 1 /\ Tail(q)[i] = q[i + 1]
  BY <1>1, <1>2
<1>4. Distinct(Tail(q))
  BY <1>2, <1>3 DEF Distinct
<1>5. Head(q) \notin Elements(Tail(q))
  BY <1>1, <1>2, <1>3 DEF Distinct, Elements
<1>6. \A i \in DOMAIN q : i = 1 \/ (i - 1 \in DOMAIN Tail(q) /\ Tail(q)[i - 1] = q[i])
  BY <1>1, <1>2
<1>7. Elements(q) \subseteq Elements(Tail(q)) \cup {Head(q)}
  <2> SUFFICES ASSUME NEW i \in DOMAIN q PROVE q[i] \in Elements(Tail(q)) \cup {Head(q)}
    BY DEF Elements
  <2>1. CASE i = 1
    BY <1>1, <2>1
  <2>2. CASE i - 1 \in DOMAIN Tail(q) /\ Tail(q)[i - 1] = q[i]
    BY <2>2 DEF Elements
  <2> QED
    BY <1>6, <2>1, <2>2
<1>8. Elements(Tail(q)) \cup {Head(q)} \subseteq Elements(q)
  BY <1>1, <1>2, <1>3 DEF Elements
<1> QED
  BY <1>1, <1>4, <1>5, <1>7, <1>8

LEMMA NoElements == Elements(<<>>) = {} /\ Distinct(<<>>)
BY DEF Elements, Distinct

-----------------------------------------------------------------------------
(* Steps that move no event. *)

\* What is on its way is what is in one of the places.
LEMMA Places ==
  \A e : e \in Pending <=> \/ e \in Offering \cup Queued \cup Held \cup Buffered
                           \/ \E f \in Flushers : e \in Batched(f)
BY DEF Pending, Offering, Queued, Held, Buffered, Batched

Counting == ~off \/ closer[Main] = "drained"

Still ==
  /\ UNCHANGED <<New, Offering, Queued, Held, Buffered, Taken, rows>>
  /\ \A f \in Flushers : Batched(f)' = Batched(f)
  /\ UNCHANGED queue
  /\ failed \subseteq failed'
  /\ Counting' => Counting

LEMMA StillKeeps ==
  ASSUME Apart, Accounted, Still
  PROVE  Apart' /\ Accounted' /\ Moving
<1>1. Pending' = Pending
  BY DEF Still, Pending, New, Offering, Queued, Held, Buffered, Batched
<1>2. Moving
  BY <1>1 DEF Still, Moving
<1>3. Apart'
  BY <1>1 DEF Still, Apart, Distinct
<1>4. Accounted'
  BY DEF Still, Accounted, Counting
<1> QED
  BY <1>2, <1>3, <1>4

LEMMA Unmoved ==
  ASSUME UNCHANGED <<subs, publisher, at, queue, buf, batch, rows, accepted>>,
         Held' = Held, failed' = failed, Counting' => Counting
  PROVE  Still
BY DEF Still, New, Offering, Queued, Buffered, Batched, Taken

\* main, the requests and the bus's Close.
LEMMA MainKeeps ==
  ASSUME IInv, \/ ServerStops \/ CloseBus \/ BusClosed \/ StopLoop \/ JoinLoop \/ CloseBuffer
               \/ AuditClosed \/ ClosePool \/ Waiter \/ (\E e \in Events : Request(e))
               \/ Tick \/ LoopStops \/ UNCHANGED vars
  PROVE  IInv' /\ TrailStep
<1> USE DEF busVars, subVars, db, busState, pubState, subState, busGhost,
            Close, CloseReturns, CloseExpires, Drained
<1>1. /\ UNCHANGED <<subs, publisher, at, queue, buf, batch, rows, accepted, failed, worker, hand>>
      /\ flushing'[Audit] = flushing[Audit]
  BY DEF ServerStops, CloseBus, BusClosed, StopLoop, JoinLoop, CloseBuffer, AuditClosed, ClosePool,
         Waiter, Request, Tick, LoopStops, vars, IInv, Shapes, Flushers, Audit, Main
<1>2. Counting' => Counting
  BY DEF ServerStops, CloseBus, BusClosed, StopLoop, JoinLoop, CloseBuffer, AuditClosed, ClosePool,
         Waiter, Request, Tick, LoopStops, vars, IInv, Shapes, Flushing, Counting
<1>3. Still
  BY <1>1, <1>2, Unmoved DEF Held, Handling
<1>4. Apart' /\ Accounted' /\ TrailStep
  BY <1>3, StillKeeps DEF IInv, TrailStep
<1>5. Shapes'
  BY <1>1, ZenonT(60) DEF ServerStops, CloseBus, BusClosed, StopLoop, JoinLoop, CloseBuffer, AuditClosed, ClosePool,
         Waiter, Request, Tick, LoopStops, vars, IInv, Shapes, Steps
<1>6. Serving'
  BY <1>1 DEF ServerStops, CloseBus, BusClosed, StopLoop, JoinLoop, CloseBuffer, AuditClosed, ClosePool,
         Waiter, Request, Tick, LoopStops, vars, IInv, Shapes, Serving, Registered, Reading, Steps
<1>7. Flushing'
  <2> USE DEF IInv, Shapes, Serving, Flushing, Flushers, Audit, Main, Steps
  <2>1. CASE ServerStops \/ CloseBus \/ BusClosed \/ Waiter
    <3>1. /\ UNCHANGED <<off, looping, flushing, serving>>
          /\ closed => closed'
          /\ main' = "boot" <=> main = "boot"
          /\ main' \in {"closeBuffer", "flushing", "closeDB", "closed"} <=>
             main \in {"closeBuffer", "flushing", "closeDB", "closed"}
          /\ main' \in {"flushing", "closeDB", "closed"} <=> main \in {"flushing", "closeDB", "closed"}
          /\ main' \in {"closeDB", "closed"} <=> main \in {"closeDB", "closed"}
      BY <2>1 DEF ServerStops, CloseBus, BusClosed, Waiter
    <3> QED
      BY <1>1, <3>1
  <2>2. CASE StopLoop \/ JoinLoop \/ AuditClosed \/ ClosePool
    <3>1. /\ UNCHANGED <<off, looping, flushing, serving, closed>>
          /\ main' # "boot" /\ main # "boot"
      BY <2>2 DEF StopLoop, JoinLoop, AuditClosed, ClosePool
    <3>2. /\ off <=> main' \in {"flushing", "closeDB", "closed"}
          /\ main' \in {"closeBuffer", "flushing", "closeDB", "closed"} => ~looping
          /\ main' \in {"closeDB", "closed"} => flushing[Main] = "over"
      BY <2>2 DEF StopLoop, JoinLoop, AuditClosed, ClosePool
    <3> QED
      BY <1>1, <3>1, <3>2
  <2>3. CASE CloseBuffer
    BY <1>1, <2>3 DEF CloseBuffer
  <2>4. CASE (\E e \in Events : Request(e)) \/ UNCHANGED vars
    <3>1. UNCHANGED <<off, looping, flushing, closed, main>>
      BY <2>4 DEF Request, vars
    <3> QED
      BY <1>1, <3>1
  <2>5. CASE Tick \/ LoopStops
    BY <1>1, <2>5, SMTT(60) DEF Tick, LoopStops
  <2> QED
    BY <2>1, <2>2, <2>3, <2>4, <2>5
<1> QED
  BY <1>4, <1>5, <1>6, <1>7 DEF IInv

-----------------------------------------------------------------------------
(* The bus. *)

LEMMA BootKeeps ==
  ASSUME IInv, Boot
  PROVE  IInv' /\ TrailStep
<1> USE DEF Boot, busVars, subVars, db, Subscribe, busState, pubState, subState, busGhost
<1>1. \A e \in Events : publisher[e] = "new"
  BY DEF IInv, Shapes, Serving
<1>2. subs = <<>> /\ subs' = <<Audit>>
  BY DEF IInv, Serving
<1>3. worker' = [worker EXCEPT ![Audit] = "waiting"] /\ worker[Audit] = "none"
  BY DEF Audit
<1>4. UNCHANGED <<closed, done, shut, closer, publisher, at, queue, hand, accepted, buf, batch, rows, failed,
                  serving, off, stop, looping, flushing>>
      /\ main = "boot" /\ main' = "serving"
  OBVIOUS
<1>5. Held' = Held
  BY <1>3, <1>4 DEF Held, Handling, IInv, Shapes
<1>6. Offering' = {} /\ Offering = {}
  BY <1>1, <1>4 DEF Offering
<1>7. Still
  BY <1>4, <1>5, <1>6 DEF Still, Counting, New, Queued, Buffered, Batched, Taken
<1>8. Apart' /\ Accounted' /\ TrailStep
  BY <1>7, StillKeeps DEF IInv, TrailStep
<1>9. Shapes' /\ Serving' /\ Flushing'
  <2>1. Shapes'
    BY <1>3, <1>4 DEF IInv, Shapes, Steps
  <2>2. Serving'
    BY <1>1, <1>2, <1>3, <1>4 DEF IInv, Shapes, Serving
  <2>3. Flushing'
    BY <1>3, <1>4 DEF IInv, Shapes, Flushing
  <2> QED
    BY <2>1, <2>2, <2>3
<1> QED
  BY <1>8, <1>9 DEF IInv

LEMMA PublishKeeps ==
  ASSUME IInv, NEW e \in serving, Publish(e), UNCHANGED <<serving, main, subVars, db>>
  PROVE  IInv' /\ TrailStep
<1> USE DEF subVars, db, Publish, busState, pubState, subState, busGhost
<1>1. /\ e \in Events /\ publisher[e] = "new"
      /\ publisher' = [publisher EXCEPT ![e] = IF closed THEN "returned" ELSE "sending"]
      /\ UNCHANGED <<subs, closed, done, at, queue, shut, worker, hand, closer, accepted, handled, serving,
                     main, buf, off, stop, looping, flushing, batch, rows, failed>>
  BY DEF IInv, Shapes
<1>2. Shapes'
  BY <1>1 DEF IInv, Shapes
<1>3. Serving' /\ Flushing'
  <2>1. Serving'
    BY <1>1 DEF IInv, Shapes, Serving
  <2>2. Flushing'
    BY <1>1 DEF IInv, Flushing
  <2> QED
    BY <2>1, <2>2
<1>4. /\ New' = New \ {e} /\ e \in New /\ e \notin Offering
      /\ Offering' \in {Offering, Offering \cup {e}}
  BY <1>1 DEF New, Offering, IInv, Shapes
<1>5. /\ Queued' = Queued /\ Held' = Held /\ Buffered' = Buffered /\ Taken' = Taken
      /\ \A f \in Flushers : Batched(f)' = Batched(f)
      /\ Distinct(queue[Audit])' = Distinct(queue[Audit])
  BY <1>1 DEF Queued, Held, Handling, Buffered, Taken, Batched, Distinct
<1>6. Pending' \in {Pending, Pending \cup {e}}
  BY <1>4, <1>5 DEF Pending, Offering, Queued, Held, Buffered, Batched
<1>7. Publishing
  BY <1>1, <1>4, <1>6 DEF Publishing
<1>8. Apart'
  BY <1>1, <1>4, <1>5, <1>6 DEF IInv, Apart
<1>9. Accounted'
  BY <1>1, <1>5 DEF IInv, Accounted
<1> QED
  BY <1>2, <1>3, <1>7, <1>8, <1>9 DEF IInv, TrailStep

LEMMA PublishReturnsKeeps ==
  ASSUME IInv, NEW e \in serving, PublishReturns(e), UNCHANGED <<serving, main, subVars, db>>
  PROVE  IInv' /\ TrailStep
<1> USE DEF subVars, db, PublishReturns, busState, pubState, subState, busGhost
<1>1. /\ e \in Events /\ publisher[e] = "sending" /\ at[e] \notin DOMAIN subs
      /\ publisher' = [publisher EXCEPT ![e] = "returned"]
      /\ UNCHANGED <<subs, closed, done, at, queue, shut, worker, hand, closer, accepted, handled, serving,
                     main, buf, off, stop, looping, flushing, batch, rows, failed>>
  BY DEF IInv, Shapes
<1>2. Shapes'
  BY <1>1 DEF IInv, Shapes
<1>3. Serving' /\ Flushing'
  <2>1. Serving'
    BY <1>1 DEF IInv, Shapes, Serving
  <2>2. Flushing'
    BY <1>1 DEF IInv, Flushing
  <2> QED
    BY <2>1, <2>2
<1>4. New' = New /\ Offering' = Offering
  BY <1>1 DEF New, Offering, IInv, Shapes
<1>5. Still
  BY <1>1, <1>4 DEF Still, Counting, Queued, Held, Handling, Buffered, Batched, Taken
<1> QED
  BY <1>2, <1>3, <1>5, StillKeeps DEF IInv, TrailStep

LEMMA OfferKeeps ==
  ASSUME IInv, NEW e \in serving, Offer(e), UNCHANGED <<serving, main, subVars, db>>
  PROVE  IInv' /\ TrailStep
<1> USE DEF subVars, db, Offer, busState, pubState, subState, busGhost
<1> DEFINE q == queue[Audit]
           t == accepted[Audit]
<1>1. /\ e \in Events /\ publisher[e] = "sending" /\ at[e] \in DOMAIN subs
      /\ at' = [at EXCEPT ![e] = @ + 1]
      /\ UNCHANGED <<subs, closed, done, publisher, shut, worker, hand, closer, handled, serving,
                     main, buf, off, stop, looping, flushing, batch, rows, failed>>
  BY DEF IInv, Shapes
<1>2. subs = <<Audit>> /\ at[e] = 1 /\ subs[at[e]] = Audit /\ main # "boot"
  BY <1>1 DEF IInv, Shapes, Serving
<1>3. q \in Seq(Events) /\ t \in Seq(Events)
  BY DEF IInv, Shapes
<1>4. \/ queue' = queue /\ accepted' = accepted
      \/ /\ queue' = [queue EXCEPT ![Audit] = Append(q, e)]
         /\ accepted' = [accepted EXCEPT ![Audit] = Append(t, e)]
  BY <1>2
<1>5. /\ Append(q, e) \in Seq(Events) /\ Elements(Append(q, e)) = Elements(q) \cup {e}
      /\ Distinct(q) /\ e \notin Elements(q) => Distinct(Append(q, e))
      /\ Append(t, e) \in Seq(Events) /\ Elements(Append(t, e)) = Elements(t) \cup {e}
  BY <1>1, <1>3, AppendElements
<1>6. e \in Offering /\ Offering' = Offering \ {e} /\ New' = New
  <2>1. at'[e] = 2 /\ 2 \notin DOMAIN subs /\ \A o \in Events \ {e} : at'[o] = at[o]
    BY <1>1, <1>2 DEF IInv, Shapes
  <2> QED
    BY <1>1, <2>1 DEF Offering, New
<1>7. e \notin Elements(q) /\ Distinct(q)
  BY <1>6 DEF IInv, Apart, Queued
<1>8. \/ queue' = queue /\ Queued' = Queued /\ Taken' = Taken
      \/ Queued' = Queued \cup {e} /\ Taken' = Taken \cup {e}
  BY <1>4, <1>5 DEF Queued, Taken, IInv, Shapes
<1>9. Distinct(queue[Audit])'
  BY <1>4, <1>5, <1>7 DEF IInv, Shapes, Distinct
<1>10. /\ Held' = Held /\ Buffered' = Buffered
       /\ \A f \in Flushers : Batched(f)' = Batched(f)
  BY <1>1 DEF Held, Handling, Buffered, Batched
<1>11. Shapes'
  <2>1. at' \in [Events -> Nat]
    BY <1>1 DEF IInv, Shapes
  <2>2. queue' \in [{Audit} -> Seq(Events)] /\ accepted' \in [{Audit} -> Seq(Events)]
    <3>1. queue \in [{Audit} -> Seq(Events)] /\ accepted \in [{Audit} -> Seq(Events)]
      BY DEF IInv, Shapes
    <3>2. Append(q, e) \in Seq(Events) /\ Append(t, e) \in Seq(Events)
      BY <1>5
    <3> HIDE DEF q, t
    <3> QED
      BY <1>4, <3>1, <3>2
  <2> HIDE DEF q, t
  <2> QED
    BY <1>1, <2>1, <2>2 DEF IInv, Shapes
<1>12. Serving'
  BY <1>1 DEF IInv, Serving
<1>13. Flushing'
  <2>1. worker[Audit] \notin {"none", "exited"}
    BY <1>1, <1>2 DEF IInv, Serving, Flushing
  <2> QED
    BY <1>1, <2>1 DEF IInv, Flushing
<1> HIDE DEF q, t
<1>14. Pending' \subseteq Pending
  <2>1. \A x : x \in Pending' => \/ x \in Offering' \cup Queued' \cup Held' \cup Buffered'
                                 \/ \E f \in Flushers : x \in Batched(f)'
    BY DEF Pending, Offering, Queued, Held, Buffered, Batched
  <2> QED
    BY <2>1, <1>6, <1>8, <1>10, Places
<1>15. Moving
  BY <1>1, <1>6, <1>14 DEF Moving
<1>16. Apart'
  <2>1. /\ e \notin Queued \cup Held \cup Buffered
        /\ \A f \in Flushers : e \notin Batched(f)
    BY <1>6 DEF IInv, Apart
  <2>2. Queued' \subseteq Queued \cup {e}
    BY <1>8
  <2>3. /\ (New \cup Offering)' \cap (Queued \cup Held \cup Buffered)' = {}
        /\ Queued' \cap (Held \cup Buffered)' = {}
        /\ Held' \cap Buffered' = {}
    BY <1>6, <1>10, <2>1, <2>2 DEF IInv, Apart, New
  <2>4. \A f \in Flushers : Batched(f)' \cap (New \cup Offering \cup Queued \cup Held \cup Buffered)' = {}
    BY <1>6, <1>10, <2>1, <2>2 DEF IInv, Apart
  <2> QED
    BY <1>1, <1>6, <1>9, <1>10, <1>14, <2>3, <2>4 DEF IInv, Apart
<1>17. Accounted'
  BY <1>1, <1>8, <1>10 DEF IInv, Accounted
<1> QED
  BY <1>11, <1>12, <1>13, <1>15, <1>16, <1>17 DEF IInv, TrailStep

-----------------------------------------------------------------------------
(* The worker and its handler. *)

LEMMA ExitKeeps ==
  ASSUME IInv, Exit(Audit), UNCHANGED <<serving, main, subVars, db>>
  PROVE  IInv' /\ TrailStep
<1> USE DEF subVars, db, Exit, busState, pubState, subState, busGhost
<1>1. /\ worker[Audit] = "waiting" /\ Audit \in shut /\ queue[Audit] = <<>>
      /\ worker' = [worker EXCEPT ![Audit] = "exited"]
      /\ UNCHANGED <<subs, closed, done, publisher, at, queue, shut, hand, closer, accepted, handled, serving,
                     main, buf, off, stop, looping, flushing, batch, rows, failed>>
  OBVIOUS
<1>2. worker'[Audit] = "exited"
  BY <1>1 DEF IInv, Shapes
<1>3. Shapes'
  BY <1>1 DEF IInv, Shapes
<1>4. Serving'
  BY <1>1, <1>2 DEF IInv, Shapes, Serving
<1>5. Flushing'
  BY <1>1, <1>2 DEF IInv, Shapes, Serving, Flushing
<1>6. Held' = Held
  BY <1>1, <1>2 DEF Held, Handling
<1>7. Still
  BY <1>1, <1>6, Unmoved DEF Counting
<1> QED
  BY <1>3, <1>4, <1>5, <1>7, StillKeeps DEF IInv, TrailStep

LEMMA ReceiveKeeps ==
  ASSUME IInv, Receive(Audit), UNCHANGED <<serving, main, subVars, db>>
  PROVE  IInv' /\ TrailStep
<1> USE DEF subVars, db, Receive, busState, pubState, subState, busGhost
<1> DEFINE q == queue[Audit]
           h == Head(q)
<1>1. /\ worker[Audit] = "waiting" /\ q # <<>>
      /\ hand' = [hand EXCEPT ![Audit] = h]
      /\ queue' = [queue EXCEPT ![Audit] = Tail(q)]
      /\ worker' = [worker EXCEPT ![Audit] = "handling"]
      /\ UNCHANGED <<subs, closed, done, publisher, at, shut, closer, accepted, handled, serving,
                     main, buf, off, stop, looping, flushing, batch, rows, failed>>
  OBVIOUS
<1>2. q \in Seq(Events) /\ Distinct(q)
  BY DEF IInv, Shapes, Apart
<1>3. /\ h \in Events /\ Tail(q) \in Seq(Events) /\ Distinct(Tail(q))
      /\ h \notin Elements(Tail(q)) /\ Elements(q) = Elements(Tail(q)) \cup {h}
  BY <1>1, <1>2, TailElements
<1>4. worker'[Audit] = "handling" /\ hand'[Audit] = h /\ queue'[Audit] = Tail(q)
  BY <1>1 DEF IInv, Shapes
<1> HIDE DEF q, h
<1>5. flushing[Audit] = "out"
  BY <1>1 DEF IInv, Flushing
<1>6. Held = {} /\ Held' = {h}
  BY <1>1, <1>4, <1>5 DEF Held, Handling
<1>7. h \notin Queued' /\ Queued = Queued' \cup {h} /\ Distinct(queue[Audit])'
  BY <1>3, <1>4 DEF Queued, q
<1>8. /\ New' = New /\ Offering' = Offering /\ Buffered' = Buffered /\ Taken' = Taken
      /\ \A f \in Flushers : Batched(f)' = Batched(f)
  BY <1>1 DEF New, Offering, Buffered, Taken, Batched
<1>9. Shapes'
  <2>1. queue' \in [{Audit} -> Seq(Events)] /\ DOMAIN hand' = {Audit}
    BY <1>1, <1>3 DEF IInv, Shapes
  <2> QED
    BY <1>1, <1>3, <1>4, <2>1 DEF IInv, Shapes
<1>10. Serving'
  BY <1>1, <1>4 DEF IInv, Shapes, Serving
<1>11. Flushing'
  BY <1>1, <1>4 DEF IInv, Shapes, Flushing
<1>12. Pending' \subseteq Pending
  <2>1. \A x : x \in Pending' => \/ x \in Offering' \cup Queued' \cup Held' \cup Buffered'
                                 \/ \E f \in Flushers : x \in Batched(f)'
    BY DEF Pending, Offering, Queued, Held, Buffered, Batched
  <2> QED
    BY <2>1, <1>6, <1>7, <1>8, Places
<1>13. Moving
  BY <1>1, <1>8, <1>12 DEF Moving
<1>14. Apart'
  <2>1. /\ (New \cup Offering)' \cap (Queued \cup Held \cup Buffered)' = {}
        /\ Queued' \cap (Held \cup Buffered)' = {}
        /\ Held' \cap Buffered' = {}
    BY <1>6, <1>7, <1>8 DEF IInv, Apart
  <2>2. \A f \in Flushers : Batched(f)' \cap (New \cup Offering \cup Queued \cup Held \cup Buffered)' = {}
    BY <1>6, <1>7, <1>8 DEF IInv, Apart
  <2> QED
    BY <1>1, <1>7, <1>8, <1>12, <2>1, <2>2 DEF IInv, Apart
<1>15. Accounted'
  BY <1>1, <1>6, <1>7, <1>8 DEF IInv, Accounted
<1> QED
  BY <1>9, <1>10, <1>11, <1>13, <1>14, <1>15 DEF IInv, TrailStep

\* A return of the handler, however it came about: what the handler still had may be
\* lost, or stay where it has put it.
LEMMA ReturnFrame ==
  ASSUME IInv, Return(Audit)
  PROVE  /\ worker[Audit] = "handling" /\ worker'[Audit] = "waiting"
         /\ worker' \in [{Audit} -> {"none", "waiting", "handling", "exited"}]
         /\ DOMAIN hand' = {Audit} /\ Held' = {}
         /\ UNCHANGED <<subs, closed, done, publisher, at, queue, shut, closer, accepted>>
<1> USE DEF Return, busState, pubState
<1>1. worker[Audit] = "handling" /\ worker' = [worker EXCEPT ![Audit] = "waiting"]
  OBVIOUS
<1>2. worker'[Audit] = "waiting" /\ worker' \in [{Audit} -> {"none", "waiting", "handling", "exited"}]
  BY <1>1 DEF IInv, Shapes
<1>3. Held' = {}
  BY <1>2 DEF Held, Handling
<1> QED
  BY <1>1, <1>2, <1>3 DEF IInv, Shapes

LEMMA DropKeeps ==
  ASSUME IInv, HandleDrops \/ HandlePanics
  PROVE  IInv' /\ TrailStep
<1> USE DEF HandleDrops, HandlePanics, subVars, db
<1> DEFINE h == hand[Audit]
<1>1. /\ Handling /\ Return(Audit)
      /\ UNCHANGED <<serving, main, buf, off, stop, looping, flushing, batch, rows>>
      /\ failed' = failed \cup {h} \/ (failed' = failed /\ (h \in Unknown \/ off))
  OBVIOUS
<1>2. /\ worker[Audit] = "handling" /\ worker'[Audit] = "waiting"
      /\ worker' \in [{Audit} -> {"none", "waiting", "handling", "exited"}]
      /\ DOMAIN hand' = {Audit} /\ Held' = {}
      /\ UNCHANGED <<subs, closed, done, publisher, at, queue, shut, closer, accepted>>
  BY <1>1, ReturnFrame
<1>3. h \in Events /\ Held = {h} /\ flushing[Audit] = "out"
  BY <1>1, <1>2 DEF Held, Handling, IInv, Shapes
<1>4. /\ New' = New /\ Offering' = Offering /\ Queued' = Queued /\ Buffered' = Buffered /\ Taken' = Taken
      /\ \A f \in Flushers : Batched(f)' = Batched(f)
      /\ Distinct(queue[Audit])' = Distinct(queue[Audit])
  BY <1>1, <1>2 DEF New, Offering, Queued, Buffered, Taken, Batched, Distinct
<1> HIDE DEF h
<1>5. Shapes'
  BY <1>1, <1>2, <1>3 DEF IInv, Shapes
<1>6. Serving'
  BY <1>1, <1>2 DEF IInv, Serving
<1>7. Flushing'
  BY <1>1, <1>2, <1>3 DEF IInv, Flushing
<1>8. Pending' \subseteq Pending
  BY <1>2, <1>4 DEF Pending, Offering, Queued, Held, Buffered, Batched
<1>9. Moving
  BY <1>1, <1>4, <1>8 DEF Moving
<1>10. Apart'
  BY <1>1, <1>2, <1>4, <1>8 DEF IInv, Apart
<1>11. Accounted'
  <2>1. off => closer[Main] # "drained"
    BY <1>2 DEF IInv, Serving
  <2> QED
    BY <1>1, <1>2, <1>3, <1>4, <2>1 DEF IInv, Accounted
<1> QED
  BY <1>5, <1>6, <1>7, <1>9, <1>10, <1>11 DEF IInv, TrailStep

LEMMA HandleReturnsKeeps ==
  ASSUME IInv, HandleReturns
  PROVE  IInv' /\ TrailStep
<1> USE DEF HandleReturns, db
<1>1. /\ flushing[Audit] = "over" /\ Return(Audit)
      /\ flushing' = [flushing EXCEPT ![Audit] = "out"]
      /\ UNCHANGED <<serving, main, buf, off, stop, looping, batch, rows, failed>>
  OBVIOUS
<1>2. /\ worker[Audit] = "handling" /\ worker'[Audit] = "waiting"
      /\ worker' \in [{Audit} -> {"none", "waiting", "handling", "exited"}]
      /\ DOMAIN hand' = {Audit} /\ Held' = {}
      /\ UNCHANGED <<subs, closed, done, publisher, at, queue, shut, closer, accepted>>
  BY <1>1, ReturnFrame
<1>3. Held = {}
  BY <1>1 DEF Held, Handling
<1>4. flushing' \in [Flushers -> {"out", "swap", "insert", "over"}]
      /\ flushing'[Audit] = "out" /\ \A f \in Flushers \ {Audit} : flushing'[f] = flushing[f]
  BY <1>1 DEF IInv, Shapes, Flushers
<1>5. Shapes'
  BY <1>1, <1>2, <1>4 DEF IInv, Shapes
<1>6. Serving'
  BY <1>1, <1>2 DEF IInv, Serving
<1>7. Flushing'
  <2>1. "loop" \in Flushers \ {Audit} /\ Main \in Flushers \ {Audit} /\ Audit \in Flushers
    BY DEF Flushers, Audit, Main
  <2>2. flushing'["loop"] = flushing["loop"] /\ flushing'[Main] = flushing[Main]
    BY <1>4, <2>1
  <2>3. \A f \in Flushers : flushing'[f] # "insert" => batch[f] = <<>>
    BY <1>1, <1>4, <2>1 DEF IInv, Flushing
  <2> QED
    BY <1>1, <1>2, <1>4, <2>2, <2>3 DEF IInv, Flushing
<1>8. Still
  BY <1>1, <1>2, <1>3, Unmoved DEF Counting
<1> QED
  BY <1>5, <1>6, <1>7, <1>8, StillKeeps DEF IInv, TrailStep

LEMMA BuffersKeeps ==
  ASSUME IInv, HandleBuffers
  PROVE  IInv' /\ TrailStep
<1> USE DEF HandleBuffers, db, busVars, busState, pubState, subState, busGhost
<1> DEFINE h == hand[Audit]
<1>1. /\ Handling /\ h \notin Unknown /\ ~off /\ buf' = Append(buf, h)
      /\ UNCHANGED <<serving, main, off, stop, looping, batch, rows, failed>>
  OBVIOUS
<1>2. /\ worker[Audit] = "handling" /\ flushing[Audit] = "out" /\ h \in Events /\ Held = {h}
      /\ buf \in Seq(Events)
  BY <1>1 DEF Handling, Held, IInv, Shapes
<1>3. buf' \in Seq(Events) /\ Buffered' = Buffered \cup {h}
  BY <1>1, <1>2, AppendElements DEF Buffered
<1>4. /\ \/ worker'[Audit] = "waiting" /\ flushing' = flushing
         \/ /\ worker'[Audit] = "handling" /\ hand'[Audit] = h
            /\ flushing' = [flushing EXCEPT ![Audit] = "swap"]
      /\ worker' \in [{Audit} -> {"none", "waiting", "handling", "exited"}]
      /\ DOMAIN hand' = {Audit} /\ Held' = {}
      /\ UNCHANGED <<subs, closed, done, publisher, at, queue, shut, closer, accepted>>
  <2>1. CASE Full(buf')
    <3>1. /\ flushing' = [flushing EXCEPT ![Audit] = "swap"]
          /\ UNCHANGED <<subs, closed, done, publisher, at, queue, shut, worker, hand, closer, accepted>>
      BY <2>1
    <3>2. flushing'[Audit] = "swap"
      BY <3>1 DEF IInv, Shapes, Flushers
    <3>3. Held' = {}
      BY <3>2 DEF Held, Handling
    <3> QED
      BY <1>2, <3>1, <3>3 DEF IInv, Shapes
  <2>2. CASE ~Full(buf')
    <3>1. Return(Audit) /\ UNCHANGED flushing
      BY <2>2
    <3> QED
      BY <3>1, ReturnFrame
  <2> QED
    BY <2>1, <2>2
<1>5. /\ New' = New /\ Offering' = Offering /\ Queued' = Queued /\ Taken' = Taken
      /\ \A f \in Flushers : Batched(f)' = Batched(f)
      /\ Distinct(queue[Audit])' = Distinct(queue[Audit])
  BY <1>1, <1>4 DEF New, Offering, Queued, Taken, Batched, Distinct
<1>6. flushing' \in [Flushers -> {"out", "swap", "insert", "over"}]
      /\ \A f \in Flushers : flushing'[f] = flushing[f] \/ (f = Audit /\ flushing'[f] = "swap")
  BY <1>2, <1>4 DEF IInv, Shapes, Flushers
<1>7. Shapes'
  <2>1. worker'[Audit] = "handling" => hand'[Audit] \in Events
    BY <1>2, <1>4
  <2> QED
    BY <1>1, <1>3, <1>4, <1>6, <2>1 DEF IInv, Shapes
<1> HIDE DEF h
<1>8. Serving'
  <2>1. ~done
    BY <1>2 DEF IInv, Serving
  <2> QED
    BY <1>1, <1>4, <2>1 DEF IInv, Serving
<1>9. Flushing'
  <2>1. "loop" \in Flushers /\ Main \in Flushers /\ "loop" # Audit /\ Main # Audit
    BY DEF Flushers, Audit, Main
  <2>2. flushing'["loop"] = flushing["loop"] /\ flushing'[Main] = flushing[Main]
    BY <1>6, <2>1
  <2>3. \A f \in Flushers : flushing'[f] # "insert" => batch[f] = <<>>
    BY <1>2, <1>6 DEF IInv, Flushing
  <2>4. flushing[Main] = "out"
    BY <1>1 DEF IInv, Flushing
  <2>5. flushing'[Audit] # "out" => worker'[Audit] = "handling"
    BY <1>2, <1>4
  <2>6. worker'[Audit] \in {"waiting", "handling"}
    BY <1>4
  <2> QED
    BY <1>1, <1>2, <1>4, <2>2, <2>3, <2>4, <2>5, <2>6 DEF IInv, Flushing
<1>10. Pending' \subseteq Pending
  <2>1. \A x : x \in Pending' => \/ x \in Offering' \cup Queued' \cup Held' \cup Buffered'
                                 \/ \E f \in Flushers : x \in Batched(f)'
    BY DEF Pending, Offering, Queued, Held, Buffered, Batched
  <2> QED
    BY <2>1, <1>2, <1>3, <1>4, <1>5, Places
<1>11. Moving
  BY <1>1, <1>5, <1>10 DEF Moving
<1>12. Apart'
  <2>1. /\ (New \cup Offering)' \cap (Queued \cup Held \cup Buffered)' = {}
        /\ Queued' \cap (Held \cup Buffered)' = {}
        /\ Held' \cap Buffered' = {}
    BY <1>2, <1>3, <1>4, <1>5 DEF IInv, Apart
  <2>2. \A f \in Flushers : Batched(f)' \cap (New \cup Offering \cup Queued \cup Held \cup Buffered)' = {}
    BY <1>2, <1>3, <1>4, <1>5 DEF IInv, Apart
  <2> QED
    BY <1>1, <1>5, <1>10, <2>1, <2>2 DEF IInv, Apart
<1>13. Accounted'
  BY <1>1, <1>2, <1>3, <1>4, <1>5 DEF IInv, Accounted
<1> QED
  BY <1>7, <1>8, <1>9, <1>11, <1>12, <1>13 DEF IInv, TrailStep

-----------------------------------------------------------------------------
(* Flushes. *)

LEMMA SwapKeeps ==
  ASSUME IInv, NEW f \in Flushers, Swap(f)
  PROVE  IInv' /\ TrailStep
<1> USE DEF Swap, db, busVars, busState, pubState, subState, busGhost
<1>1. /\ flushing[f] = "swap" /\ buf' = <<>>
      /\ batch' = [batch EXCEPT ![f] = buf]
      /\ flushing' = [flushing EXCEPT ![f] = IF buf = <<>> THEN "over" ELSE "insert"]
      /\ UNCHANGED <<subs, closed, done, publisher, at, queue, shut, worker, hand, closer, accepted,
                     serving, main, off, stop, looping, rows, failed>>
  OBVIOUS
<1>2. /\ batch'[f] = buf /\ flushing'[f] = (IF buf = <<>> THEN "over" ELSE "insert")
      /\ \A g \in Flushers \ {f} : batch'[g] = batch[g] /\ flushing'[g] = flushing[g]
  BY <1>1 DEF IInv, Shapes
<1>3. Held' = Held
  BY <1>1, <1>2 DEF Held, Handling, Flushers
<1>4. /\ Buffered' = {} /\ Batched(f)' = Buffered /\ Batched(f) = {}
      /\ \A g \in Flushers \ {f} : Batched(g)' = Batched(g)
  BY <1>1, <1>2, NoElements DEF Buffered, Batched, IInv, Flushing
<1>5. /\ New' = New /\ Offering' = Offering /\ Queued' = Queued /\ Taken' = Taken
      /\ Distinct(queue[Audit])' = Distinct(queue[Audit])
  BY <1>1 DEF New, Offering, Queued, Taken, Distinct
<1>6. Shapes'
  <2>1. <<>> \in Seq(Events) /\ buf \in Seq(Events)
    BY EmptySeq DEF IInv, Shapes
  <2> QED
    BY <1>1, <2>1 DEF IInv, Shapes
<1>7. Serving'
  BY <1>1 DEF IInv, Serving
<1>8. Flushing'
  <2>1. "loop" \in Flushers /\ Main \in Flushers /\ Audit \in Flushers
    BY DEF Flushers, Audit, Main
  <2>2. \A g \in Flushers : flushing'[g] # "insert" => batch'[g] = <<>>
    BY <1>1, <1>2 DEF IInv, Flushing
  <2>3. \A g \in Flushers : /\ flushing'[g] = "out" <=> flushing[g] = "out"
                            /\ flushing[g] \in {"out", "over"} => flushing'[g] = flushing[g]
    BY <1>1, <1>2
  <2> QED
    BY <1>1, <2>1, <2>2, <2>3 DEF IInv, Flushing
<1>9. Pending' \subseteq Pending
  <2>1. \A x : x \in Pending' => \/ x \in Offering' \cup Queued' \cup Held' \cup Buffered'
                                 \/ \E g \in Flushers : x \in Batched(g)'
    BY DEF Pending, Offering, Queued, Held, Buffered, Batched
  <2> QED
    BY <2>1, <1>3, <1>4, <1>5, Places
<1>10. Moving
  BY <1>1, <1>5, <1>9 DEF Moving
<1>11. Apart'
  <2>1. /\ (New \cup Offering)' \cap (Queued \cup Held \cup Buffered)' = {}
        /\ Queued' \cap (Held \cup Buffered)' = {}
        /\ Held' \cap Buffered' = {}
    BY <1>3, <1>4, <1>5 DEF IInv, Apart
  <2>2. \A g \in Flushers : Batched(g)' \cap (New \cup Offering \cup Queued \cup Held \cup Buffered)' = {}
    BY <1>3, <1>4, <1>5 DEF IInv, Apart
  <2>3. \A g, k \in Flushers : g # k => Batched(g)' \cap Batched(k)' = {}
    BY <1>4 DEF IInv, Apart
  <2> QED
    BY <1>1, <1>5, <1>9, <2>1, <2>2, <2>3 DEF IInv, Apart
<1>12. Accounted'
  BY <1>1, <1>3, <1>4, <1>5 DEF IInv, Accounted
<1> QED
  BY <1>6, <1>7, <1>8, <1>10, <1>11, <1>12 DEF IInv, TrailStep

LEMMA InsertKeeps ==
  ASSUME IInv, NEW f \in Flushers, InsertBatch(f) \/ InsertFails(f)
  PROVE  IInv' /\ TrailStep
<1> USE DEF InsertBatch, InsertFails, EndFlush, busVars, busState, pubState, subState, busGhost
<1>1. /\ flushing[f] = "insert"
      /\ batch' = [batch EXCEPT ![f] = <<>>]
      /\ flushing' = [flushing EXCEPT ![f] = "over"]
      /\ \/ rows' = Inserted(f) /\ failed' = failed
         \/ rows' \in {rows, Inserted(f)} /\ failed' = failed \cup Batched(f)
      /\ UNCHANGED <<subs, closed, done, publisher, at, queue, shut, worker, hand, closer, accepted,
                     serving, main, buf, off, stop, looping>>
  BY DEF Batched
<1>2. /\ batch'[f] = <<>> /\ flushing'[f] = "over"
      /\ \A g \in Flushers \ {f} : batch'[g] = batch[g] /\ flushing'[g] = flushing[g]
  BY <1>1 DEF IInv, Shapes
<1>3. Held' = Held
  BY <1>1, <1>2 DEF Held, Handling, Flushers
<1>4. /\ Batched(f)' = {} /\ Batched(f) \subseteq Events
      /\ \A g \in Flushers \ {f} : Batched(g)' = Batched(g)
  <2>1. batch[f] \in Seq(Events)
    BY DEF IInv, Shapes
  <2>2. Batched(f) \subseteq Events
    BY <2>1, ElementOfSeq, LenProperties DEF Batched, Elements
  <2> QED
    BY <1>2, <2>2, NoElements DEF Batched
<1>5. /\ New' = New /\ Offering' = Offering /\ Queued' = Queued /\ Taken' = Taken /\ Buffered' = Buffered
      /\ Distinct(queue[Audit])' = Distinct(queue[Audit])
  BY <1>1 DEF New, Offering, Queued, Taken, Buffered, Distinct
<1>6. Inserted(f) \in [Events -> Nat]
      /\ \A e \in Events : Inserted(f)[e] = IF e \in Batched(f) THEN rows[e] + 1 ELSE rows[e]
  BY DEF Inserted, Batched, IInv, Shapes
<1>7. Shapes'
  <2>1. <<>> \in Seq(Events)
    BY EmptySeq
  <2> QED
    BY <1>1, <1>4, <1>6, <2>1 DEF IInv, Shapes
<1>8. Serving'
  BY <1>1 DEF IInv, Serving
<1>9. Flushing'
  <2>1. "loop" \in Flushers /\ Main \in Flushers /\ Audit \in Flushers
    BY DEF Flushers, Audit, Main
  <2>2. \A g \in Flushers : flushing'[g] # "insert" => batch'[g] = <<>>
    BY <1>1, <1>2 DEF IInv, Flushing
  <2>3. \A g \in Flushers : /\ flushing'[g] = "out" <=> flushing[g] = "out"
                            /\ flushing[g] \in {"out", "over"} => flushing'[g] = flushing[g]
                            /\ flushing'[g] \in {"insert", "over"} => flushing[g] \in {"insert", "over"}
    BY <1>1, <1>2
  <2> QED
    BY <1>1, <2>1, <2>2, <2>3 DEF IInv, Flushing
<1>10. Pending' = Pending \ Batched(f) /\ Batched(f) \subseteq Pending
  <2>1. \A x : x \in Pending' <=> \/ x \in Offering' \cup Queued' \cup Held' \cup Buffered'
                                  \/ \E g \in Flushers : x \in Batched(g)'
    BY DEF Pending, Offering, Queued, Held, Buffered, Batched
  <2>2. /\ Batched(f) \cap (Offering \cup Queued \cup Held \cup Buffered) = {}
        /\ \A g \in Flushers \ {f} : Batched(f) \cap Batched(g) = {}
    BY DEF IInv, Apart
  <2>3. \A x : x \in Pending' => x \in Pending /\ x \notin Batched(f)
    BY <2>1, <2>2, <1>3, <1>4, <1>5, Places
  <2>4. \A x : x \in Pending /\ x \notin Batched(f) => x \in Pending'
    BY <2>1, <1>3, <1>4, <1>5, Places
  <2>5. \A x : x \in Batched(f) => x \in Pending
    BY Places
  <2> QED
    BY <2>3, <2>4, <2>5
<1>11. TrailStep
  BY <1>1, <1>5, <1>10 DEF TrailStep, Storing, Moving
<1>12. Apart'
  <2>1. /\ (New \cup Offering)' \cap (Queued \cup Held \cup Buffered)' = {}
        /\ Queued' \cap (Held \cup Buffered)' = {}
        /\ Held' \cap Buffered' = {}
    BY <1>3, <1>5 DEF IInv, Apart
  <2>2. \A g \in Flushers : Batched(g)' \cap (New \cup Offering \cup Queued \cup Held \cup Buffered)' = {}
    BY <1>3, <1>4, <1>5 DEF IInv, Apart
  <2>3. \A g, k \in Flushers : g # k => Batched(g)' \cap Batched(k)' = {}
    BY <1>4 DEF IInv, Apart
  <2>4. \A e \in Batched(f) : rows[e] = 0 /\ e \notin New
    BY <1>10 DEF IInv, Apart
  <2>5. \A e \in Events : rows'[e] \in {0, 1} /\ (e \notin Batched(f) => rows'[e] = rows[e])
    BY <1>1, <1>6, <2>4 DEF IInv, Apart
  <2>6. \A e \in New \cup Pending' : rows'[e] = 0
    <3>1. New \subseteq Events /\ Pending \subseteq Events
      <4>1. Queued \subseteq Events /\ Buffered \subseteq Events /\ \A g \in Flushers : Batched(g) \subseteq Events
        BY ElementOfSeq, LenProperties DEF IInv, Shapes, Queued, Buffered, Batched, Elements
      <4>2. Offering \subseteq Events /\ Held \subseteq Events /\ New \subseteq Events
        BY DEF Offering, Held, Handling, New, IInv, Shapes
      <4> QED
        BY <4>1, <4>2, Places
    <3> QED
      BY <1>10, <2>4, <2>5, <3>1 DEF IInv, Apart
  <2> QED
    BY <1>5, <2>1, <2>2, <2>3, <2>5, <2>6 DEF IInv, Apart
<1>13. Accounted'
  <2>1. \A e \in Batched(f) : rows[e] = 0
    BY <1>10 DEF IInv, Apart
  <2>2. Taken \subseteq Events
    BY ElementOfSeq, LenProperties DEF IInv, Shapes, Taken, Elements
  <2>3. \A e \in Events : rows[e] = 1 => rows'[e] = 1
    BY <1>1, <1>6, <2>1
  <2>4. \A e \in Batched(f) : rows'[e] = 1 \/ e \in failed'
    BY <1>1, <1>4, <1>6, <2>1
  <2> QED
    BY <1>1, <1>3, <1>4, <1>5, <2>2, <2>3, <2>4 DEF IInv, Accounted
<1> QED
  BY <1>7, <1>8, <1>9, <1>11, <1>12, <1>13 DEF IInv

-----------------------------------------------------------------------------
(* Every step. *)

LEMMA InitInv == ASSUME Wired, PipelineInit PROVE IInv
<1> USE DEF PipelineInit, Init, Wired
<1>1. Queued = {} /\ Held = {} /\ Buffered = {} /\ Taken = {} /\ \A f \in Flushers : Batched(f) = {}
  BY NoElements DEF Queued, Held, Handling, Buffered, Taken, Batched, Audit
<1>2. Shapes
  <2>1. /\ publisher \in [Events -> {"new", "sending", "returned"}]
        /\ at \in [Events -> Nat] /\ rows \in [Events -> Nat]
    OBVIOUS
  <2>2. queue \in [{Audit} -> Seq(Events)] /\ accepted \in [{Audit} -> Seq(Events)]
    OBVIOUS
  <2>3. /\ worker \in [{Audit} -> {"none", "waiting", "handling", "exited"}]
        /\ worker[Audit] = "none" /\ DOMAIN hand = {Audit}
    OBVIOUS
  <2>4. closer \in [{Main} -> {"new", "waiting", "drained", "expired"}]
    OBVIOUS
  <2>5. /\ flushing \in [Flushers -> {"out", "swap", "insert", "over"}]
        /\ batch \in [Flushers -> Seq(Events)] /\ buf \in Seq(Events)
    OBVIOUS
  <2>6. /\ serving \subseteq Events /\ failed \subseteq Events /\ main \in Steps
        /\ off \in BOOLEAN /\ stop \in BOOLEAN /\ looping \in BOOLEAN
    BY DEF Steps
  <2> QED
    BY <2>1, <2>2, <2>3, <2>4, <2>5, <2>6 DEF Shapes
<1>3. Serving
  BY DEF Serving, Audit, Main
<1>4. Flushing
  BY DEF Flushing, Flushers, Audit, Main
<1>5. Apart
  <2>1. Distinct(queue[Audit])
    BY NoElements DEF Audit
  <2>2. \A e \in New \cup Pending : rows[e] = 0
    BY <1>1, Places DEF New, Offering
  <2> QED
    BY <1>1, <2>1, <2>2 DEF Apart
<1>6. Accounted
  BY <1>1 DEF Accounted
<1> QED
  BY <1>2, <1>3, <1>4, <1>5, <1>6 DEF IInv

LEMMA WorkerKeeps ==
  ASSUME IInv, Worker
  PROVE  IInv' /\ TrailStep
<1>1. CASE Receive(Audit) /\ UNCHANGED <<serving, main, subVars, db>>
  BY <1>1, ReceiveKeeps
<1>2. CASE Exit(Audit) /\ UNCHANGED <<serving, main, subVars, db>>
  BY <1>2, ExitKeeps
<1>3. CASE HandleDrops \/ HandlePanics
  BY <1>3, DropKeeps
<1>4. CASE HandleBuffers
  BY <1>4, BuffersKeeps
<1>5. CASE HandleReturns
  BY <1>5, HandleReturnsKeeps
<1> QED
  BY <1>1, <1>2, <1>3, <1>4, <1>5 DEF Worker

LEMMA RequestPublishesKeeps ==
  ASSUME IInv, NEW e \in Events, RequestPublishes(e)
  PROVE  IInv' /\ TrailStep
<1>1. e \in serving /\ UNCHANGED <<serving, main, subVars, db>>
  BY DEF RequestPublishes
<1>2. CASE Publish(e)
  BY <1>1, <1>2, PublishKeeps
<1>3. CASE Offer(e)
  BY <1>1, <1>3, OfferKeeps
<1>4. CASE PublishReturns(e)
  BY <1>1, <1>4, PublishReturnsKeeps
<1> QED
  BY <1>2, <1>3, <1>4 DEF RequestPublishes

LEMMA StepKeeps ==
  ASSUME IInv, [PipelineNext]_vars
  PROVE  IInv' /\ TrailStep
<1>1. CASE Boot
  BY <1>1, BootKeeps
<1>2. CASE ServerStops \/ Closing \/ Waiter \/ Tick \/ LoopStops \/ UNCHANGED vars
  BY <1>2, MainKeeps DEF Closing
<1>3. CASE Worker
  BY <1>3, WorkerKeeps
<1>4. CASE \E e \in Events : Request(e)
  BY <1>4, MainKeeps
<1>5. CASE \E e \in Events : RequestPublishes(e)
  BY <1>5, RequestPublishesKeeps
<1>6. CASE \E f \in Flushers : Flush(f)
  BY <1>6, SwapKeeps, InsertKeeps DEF Flush
<1> QED
  BY <1>1, <1>2, <1>3, <1>4, <1>5, <1>6 DEF PipelineNext

-----------------------------------------------------------------------------
(* The theorems. *)

LEMMA InvHolds == ASSUME Wired PROVE PipelineSpec => []IInv
<1>1. PipelineInit => IInv
  BY InitInv
<1>2. IInv /\ [PipelineNext]_vars => IInv'
  BY StepKeeps
<1> QED
  BY <1>1, <1>2, PTL DEF PipelineSpec

\* What a step of the pipeline is to AuditTrail.
LEMMA StepImplements ==
  ASSUME TrailStep
  PROVE  [AtMostOnce!TrailNext]_<<New, Pending, rows>>
<1> USE DEF AtMostOnce!TrailNext, AtMostOnce!Accept, AtMostOnce!Refuse, AtMostOnce!Store, AtMostOnce!Lose
<1>1. CASE Publishing
  <2>1. PICK e \in New : New' = New \ {e} /\ rows' = rows /\ Pending' \in {Pending, Pending \cup {e}}
    BY <1>1 DEF Publishing
  <2>2. e \in Events
    BY <2>1 DEF New
  <2>3. AtMostOnce!Accept(e) \/ AtMostOnce!Refuse(e)
    BY <2>1 DEF New
  <2> QED
    BY <2>2, <2>3 DEF AtMostOnce!TrailNext
<1>2. CASE Storing
  <2>1. PICK f \in Flushers : /\ Batched(f) \subseteq Pending /\ Pending' = Pending \ Batched(f)
                              /\ New' = New /\ rows' = Inserted(f)
    BY <1>2 DEF Storing
  <2>2. AtMostOnce!Store(Batched(f))
    BY <2>1 DEF New, Inserted, Batched
  <2> QED
    BY <2>1, <2>2
<1>3. CASE Moving
  <2> DEFINE L == Pending \ Pending'
  <2>1. L \subseteq Pending /\ Pending' = Pending \ L /\ New' = New /\ rows' = rows
    BY <1>3 DEF Moving
  <2>2. AtMostOnce!Lose(L)
    BY <2>1 DEF New
  <2> QED
    BY <2>1, <2>2
<1> QED
  BY <1>1, <1>2, <1>3 DEF TrailStep

\* ImplementsTrail for any number of events, any queue and any batch size: whatever flushes
\* overlap and however the shutdown goes, an event has at most one row in audit_logs.
THEOREM TrailImplemented == ASSUME Wired PROVE PipelineSpec => ImplementsTrail
<1>1. PipelineInit => AtMostOnce!TrailInit
  BY DEF PipelineInit, Wired, AtMostOnce!TrailInit, Init, Pending, Flushers, Elements, Handling
<1>2. IInv /\ [PipelineNext]_vars =>
        [AtMostOnce!TrailNext]_<<{e \in Events : publisher[e] = "new"}, Pending, rows>>
  BY StepKeeps, StepImplements DEF New
<1> QED
  BY <1>1, <1>2, InvHolds, PTL DEF PipelineSpec, ImplementsTrail, AtMostOnce!Trail

\* DrainedIsStored likewise: when Bus.Close drained in time, no event the queue took is on its
\* way any more once the pool is closed, so each has its row or was lost to a failure.
THEOREM DrainedEventsStored == ASSUME Wired PROVE PipelineSpec => []DrainedIsStored
<1>1. IInv => DrainedIsStored
  <2> SUFFICES ASSUME IInv, main = "closed", closer[Main] = "drained", NEW e \in Taken \ Unknown
               PROVE  rows[e] = 1 \/ e \in failed
    BY DEF DrainedIsStored, Taken
  <2>1. worker[Audit] = "exited"
    BY DEF IInv, Serving
  <2>2. queue[Audit] = <<>> /\ Held = {}
    BY <2>1 DEF IInv, Flushing, Held, Handling
  <2>3. buf = <<>> /\ \A f \in Flushers : flushing[f] # "insert"
    BY <2>1 DEF IInv, Flushing, Flushers
  <2>4. \A f \in Flushers : batch[f] = <<>>
    BY <2>3 DEF IInv, Flushing
  <2>5. Queued = {} /\ Buffered = {} /\ \A f \in Flushers : Batched(f) = {}
    BY <2>2, <2>3, <2>4, NoElements DEF Queued, Buffered, Batched
  <2> QED
    BY <2>2, <2>5 DEF IInv, Accounted
<1> QED
  BY <1>1, InvHolds, PTL

\* Whatever the requests, the flushes and the shutdown do, the bus inside the pipeline only takes
\* steps of EventBus, so all that is proved of the bus holds there.
THEOREM PipelineServesBus == ASSUME Wired PROVE PipelineSpec => Spec
<1>1. PipelineInit => Init
  BY DEF PipelineInit
<1>2. [PipelineNext]_vars => [Next]_busVars
  <2> SUFFICES ASSUME [PipelineNext]_vars PROVE [Next]_busVars
    OBVIOUS
  <2> USE DEF Wired
  <2>1. CASE Boot
    BY <2>1 DEF Boot, Next
  <2>2. CASE ServerStops \/ StopLoop \/ JoinLoop \/ CloseBuffer \/ AuditClosed \/ ClosePool \/ Tick \/ LoopStops
    BY <2>2 DEF ServerStops, StopLoop, JoinLoop, CloseBuffer, AuditClosed, ClosePool, Tick, LoopStops
  <2>3. CASE CloseBus \/ BusClosed \/ Waiter
    BY <2>3 DEF CloseBus, BusClosed, Waiter, Next
  <2>4. CASE Worker
    <3>1. CASE Receive(Audit) \/ Exit(Audit) \/ Return(Audit)
      BY <3>1 DEF Next
    <3>2. CASE UNCHANGED busVars
      BY <3>2
    <3> QED
      BY <2>4, <3>1, <3>2 DEF Worker, HandleDrops, HandlePanics, HandleBuffers, HandleReturns
  <2>5. ASSUME NEW e \in Events, Request(e) \/ RequestPublishes(e) PROVE [Next]_busVars
    BY <2>5 DEF Request, RequestPublishes, Next
  <2>6. ASSUME NEW f \in Flushers, Flush(f) PROVE [Next]_busVars
    BY <2>6 DEF Flush, Swap, InsertBatch, InsertFails
  <2>7. CASE UNCHANGED vars
    BY <2>7 DEF vars
  <2> QED
    BY <2>1, <2>2, <2>3, <2>4, <2>5, <2>6, <2>7 DEF PipelineNext, Closing
<1> QED
  BY <1>1, <1>2, PTL DEF PipelineSpec, Spec

\* The values of the pipeline, the bus's queue bound included, have their types.
THEOREM PipelineTypeCorrect == ASSUME Wired PROVE PipelineSpec => []PipelineTypeOK
<1>1. TypeOK /\ IInv => PipelineTypeOK
  BY DEF PipelineTypeOK, IInv, Shapes
<1> QED
  BY <1>1, InvHolds, PipelineServesBus, BusTypeCorrect, PTL
=============================================================================
