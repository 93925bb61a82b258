------------------------------ MODULE EventBus ------------------------------
(***************************************************************************)
(* The in-process event bus (shared/events/async_bus.go): Publish offers   *)
(* an event to the bounded queue of every subscriber without blocking, a   *)
(* worker goroutine per subscriber hands the queue to its handler, and     *)
(* Close drains every queue.  Publish holds b.mu shared for its whole      *)
(* call, Subscribe and Close hold it exclusively; publishers, workers and  *)
(* closers interleave at every channel operation.                          *)
(***************************************************************************)
EXTENDS Naturals, Sequences

CONSTANTS
  Events,       \* events, each published once by a goroutine of its own
  Subscribers,  \* subscriptions that may be made
  Closers,      \* callers of Close
  Capacity,     \* buf: the length of a subscriber's queue
  Stuck         \* the subscribers whose handler may never return

ASSUME BusConstants == Capacity \in Nat \ {0} /\ Stuck \subseteq Subscribers

Nothing == "nothing"
ASSUME NothingIsNoEvent == Nothing \notin Events

VARIABLES
  subs,       \* b.subs
  closed,     \* b.closed
  done,       \* b.done is closed: every worker has exited
  publisher,  \* where the Publish of an event is
  at,         \* the position in subs that Publish offers the event to
  queue,      \* the buffered channels
  shut,       \* the subscribers whose channel is closed
  worker,     \* where a subscriber's worker is
  hand,       \* the event its handler has
  closer,     \* where a call of Close is
  accepted,   \* history: events a queue took, in order
  handled     \* history: events a handler is through with, in order

busState == <<subs, closed, done>>
pubState == <<publisher, at>>
subState == <<queue, shut, worker, hand>>
busGhost == <<accepted, handled>>
busVars  == <<busState, pubState, subState, closer, busGhost>>

Registered == {subs[i] : i \in DOMAIN subs}

TypeOK ==
  /\ subs \in Seq(Subscribers)
  /\ closed \in BOOLEAN /\ done \in BOOLEAN
  /\ publisher \in [Events -> {"new", "sending", "returned"}]
  /\ at \in [Events -> Nat]
  /\ queue \in [Subscribers -> Seq(Events)]
  /\ \A s \in Subscribers : Len(queue[s]) <= Capacity
  /\ shut \subseteq Subscribers
  /\ worker \in [Subscribers -> {"none", "waiting", "handling", "exited"}]
  /\ hand \in [Subscribers -> Events \cup {Nothing}]
  /\ closer \in [Closers -> {"new", "waiting", "drained", "expired"}]
  /\ accepted \in [Subscribers -> Seq(Events)]
  /\ handled \in [Subscribers -> Seq(Events)]

Init ==
  /\ subs = <<>> /\ closed = FALSE /\ done = FALSE
  /\ publisher = [e \in Events |-> "new"] /\ at = [e \in Events |-> 1]
  /\ queue = [s \in Subscribers |-> <<>>] /\ shut = {}
  /\ worker = [s \in Subscribers |-> "none"]
  /\ hand = [s \in Subscribers |-> Nothing]
  /\ closer = [c \in Closers |-> "new"]
  /\ accepted = [s \in Subscribers |-> <<>>]
  /\ handled = [s \in Subscribers |-> <<>>]

\* Some Publish holds b.mu shared.
Reading == \E e \in Events : publisher[e] = "sending"

-----------------------------------------------------------------------------
\* Subscribers and their workers.

\* Mutant of Subscribe: closed is not looked at.
SubscribeAnyway(s) ==
  /\ worker[s] = "none" /\ ~Reading
  /\ subs' = Append(subs, s)
  /\ worker' = [worker EXCEPT ![s] = "waiting"]
  /\ UNCHANGED <<closed, done, pubState, queue, shut, hand, closer, busGhost>>

\* Register s and start its worker; on a closed bus the call is ignored.
Subscribe(s) ==
  /\ worker[s] = "none" /\ ~Reading /\ ~closed
  /\ subs' = Append(subs, s)
  /\ worker' = [worker EXCEPT ![s] = "waiting"]
  /\ UNCHANGED <<closed, done, pubState, queue, shut, hand, closer, busGhost>>

\* The worker receives the next event and calls the handler.
Receive(s) ==
  /\ worker[s] = "waiting" /\ queue[s] # <<>>
  /\ hand' = [hand EXCEPT ![s] = Head(queue[s])]
  /\ queue' = [queue EXCEPT ![s] = Tail(queue[s])]
  /\ worker' = [worker EXCEPT ![s] = "handling"]
  /\ UNCHANGED <<busState, pubState, shut, closer, busGhost>>

\* The handler returns, or panics and is recovered: the event is gone.
Return(s) ==
  /\ worker[s] = "handling"
  /\ handled' = [handled EXCEPT ![s] = Append(@, hand[s])]
  /\ hand' = [hand EXCEPT ![s] = Nothing]
  /\ worker' = [worker EXCEPT ![s] = "waiting"]
  /\ UNCHANGED <<busState, pubState, queue, shut, closer, accepted>>

\* Mutant of Exit: the worker leaves as soon as its channel is closed.
ExitUndrained(s) ==
  /\ worker[s] = "waiting" /\ s \in shut
  /\ worker' = [worker EXCEPT ![s] = "exited"]
  /\ UNCHANGED <<busState, pubState, queue, shut, hand, closer, busGhost>>

\* The range over a closed channel ends once it is empty.
Exit(s) ==
  /\ worker[s] = "waiting" /\ s \in shut /\ queue[s] = <<>>
  /\ worker' = [worker EXCEPT ![s] = "exited"]
  /\ UNCHANGED <<busState, pubState, queue, shut, hand, closer, busGhost>>

-----------------------------------------------------------------------------
\* Publish.

\* Take the read lock; a closed bus drops the event.
Publish(e) ==
  /\ publisher[e] = "new"
  /\ publisher' = [publisher EXCEPT ![e] = IF closed THEN "returned" ELSE "sending"]
  /\ UNCHANGED <<busState, at, subState, closer, busGhost>>

Room(s) == Len(queue[s]) < Capacity

\* Mutant of Offer: the send waits for room.
OfferBlocking(e) ==
  /\ publisher[e] = "sending" /\ at[e] \in DOMAIN subs /\ Room(subs[at[e]])
  /\ at' = [at EXCEPT ![e] = @ + 1]
  /\ LET s == subs[at[e]] IN
       /\ queue' = [queue EXCEPT ![s] = Append(@, e)]
       /\ accepted' = [accepted EXCEPT ![s] = Append(@, e)]
  /\ UNCHANGED <<busState, publisher, shut, worker, hand, closer, handled>>

\* The non-blocking send to the next subscriber: a full queue drops the event.
Offer(e) ==
  /\ publisher[e] = "sending" /\ at[e] \in DOMAIN subs
  /\ at' = [at EXCEPT ![e] = @ + 1]
  /\ LET s == subs[at[e]] IN
       IF Room(s)
         THEN /\ queue' = [queue EXCEPT ![s] = Append(@, e)]
              /\ accepted' = [accepted EXCEPT ![s] = Append(@, e)]
         ELSE UNCHANGED <<queue, accepted>>
  /\ UNCHANGED <<busState, publisher, shut, worker, hand, closer, handled>>

\* Every subscriber was offered the event: the read lock is released.
PublishReturns(e) ==
  /\ publisher[e] = "sending" /\ at[e] \notin DOMAIN subs
  /\ publisher' = [publisher EXCEPT ![e] = "returned"]
  /\ UNCHANGED <<busState, at, subState, closer, busGhost>>
-----------------------------------------------------------------------------
\* Close.

\* Mutant of Close: the lock is not taken, so a Publish may be under way.
CloseUnlocked(c) ==
  /\ closer[c] = "new"
  /\ closer' = [closer EXCEPT ![c] = "waiting"]
  /\ closed' = TRUE
  /\ shut' = IF closed THEN shut ELSE Registered
  /\ UNCHANGED <<subs, done, pubState, queue, worker, hand, busGhost>>

\* The first call closes every channel; every call then waits for the drain.
Close(c) ==
  /\ closer[c] = "new" /\ ~Reading
  /\ closer' = [closer EXCEPT ![c] = "waiting"]
  /\ closed' = TRUE
  /\ shut' = IF closed THEN shut ELSE Registered
  /\ UNCHANGED <<subs, done, pubState, queue, worker, hand, busGhost>>

\* The goroutine of the first Close: wg.Wait, then close(done).
Drained ==
  /\ closed /\ ~done
  /\ \A s \in Registered : worker[s] = "exited"
  /\ done' = TRUE
  /\ UNCHANGED <<subs, closed, pubState, subState, closer, busGhost>>

\* Mutant of CloseReturns: a repeated call reports done at once.
CloseReturnsEarly(c) ==
  /\ closer[c] = "waiting" /\ (done \/ \E o \in Closers \ {c} : closer[o] # "new")
  /\ closer' = [closer EXCEPT ![c] = "drained"]
  /\ UNCHANGED <<busState, pubState, subState, busGhost>>

CloseReturns(c) ==
  /\ closer[c] = "waiting" /\ done
  /\ closer' = [closer EXCEPT ![c] = "drained"]
  /\ UNCHANGED <<busState, pubState, subState, busGhost>>

\* The caller's context ends first (select picks either when both are ready).
CloseExpires(c) ==
  /\ closer[c] = "waiting"
  /\ closer' = [closer EXCEPT ![c] = "expired"]
  /\ UNCHANGED <<busState, pubState, subState, busGhost>>

Next ==
  \/ \E s \in Subscribers : Subscribe(s) \/ Receive(s) \/ Return(s) \/ Exit(s)
  \/ \E e \in Events : Publish(e) \/ Offer(e) \/ PublishReturns(e)
  \/ \E c \in Closers : Close(c) \/ CloseReturns(c) \/ CloseExpires(c)
  \/ Drained

Spec == Init /\ [][Next]_busVars

\* Goroutines that can run do; handlers outside Stuck return.
Fairness ==
  /\ \A e \in Events : WF_busVars(Offer(e)) /\ WF_busVars(PublishReturns(e))
  /\ \A s \in Subscribers : WF_busVars(Receive(s)) /\ WF_busVars(Exit(s))
  /\ \A s \in Subscribers \ Stuck : WF_busVars(Return(s))

FairSpec == Spec /\ Fairness

-----------------------------------------------------------------------------
\* Properties.

\* No Publish ever sends to a closed channel, which would panic: Close waits
\* for the publishers that hold the lock and later ones see closed.
NoSendOnClosed ==
  \A e \in Events :
    publisher[e] = "sending" /\ at[e] \in DOMAIN subs => subs[at[e]] \notin shut

\* When any call of Close, the first or a repeated one, reports the drain, every
\* event a queue ever took has been handled, once and in the order it came.
DrainMeansHandled ==
  (\E c \in Closers : closer[c] = "drained") =>
    \A s \in Subscribers : handled[s] = accepted[s]

\* The worker of every subscriber whose handler returns leaves after Close,
\* whatever the other handlers do, so it is never leaked.
WorkersLeave ==
  \A s \in Subscribers \ Stuck :
    closed /\ worker[s] # "none" ~> worker[s] = "exited"

\* Publish returns although a handler never does: it never blocks its caller.
PublishNeverBlocks ==
  \A e \in Events : publisher[e] = "sending" ~> publisher[e] = "returned"
=============================================================================
