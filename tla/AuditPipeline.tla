--------------------------- MODULE AuditPipeline ---------------------------
(***************************************************************************)
(* The audit pipeline and its shutdown: HTTP handlers publish on the bus,  *)
(* the bus's worker runs audit.Subscriber.Handle, which buffers rows and   *)
(* flushes full batches; flushLoop flushes by interval; RunServer's exit   *)
(* path closes the bus, then the subscriber, then the database pool        *)
(* (app/app.go, app/container.go, server/server.go, audit/subscriber.go).  *)
(* Three goroutines flush: the worker, the loop and main.  Every flush     *)
(* swaps the buffer under s.mu and inserts the batch outside of it.        *)
(***************************************************************************)
EXTENDS EventBus  \* an event is published by a request of its own; buf is cfg.Audit.BufferSize

CONSTANTS
  Unknown,    \* events toRow makes no row of
  BatchSize,  \* cfg.Audit.BatchSize, clamped by NewSubscriber
  Faults      \* may a handler panic and an INSERT fail?

ASSUME PipelineConstants ==
  Unknown \subseteq Events /\ BatchSize \in Nat \ {0} /\ Faults \in BOOLEAN

VARIABLES
  serving,   \* requests the server has taken
  main,      \* where RunServer is
  buf,       \* Subscriber.buf
  off,       \* Subscriber.closed
  stop,      \* Subscriber.stop is closed
  looping,   \* flushLoop runs; its return closes Subscriber.done
  flushing,  \* where a goroutine's call of flush is
  batch,     \* the rows it swapped out
  rows,      \* audit_logs: rows by event
  failed     \* history: events lost to a panic or a failed INSERT

Audit    == "audit"
Main     == "main"
Flushers == {Audit, "loop", Main}

\* NewContainer makes one subscription, and only RunServer's exit path closes the bus.
Wired == Subscribers = {Audit} /\ Closers = {Main} /\ Stuck = {}

subVars == <<buf, off, stop, looping, flushing, batch>>
db      == <<rows, failed>>
vars    == <<busVars, serving, main, subVars, db>>

Steps == {"boot", "serving", "closeBus", "draining", "closeAudit", "joining",
          "closeBuffer", "flushing", "closeDB", "closed"}

PipelineTypeOK ==
  /\ TypeOK
  /\ serving \subseteq Events
  /\ main \in Steps
  /\ buf \in Seq(Events)
  /\ off \in BOOLEAN /\ stop \in BOOLEAN /\ looping \in BOOLEAN
  /\ flushing \in [Flushers -> {"out", "swap", "insert", "over"}]
  /\ batch \in [Flushers -> Seq(Events)]
  /\ rows \in [Events -> Nat]
  /\ failed \subseteq Events

PipelineInit ==
  /\ Init
  /\ serving = {} /\ main = "boot"
  /\ buf = <<>> /\ off = FALSE /\ stop = FALSE /\ looping = TRUE
  /\ flushing = [f \in Flushers |-> "out"] /\ batch = [f \in Flushers |-> <<>>]
  /\ rows = [e \in Events |-> 0] /\ failed = {}

Elements(q) == {q[i] : i \in DOMAIN q}

-----------------------------------------------------------------------------
\* Subscriber.flush, for a goroutine f at "swap".

\* Mutant of Swap: the batch is copied and the buffer left.
SwapCopies(f) ==
  /\ flushing[f] = "swap"
  /\ batch' = [batch EXCEPT ![f] = buf]
  /\ flushing' = [flushing EXCEPT ![f] = IF buf = <<>> THEN "over" ELSE "insert"]
  /\ UNCHANGED <<busVars, serving, main, buf, off, stop, looping, db>>

\* Take the buffer under s.mu; an empty one ends the flush.
Swap(f) ==
  /\ flushing[f] = "swap"
  /\ batch' = [batch EXCEPT ![f] = buf]
  /\ buf' = <<>>
  /\ flushing' = [flushing EXCEPT ![f] = IF buf = <<>> THEN "over" ELSE "insert"]
  /\ UNCHANGED <<busVars, serving, main, off, stop, looping, db>>

EndFlush(f) ==
  /\ flushing' = [flushing EXCEPT ![f] = "over"]
  /\ batch' = [batch EXCEPT ![f] = <<>>]

Inserted(f) ==
  [e \in Events |-> IF e \in Elements(batch[f]) THEN rows[e] + 1 ELSE rows[e]]

\* InsertBatch stores every row of the batch; on a closed pool it may still do
\* so when the statement was under way.
InsertBatch(f) ==
  /\ flushing[f] = "insert"
  /\ rows' = Inserted(f)
  /\ EndFlush(f)
  /\ UNCHANGED <<busVars, serving, main, buf, off, stop, looping, failed>>

\* It reports an error, flushTimeout's or the closed pool's among them, and the
\* batch is dropped; the rows may be there all the same.
InsertFails(f) ==
  /\ flushing[f] = "insert" /\ (Faults \/ main = "closed")
  /\ rows' \in {rows, Inserted(f)}
  /\ failed' = failed \cup Elements(batch[f])
  /\ EndFlush(f)
  /\ UNCHANGED <<busVars, serving, main, buf, off, stop, looping>>

-----------------------------------------------------------------------------
\* Subscriber.Handle, on the worker of the bus.

Handling == worker[Audit] = "handling" /\ flushing[Audit] = "out"

\* An unknown event, or one after Subscriber.Close: dropped.
HandleDrops ==
  /\ Handling /\ (hand[Audit] \in Unknown \/ off)
  /\ Return(Audit)
  /\ UNCHANGED <<serving, main, subVars, db>>

\* toRow panics; the bus recovers.
HandlePanics ==
  /\ Handling /\ Faults
  /\ failed' = failed \cup {hand[Audit]}
  /\ Return(Audit)
  /\ UNCHANGED <<serving, main, subVars, rows>>

Full(q) == Len(q) >= BatchSize

\* The row is appended; a full buffer is flushed before the handler returns.
HandleBuffers ==
  /\ Handling /\ hand[Audit] \notin Unknown /\ ~off
  /\ buf' = Append(buf, hand[Audit])
  /\ IF Full(buf')
       THEN flushing' = [flushing EXCEPT ![Audit] = "swap"] /\ UNCHANGED busVars
       ELSE Return(Audit) /\ UNCHANGED flushing
  /\ UNCHANGED <<serving, main, off, stop, looping, batch, db>>

HandleReturns ==
  /\ flushing[Audit] = "over"
  /\ flushing' = [flushing EXCEPT ![Audit] = "out"]
  /\ Return(Audit)
  /\ UNCHANGED <<serving, main, buf, off, stop, looping, batch, db>>

-----------------------------------------------------------------------------
\* flushLoop.

Tick ==
  /\ looping /\ flushing["loop"] \in {"out", "over"}
  /\ flushing' = [flushing EXCEPT !["loop"] = "swap"]
  /\ UNCHANGED <<busVars, serving, main, buf, off, stop, looping, batch, db>>

LoopStops ==
  /\ looping /\ stop /\ flushing["loop"] \in {"out", "over"}
  /\ looping' = FALSE
  /\ UNCHANGED <<busVars, serving, main, buf, off, stop, flushing, batch, db>>

-----------------------------------------------------------------------------
\* Requests, and main: RunServer, then Container.Close.

Boot ==
  /\ main = "boot" /\ main' = "serving"
  /\ Subscribe(Audit)
  /\ UNCHANGED <<serving, subVars, db>>

Request(e) ==
  /\ main = "serving" /\ e \notin serving
  /\ serving' = serving \cup {e}
  /\ UNCHANGED <<busVars, main, subVars, db>>

\* A handler in flight publishes, at whatever step main is.
RequestPublishes(e) ==
  /\ e \in serving
  /\ Publish(e) \/ Offer(e) \/ PublishReturns(e)
  /\ UNCHANGED <<serving, main, subVars, db>>

\* server.Run returns.  Shutdown waits for the handlers in flight, but no longer
\* than shutdownTimeout, and a listener's error skips it: handlers may remain.
ServerStops ==
  /\ main = "serving" /\ main' = "closeBus"
  /\ UNCHANGED <<busVars, serving, subVars, db>>

CloseBus ==
  /\ main = "closeBus" /\ main' = "draining"
  /\ Close(Main)
  /\ UNCHANGED <<serving, subVars, db>>

\* Bus.Close returns; its error is only logged.
BusClosed ==
  /\ main = "draining" /\ main' = "closeAudit"
  /\ CloseReturns(Main) \/ CloseExpires(Main)
  /\ UNCHANGED <<serving, subVars, db>>

\* Mutant of StopLoop: stop is never closed.
StopForgotten ==
  /\ main = "closeAudit" /\ main' = "joining"
  /\ UNCHANGED <<busVars, serving, subVars, db>>

StopLoop ==
  /\ main = "closeAudit" /\ main' = "joining"
  /\ stop' = TRUE
  /\ UNCHANGED <<busVars, serving, buf, off, looping, flushing, batch, db>>

JoinLoop ==
  /\ main = "joining" /\ ~looping /\ main' = "closeBuffer"
  /\ UNCHANGED <<busVars, serving, subVars, db>>

\* Mutant of CloseBuffer: nothing is flushed.
BufferAbandoned ==
  /\ main = "closeBuffer" /\ main' = "flushing"
  /\ off' = TRUE
  /\ flushing' = [flushing EXCEPT ![Main] = "over"]
  /\ UNCHANGED <<busVars, serving, buf, stop, looping, batch, db>>

CloseBuffer ==
  /\ main = "closeBuffer" /\ main' = "flushing"
  /\ off' = TRUE
  /\ flushing' = [flushing EXCEPT ![Main] = "swap"]
  /\ UNCHANGED <<busVars, serving, buf, stop, looping, batch, db>>

AuditClosed ==
  /\ main = "flushing" /\ flushing[Main] = "over" /\ main' = "closeDB"
  /\ UNCHANGED <<busVars, serving, subVars, db>>

ClosePool ==
  /\ main = "closeDB" /\ main' = "closed"
  /\ UNCHANGED <<busVars, serving, subVars, db>>

Worker == \/ Receive(Audit) /\ UNCHANGED <<serving, main, subVars, db>>
          \/ Exit(Audit) /\ UNCHANGED <<serving, main, subVars, db>>
          \/ HandleDrops \/ HandlePanics \/ HandleBuffers \/ HandleReturns

Waiter == Drained /\ UNCHANGED <<serving, main, subVars, db>>

Flush(f) == Swap(f) \/ InsertBatch(f) \/ InsertFails(f)

Closing == CloseBus \/ BusClosed \/ StopLoop \/ JoinLoop \/ CloseBuffer
             \/ AuditClosed \/ ClosePool

PipelineNext ==
  \/ Boot \/ ServerStops \/ Closing \/ Worker \/ Waiter
  \/ Tick \/ LoopStops
  \/ \E e \in Events : Request(e) \/ RequestPublishes(e)
  \/ \E f \in Flushers : Flush(f)

PipelineSpec == PipelineInit /\ [][PipelineNext]_vars

\* Every goroutine that can run does, an INSERT ends by flushTimeout, and a
\* select on a tick and stop takes each of them in the end.
PipelineFairness ==
  /\ WF_vars(Closing) /\ WF_vars(Worker) /\ WF_vars(Waiter) /\ WF_vars(Tick)
  /\ SF_vars(LoopStops)
  /\ \A e \in Events : WF_vars(RequestPublishes(e))
  /\ \A f \in Flushers : WF_vars(Flush(f))

FairPipeline == PipelineSpec /\ PipelineFairness

-----------------------------------------------------------------------------
\* Properties.

\* Where an event is on its way to the table.
Pending ==
  {e \in Events : publisher[e] = "sending" /\ at[e] \in DOMAIN subs}
    \cup Elements(queue[Audit])
    \cup (IF Handling THEN {hand[Audit]} ELSE {})
    \cup Elements(buf) \cup UNION {Elements(batch[f]) : f \in Flushers}

\* The pipeline implements at-most-once delivery (subscriber.go: "at-most-once
\* end to end"): whatever flushes overlap, an event has at most one row.
AtMostOnce ==
  INSTANCE AuditTrail WITH unpublished <- {e \in Events : publisher[e] = "new"},
                           pending <- Pending
ImplementsTrail == AtMostOnce!Trail

\* Container.Close: once the bus has drained in time, every event it took has
\* its row by the time the pool is closed, unless a handler or INSERT failed.
DrainedIsStored ==
  main = "closed" /\ closer[Main] = "drained" =>
    \A e \in Elements(accepted[Audit]) \ Unknown : rows[e] = 1 \/ e \in failed

\* Container.Close returns, although a drain may take for ever.
ShutdownEnds == main = "closeBus" ~> main = "closed"
=============================================================================
