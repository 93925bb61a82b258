----------------------------- MODULE AuditTrail -----------------------------
(***************************************************************************)
(* What the audit pipeline promises (events.Bus, audit.Subscriber):        *)
(* delivery is at most once end to end.  An event that was published is    *)
(* pending until one batch carries its row into audit_logs or it is lost;  *)
(* no event has two rows, and none has a row that was never published.     *)
(***************************************************************************)
EXTENDS Naturals

CONSTANT Events

VARIABLES
  unpublished,  \* events nobody has published
  pending,      \* events on their way to the table
  rows          \* audit_logs: how many rows an event has

TrailInit ==
  /\ unpublished = Events
  /\ pending = {}
  /\ rows = [e \in Events |-> 0]

Accept(e) ==
  /\ e \in unpublished
  /\ unpublished' = unpublished \ {e}
  /\ pending' = pending \cup {e}
  /\ UNCHANGED rows

Refuse(e) ==
  /\ e \in unpublished
  /\ unpublished' = unpublished \ {e}
  /\ UNCHANGED <<pending, rows>>

\* One INSERT stores a batch.
Store(S) ==
  /\ S \subseteq pending
  /\ pending' = pending \ S
  /\ rows' = [e \in Events |-> IF e \in S THEN rows[e] + 1 ELSE rows[e]]
  /\ UNCHANGED unpublished

Lose(S) ==
  /\ S \subseteq pending
  /\ pending' = pending \ S
  /\ UNCHANGED <<unpublished, rows>>

TrailNext ==
  \/ \E e \in Events : Accept(e) \/ Refuse(e)
  \/ \E S \in SUBSET pending : Store(S) \/ Lose(S)

Trail == TrailInit /\ [][TrailNext]_<<unpublished, pending, rows>>
=============================================================================
