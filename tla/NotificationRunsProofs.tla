----------------------- MODULE NotificationRunsProofs -----------------------
(***************************************************************************)
(* Proofs about NotificationRuns, for any number of teachers, dimensions,  *)
(* contacts, attempts, runs and restarts, with crashes and failing writes. *)
(***************************************************************************)
EXTENDS NotificationRuns, TLAPS

Endings == {"completed", "interrupted", "expired"}

\* What the locals of an attempt hold at each step of it.
Sound(a) ==
  /\ a.pc # "idle" => a.who \in Teachers
  /\ a.pc \in Bulk \cup Resume \cup Sending => a.what \in Dims
  /\ a.pc \in Resume \cup Sending => a.run \in RunIds
  /\ a.pc = "sent" => a.cur \in Contacts
  /\ a.pc # "sent" => a.reply = None
  /\ a.pc \in {"sweep", "finish"} => a.ending \in Endings

TypeInv == TypeOK /\ \A q \in Attempts : Sound(att[q])

-----------------------------------------------------------------------------
\* Type correctness: first what an attempt becomes.

LEMMA Moved ==
  ASSUME TypeInv, NEW q \in Attempts, NEW a \in Attempt, Sound(a), Becomes(q, a)
  PROVE  /\ att' \in [Attempts -> Attempt]
         /\ \A p \in Attempts : Sound(att'[p])
BY DEF Becomes, TypeInv, TypeOK

LEMMA IdleSound == Idle \in Attempt /\ Sound(Idle)
<1>1. Idle \in Attempt
  BY DEF Idle, Attempt, PCs, NoRun, RunStatus
<1>2. Sound(Idle)
  BY DEF Idle, Sound, Bulk, Manual, Resume, Sending
<1> QED BY <1>1, <1>2

LEMMA LeaveSound ==
  ASSUME TypeInv, NEW q \in Attempts, pc(q) # "idle", NEW p \in {"release", "exit"}, Leave(q, p)
  PROVE  /\ att' \in [Attempts -> Attempt]
         /\ \A o \in Attempts : Sound(att'[o])
<1> DEFINE a == [Idle EXCEPT !.pc = p, !.who = att[q].who]
<1>1. att[q].who \in Teachers BY DEF TypeInv, Sound, pc
<1>2. p \in PCs BY DEF PCs, Holding
<1>3. a \in Attempt BY <1>1, <1>2, IdleSound, Zenon DEF Attempt
<1>4. Sound(a) BY <1>1 DEF Sound, Idle, Bulk, Manual, Resume, Sending
<1> QED BY <1>3, <1>4, Moved DEF Leave

LEMMA EndRequestSound ==
  ASSUME TypeInv, NEW q \in Attempts, pc(q) # "idle", EndRequest(q)
  PROVE  /\ att' \in [Attempts -> Attempt]
         /\ \A o \in Attempts : Sound(att'[o])
BY LeaveSound, IdleSound, Moved DEF EndRequest

LEMMA EndWithSound ==
  ASSUME TypeInv, NEW q \in Attempts, pc(q) \in Sending, NEW p \in {"sweep", "finish"},
         NEW s \in Endings, EndWith(q, s, p)
  PROVE  /\ att' \in [Attempts -> Attempt]
         /\ \A o \in Attempts : Sound(att'[o])
<1> DEFINE a == [att[q] EXCEPT !.pc = p, !.ending = s, !.cur = None, !.reply = None]
<1>1. att[q] \in Attempt /\ Sound(att[q]) BY DEF TypeInv, TypeOK
<1>2. p \in PCs /\ s \in RunStatus
  BY DEF PCs, Holding, Sending, Endings, RunStatus, Settled
<1>3. a \in Attempt BY <1>1, <1>2, Zenon DEF Attempt
<1>4. /\ a.pc = p /\ a.ending = s /\ a.reply = None
      /\ a.run = att[q].run /\ a.what = att[q].what /\ a.who = att[q].who
  BY <1>1 DEF Attempt
<1>5. Sound(a) BY <1>1, <1>4 DEF Sound, pc, Sending, Bulk, Manual, Resume
<1> QED BY <1>3, <1>5, Moved DEF EndWith

LEMMA CarrySound ==
  ASSUME TypeInv, NEW q \in Attempts, pc(q) \in Sending, NEW n \in Nat, Carry(q, n)
  PROVE  /\ att' \in [Attempts -> Attempt]
         /\ \A o \in Attempts : Sound(att'[o])
<1> DEFINE a == [att[q] EXCEPT !.pc = "head", !.streak = n, !.cur = None, !.reply = None]
<1>1. att[q] \in Attempt /\ Sound(att[q]) BY DEF TypeInv, TypeOK
<1>2. "head" \in PCs BY DEF PCs, Holding, Sending
<1>3. a \in Attempt BY <1>1, <1>2, Zenon DEF Attempt
<1>4. /\ a.pc = "head" /\ a.reply = None
      /\ a.run = att[q].run /\ a.what = att[q].what /\ a.who = att[q].who
  BY <1>1 DEF Attempt
<1>5. Sound(a) BY <1>1, <1>4 DEF Sound, pc, Sending, Bulk, Manual, Resume
<1> QED BY <1>3, <1>5, Moved DEF Carry

LEMMA GotoSound ==
  ASSUME TypeInv, NEW q \in Attempts, NEW p,
         \/ pc(q) = "admit" /\ p = "reserve"
         \/ pc(q) = "resumeAdmit" /\ p = "resumeReserve"
         \/ pc(q) = "reserve" /\ p = "txread"
         \/ pc(q) = "resumeReserve" /\ p = "resumeRead"
         \/ pc(q) = "start" /\ p = "head"
         \/ pc(q) = "sweep" /\ p = "finish",
         Goto(q, p)
  PROVE  /\ att' \in [Attempts -> Attempt]
         /\ \A o \in Attempts : Sound(att'[o])
<1> DEFINE a == [att[q] EXCEPT !.pc = p]
<1>1. att[q] \in Attempt /\ Sound(att[q]) BY DEF TypeInv, TypeOK
<1>2. p \in PCs BY DEF PCs, Bulk, Resume, Holding, Sending
<1>3. a \in Attempt BY <1>1, <1>2, Zenon DEF Attempt
<1>4. /\ a.pc = p /\ a.ending = att[q].ending /\ a.reply = att[q].reply /\ a.cur = att[q].cur
      /\ a.run = att[q].run /\ a.what = att[q].what /\ a.who = att[q].who
  BY <1>1 DEF Attempt
<1>5. Sound(a) BY <1>1, <1>4 DEF Sound, pc, Sending, Bulk, Manual, Resume
<1> QED BY <1>3, <1>5, Moved DEF Goto

\* What is left of TypeOK when the attempts are typed.
RestOK ==
  /\ runs \in [RunIds -> [status : RunStatus, teacher : Teachers \cup {None},
                          dim : Dims \cup {None}]]
  /\ rows \in [RunIds -> [Contacts -> RowStatus]]
  /\ slot \in [Teachers -> Attempts \cup {None}]
  /\ phase \in {"up", "cancelled", "closing", "closed", "down"}
  /\ restarts \in Nat
  /\ dms \in [RunIds -> [Contacts -> 0 .. 2]]
  /\ lost \subseteq RunIds \X Contacts

LEMMA Typed ==
  ASSUME RestOK', att' \in [Attempts -> Attempt], \A q \in Attempts : Sound(att'[q])
  PROVE  TypeInv'
BY DEF RestOK, TypeInv, TypeOK

LEMMA StatusTyped ==
  ASSUME NEW Run, Run = [status : RunStatus, teacher : Teachers \cup {None},
                         dim : Dims \cup {None}],
         runs \in [RunIds -> Run], NEW r \in RunIds, NEW s \in RunStatus,
         runs' = [runs EXCEPT ![r].status = s]
  PROVE  runs' \in [RunIds -> Run]
<1>1. [runs[r] EXCEPT !.status = s] \in Run OBVIOUS
<1> QED BY <1>1

LEMMA VerdictType ==
  ASSUME NEW f \in [Contacts -> RowStatus], NEW S, NEW v \in {"sent", "failed"}
  PROVE  Verdict(f, S, v) \in [Contacts -> RowStatus]
BY DEF Verdict, RowStatus

LEMMA FailQueuedType ==
  ASSUME NEW f \in [Contacts -> RowStatus]
  PROVE  FailQueued(f) \in [Contacts -> RowStatus]
BY VerdictType DEF FailQueued

LEMMA UnrecordedType ==
  ASSUME TypeInv, NEW Q \in SUBSET Attempts
  PROVE  Unrecorded(Q) \subseteq RunIds \X Contacts
<1> SUFFICES ASSUME NEW q \in Q, att[q].reply \in Delivered
             PROVE  att[q].run \in RunIds /\ att[q].cur \in Contacts
  BY DEF Unrecorded
<1>1. att[q].reply # None BY DEF Delivered, None
<1>2. att[q].pc = "sent" BY <1>1 DEF TypeInv, Sound
<1> QED BY <1>2 DEF TypeInv, Sound, Sending

LEMMA TypeRequests ==
  ASSUME TypeInv, NEW q \in Attempts, NEW t \in Teachers, NEW d \in Dims,
         BulkSend(q, t, d) \/ ManualSend(q, t, d) \/ ResumeRun(q, t, d)
  PROVE  TypeInv'
<1>1. att[q] \in Attempt /\ Sound(att[q]) BY DEF TypeInv, TypeOK
<1>2. RestOK' BY DEF TypeInv, TypeOK, RestOK, BulkSend, ManualSend, ResumeRun, db, proc, ghost
<1>3. ASSUME NEW p \in {"admit", "manualRead"},
             Becomes(q, [att[q] EXCEPT !.pc = p, !.who = t, !.what = d]),
             pc(q) = "idle"
      PROVE  TypeInv'
  <2> DEFINE a == [att[q] EXCEPT !.pc = p, !.who = t, !.what = d]
  <2>1. p \in PCs BY DEF PCs, Bulk, Manual
  <2>2. a \in Attempt BY <1>1, <2>1, Zenon DEF Attempt
  <2>3. a.pc = p /\ a.who = t /\ a.what = d /\ a.reply = att[q].reply
    BY <1>1 DEF Attempt
  <2>4. Sound(a) BY <1>1, <1>3, <2>3 DEF Sound, pc, Sending, Bulk, Manual, Resume
  <2> QED BY <1>2, <1>3, <2>2, <2>4, Moved, Typed
<1>4. ASSUME NEW r \in RunIds, pc(q) = "idle",
             Becomes(q, [att[q] EXCEPT !.pc = "resumeAdmit", !.who = t, !.what = d, !.run = r])
      PROVE  TypeInv'
  <2> DEFINE a == [att[q] EXCEPT !.pc = "resumeAdmit", !.who = t, !.what = d, !.run = r]
  <2>1. "resumeAdmit" \in PCs BY DEF PCs, Resume
  <2>2. a \in Attempt BY <1>1, <2>1, Zenon DEF Attempt
  <2>3. a.pc = "resumeAdmit" /\ a.who = t /\ a.what = d /\ a.run = r /\ a.reply = att[q].reply
    BY <1>1 DEF Attempt
  <2>4. Sound(a) BY <1>1, <1>4, <2>3 DEF Sound, pc, Sending, Bulk, Manual, Resume
  <2> QED BY <1>2, <1>4, <2>2, <2>4, Moved, Typed
<1>5. CASE BulkSend(q, t, d) BY <1>3, <1>5 DEF BulkSend
<1>6. CASE ManualSend(q, t, d) BY <1>3, <1>6 DEF ManualSend
<1>7. CASE ResumeRun(q, t, d)
  BY <1>4, <1>7 DEF ResumeRun, LatestOwnRunByPeriod, Newest
<1> QED BY <1>5, <1>6, <1>7

LEMMA TypeHandler ==
  ASSUME TypeInv, NEW q \in Attempts, Handler(q)
  PROVE  TypeInv'
<1>1. att[q] \in Attempt /\ Sound(att[q]) BY DEF TypeInv, TypeOK
<1>2. RestOK BY DEF TypeInv, TypeOK, RestOK
<1>3. CASE Admit(q)
  <2>1. RestOK' BY <1>2, <1>3 DEF Admit, RestOK, db, proc, ghost
  <2> QED BY <1>3, <2>1, GotoSound, Typed DEF Admit
<1>4. CASE Reserve(q)
  <2>1. RestOK'
    BY <1>1, <1>2, <1>4 DEF Reserve, RestOK, Sound, pc, db, proc, ghost
  <2> QED BY <1>4, <2>1, GotoSound, Typed DEF Reserve
<1>5. CASE Refuse(q)
  <2>1. RestOK' BY <1>2, <1>5 DEF Refuse, RestOK, db, proc, ghost
  <2> QED BY <1>5, <2>1, IdleSound, Moved, Typed DEF Refuse
<1>6. CASE BulkRead(q)
  <2>1. RestOK' BY <1>2, <1>6 DEF BulkRead, RestOK, db, proc, ghost
  <2> DEFINE S == {r \in LatestRunByPeriod(att[q].what) :
                     runs[r].status # "running" /\ runs[r].teacher # att[q].who}
             p == IF att[q].pc = "txread" THEN "txwrite" ELSE "manualWrite"
             a == [att[q] EXCEPT !.pc = p, !.stale = S]
  <2>2. S \in SUBSET RunIds BY DEF LatestRunByPeriod, Newest
  <2>3. p \in PCs BY DEF PCs, Bulk, Manual
  <2>4. Becomes(q, a) BY <1>6 DEF BulkRead
  <2>5. pc(q) \in {"txread", "manualRead"} BY <1>6 DEF BulkRead
  <2>6. p \in {"txwrite", "manualWrite"} OBVIOUS
  <2> HIDE DEF S, p
  <2>7. a \in Attempt BY <1>1, <2>2, <2>3, Zenon DEF Attempt
  <2>8. a.pc = p /\ a.who = att[q].who /\ a.what = att[q].what /\ a.reply = att[q].reply
    BY <1>1 DEF Attempt
  <2>9. Sound(a) BY <1>1, <2>5, <2>6, <2>8 DEF Sound, pc, Sending, Bulk, Manual, Resume
  <2> QED BY <2>1, <2>4, <2>7, <2>9, Moved, Typed
<1>7. CASE BulkCommitManual(q)
  <2>1. rows' \in [RunIds -> [Contacts -> RowStatus]]
    BY <1>2, <1>7, FailQueuedType DEF BulkCommitManual, RestOK
  <2>2. RestOK' BY <1>2, <1>7, <2>1 DEF BulkCommitManual, RestOK, proc, ghost
  <2> QED BY <1>7, <2>2, EndRequestSound, Typed DEF BulkCommitManual
<1>8. ASSUME NEW r \in RunIds, NEW S \in SUBSET Contacts, BulkCommit(q, r, S)
      PROVE  TypeInv'
  <2>1. rows' \in [RunIds -> [Contacts -> RowStatus]]
    <3>1. [c \in Contacts |-> IF c \in S THEN "queued" ELSE "absent"] \in [Contacts -> RowStatus]
      BY DEF RowStatus
    <3> QED BY <1>2, <1>8, <3>1, FailQueuedType DEF BulkCommit, RestOK
  <2>2. att[q].who \in Teachers /\ att[q].what \in Dims
    BY <1>1, <1>8 DEF BulkCommit, pc, Sound, Bulk
  <2>3. runs' \in [RunIds -> [status : RunStatus, teacher : Teachers \cup {None},
                              dim : Dims \cup {None}]]
    BY <1>2, <1>8, <2>2 DEF BulkCommit, RestOK, RunStatus
  <2>4. RestOK' BY <1>2, <1>8, <2>1, <2>3 DEF BulkCommit, RestOK, proc, ghost
  <2> DEFINE a == [att[q] EXCEPT !.pc = "start", !.run = r, !.stale = {}, !.todo = S]
  <2>5. "start" \in PCs BY DEF PCs, Holding, Sending
  <2>6. a \in Attempt BY <1>1, <2>5, Zenon DEF Attempt
  <2>7. /\ a.pc = "start" /\ a.who = att[q].who /\ a.what = att[q].what /\ a.run = r
        /\ a.reply = att[q].reply
    BY <1>1 DEF Attempt
  <2>8. pc(q) = "txwrite" BY <1>8 DEF BulkCommit
  <2>9. Sound(a) BY <1>1, <2>2, <2>7, <2>8 DEF Sound, pc, Sending, Bulk, Manual, Resume
  <2>10. Becomes(q, a) BY <1>8 DEF BulkCommit
  <2> QED BY <2>4, <2>6, <2>9, <2>10, Moved, Typed
<1>9. CASE ResumeRead(q)
  <2>1. RestOK' BY <1>2, <1>9 DEF ResumeRead, RestOK, db, proc, ghost
  <2> DEFINE S == Queued(att[q].run)
             a == [att[q] EXCEPT !.pc = "resumeWrite", !.todo = S]
  <2>2. S \in SUBSET Contacts BY DEF Queued
  <2>3. "resumeWrite" \in PCs BY DEF PCs, Resume
  <2>4. Becomes(q, a) /\ pc(q) = "resumeRead" BY <1>9 DEF ResumeRead
  <2> HIDE DEF S
  <2>5. a \in Attempt BY <1>1, <2>2, <2>3, Zenon DEF Attempt
  <2>6. /\ a.pc = "resumeWrite" /\ a.who = att[q].who /\ a.what = att[q].what
        /\ a.run = att[q].run /\ a.reply = att[q].reply
    BY <1>1 DEF Attempt
  <2>7. Sound(a) BY <1>1, <2>4, <2>6 DEF Sound, pc, Sending, Bulk, Manual, Resume
  <2> QED BY <2>1, <2>4, <2>5, <2>7, Moved, Typed
<1>10. ASSUME NEW F \in SUBSET Contacts, ResumeCommit(q, F)
       PROVE  TypeInv'
  <2>1. pc(q) = "resumeWrite" /\ att[q].run \in RunIds
    BY <1>1, <1>10 DEF ResumeCommit, pc, Sound, Resume
  <2>2. rows' \in [RunIds -> [Contacts -> RowStatus]]
    BY <1>2, <1>10, <2>1, VerdictType DEF ResumeCommit, RestOK
  <2>3. runs' \in [RunIds -> [status : RunStatus, teacher : Teachers \cup {None},
                              dim : Dims \cup {None}]]
    <3> DEFINE r == att[q].run
               s == IF att[q].todo \ F = {} THEN "completed" ELSE "running"
    <3>1. s \in RunStatus BY DEF RunStatus, Settled
    <3>2. runs' = [runs EXCEPT ![r].status = s] BY <1>10, Zenon DEF ResumeCommit
    <3> QED BY <1>2, <2>1, <3>1, <3>2, StatusTyped DEF RestOK
  <2>4. RestOK' BY <1>2, <1>10, <2>2, <2>3 DEF ResumeCommit, RestOK, proc, ghost
  <2> DEFINE S == att[q].todo \ F
             a == [att[q] EXCEPT !.pc = "start", !.todo = S]
  <2>5. CASE S = {}
    BY <1>10, <2>1, <2>4, <2>5, LeaveSound, Typed DEF ResumeCommit
  <2>6. CASE S # {}
    <3>1. Becomes(q, a) BY <1>10, <2>6 DEF ResumeCommit
    <3>2. S \in SUBSET Contacts BY <1>1 DEF Attempt
    <3>3. "start" \in PCs BY DEF PCs, Holding, Sending
    <3> HIDE DEF S
    <3>4. a \in Attempt BY <1>1, <3>2, <3>3, Zenon DEF Attempt
    <3>5. /\ a.pc = "start" /\ a.who = att[q].who /\ a.what = att[q].what
          /\ a.run = att[q].run /\ a.reply = att[q].reply
      BY <1>1 DEF Attempt
    <3>6. Sound(a) BY <1>1, <2>1, <3>5 DEF Sound, pc, Sending, Bulk, Manual, Resume
    <3> QED BY <2>4, <3>1, <3>4, <3>6, Moved, Typed
  <2> QED BY <2>5, <2>6
<1>11. CASE Rollback(q)
  <2>1. RestOK' BY <1>2, <1>11 DEF Rollback, RestOK, db, proc, ghost
  <2>2. pc(q) # "idle" BY <1>11 DEF Rollback, Manual
  <2> QED BY <1>11, <2>1, <2>2, EndRequestSound, Typed DEF Rollback
<1>12. CASE Release(q)
  <2>1. RestOK' BY <1>1, <1>2, <1>12 DEF Release, RestOK, Sound, pc, db, proc, ghost
  <2> QED BY <1>12, <2>1, IdleSound, Moved, Typed DEF Release
<1>13. CASE Start(q)
  <2>1. RestOK' BY <1>2, <1>13 DEF Start, RestOK, db, proc, ghost
  <2> QED BY <1>13, <2>1, GotoSound, Typed DEF Start
<1> QED
  BY <1>3, <1>4, <1>5, <1>6, <1>7, <1>8, <1>9, <1>10, <1>11, <1>12, <1>13 DEF Handler

LEMMA TypeGoroutine ==
  ASSUME TypeInv, NEW q \in Attempts, Goroutine(q)
  PROVE  TypeInv'
<1>1. att[q] \in Attempt /\ Sound(att[q]) BY DEF TypeInv, TypeOK
<1>2. RestOK BY DEF TypeInv, TypeOK, RestOK
<1>3. CASE Exhausted(q)
  <2>1. RestOK' BY <1>2, <1>3 DEF Exhausted, RestOK, db, proc, ghost
  <2> QED BY <1>3, <2>1, EndWithSound, Typed DEF Exhausted, Sending, Endings
<1>4. CASE CutShort(q)
  <2>1. RestOK' BY <1>2, <1>4 DEF CutShort, RestOK, db, proc, ghost
  <2> QED BY <1>4, <2>1, LeaveSound, Typed DEF CutShort
<1>5. CASE Revoked(q)
  <2>1. RestOK' BY <1>2, <1>5 DEF Revoked, RestOK, db, proc, ghost
  <2> QED BY <1>5, <2>1, EndWithSound, Typed DEF Revoked, Sending, Endings
<1>6. ASSUME NEW c \in Contacts, NEW answer \in Answers, SendDM(q, c, answer)
      PROVE  TypeInv'
  <2>1. att[q].run \in RunIds /\ pc(q) = "head"
    BY <1>1, <1>6 DEF SendDM, pc, Sound, Sending
  <2>2. dms' \in [RunIds -> [Contacts -> 0 .. 2]]
    BY <1>2, <1>6, <2>1 DEF SendDM, RestOK, OneMore
  <2>3. RestOK' BY <1>2, <1>6, <2>2 DEF SendDM, RestOK, db, proc
  <2> DEFINE S == att[q].todo \ {c}
             a == [att[q] EXCEPT !.pc = "sent", !.todo = S, !.cur = c, !.reply = answer]
  <2>4. S \in SUBSET Contacts BY <1>1 DEF Attempt
  <2>5. "sent" \in PCs BY DEF PCs, Holding, Sending
  <2>6. Becomes(q, a) BY <1>6 DEF SendDM
  <2> HIDE DEF S
  <2>7. a \in Attempt BY <1>1, <2>4, <2>5, Zenon DEF Attempt
  <2>8. /\ a.pc = "sent" /\ a.who = att[q].who /\ a.what = att[q].what
        /\ a.run = att[q].run /\ a.cur = c
    BY <1>1 DEF Attempt
  <2>9. Sound(a) BY <1>1, <2>1, <2>8 DEF Sound, pc, Sending, Bulk, Manual, Resume
  <2> QED BY <2>3, <2>6, <2>7, <2>9, Moved, Typed
<1>7. CASE Aborted(q)
  <2>1. lost' \subseteq RunIds \X Contacts
    BY <1>2, <1>7, UnrecordedType DEF Aborted, Lose, RestOK
  <2>2. RestOK' BY <1>2, <1>7, <2>1 DEF Aborted, RestOK, db, proc
  <2> QED BY <1>7, <2>2, LeaveSound, Typed DEF Aborted
<1>8. CASE Expired(q)
  <2>1. RestOK' BY <1>2, <1>8 DEF Expired, RestOK, db, proc, ghost
  <2> QED BY <1>8, <2>1, EndWithSound, Typed DEF Expired, Sending, Endings
<1>9. ASSUME NEW v \in {"sent", "failed"}, MarkOutcome(q, v), pc(q) = "sent",
             UNCHANGED <<runs, slot, proc, dms>>
      PROVE  RestOK'
  <2>1. att[q].run \in RunIds BY <1>1, <1>9 DEF pc, Sound, Sending
  <2>2. rows' \in [RunIds -> [Contacts -> RowStatus]]
    BY <1>2, <1>9, <2>1, VerdictType, SMTT(30) DEF MarkOutcome, RestOK
  <2>3. lost' \subseteq RunIds \X Contacts
    BY <1>2, <1>9, UnrecordedType DEF MarkOutcome, Lose, RestOK
  <2> QED BY <1>2, <1>9, <2>2, <2>3 DEF RestOK, proc
<1>10. CASE RecordSent(q)
  BY <1>9, <1>10, CarrySound, Typed DEF RecordSent, Sending
<1>11. CASE RecordFailed(q)
  <2>1. RestOK' BY <1>9, <1>11 DEF RecordFailed
  <2>2. att[q].streak + 1 \in Nat BY <1>1 DEF Attempt
  <2>3. pc(q) \in Sending BY <1>11 DEF RecordFailed, Sending
  <2>4. CASE EndWith(q, "interrupted", "finish")
    BY <2>1, <2>3, <2>4, EndWithSound, Typed DEF Endings
  <2>5. CASE Carry(q, att[q].streak + 1)
    BY <2>1, <2>2, <2>3, <2>5, CarrySound, Typed
  <2> QED BY <1>11, <2>4, <2>5 DEF RecordFailed
<1>12. CASE FailQueuedInRun(q)
  <2>1. att[q].run \in RunIds BY <1>1, <1>12 DEF FailQueuedInRun, pc, Sound, Sending
  <2>2. rows' \in [RunIds -> [Contacts -> RowStatus]]
    BY <1>2, <1>12, <2>1, FailQueuedType, SMTT(30) DEF FailQueuedInRun, RestOK
  <2>3. RestOK' BY <1>2, <1>12, <2>2 DEF FailQueuedInRun, RestOK, proc, ghost
  <2> QED BY <1>12, <2>3, GotoSound, Typed DEF FailQueuedInRun
<1>13. CASE FinishRun(q)
  <2>1. att[q].run \in RunIds /\ att[q].ending \in Endings
    BY <1>1, <1>13 DEF FinishRun, pc, Sound, Sending
  <2>2. runs' \in [RunIds -> [status : RunStatus, teacher : Teachers \cup {None},
                              dim : Dims \cup {None}]]
    <3>1. att[q].ending \in RunStatus BY <2>1 DEF Endings, RunStatus, Settled
    <3>2. CASE runs' = [runs EXCEPT ![att[q].run].status = att[q].ending]
      <4> DEFINE s == att[q].ending
                 r == att[q].run
      <4>1. r \in RunIds /\ s \in RunStatus /\ runs' = [runs EXCEPT ![r].status = s]
        BY <2>1, <3>1, <3>2
      <4> HIDE DEF r, s
      <4> QED BY <1>2, <4>1 DEF RestOK
    <3> QED BY <1>2, <1>13, <3>2 DEF FinishRun, RestOK
  <2>3. RestOK' BY <1>2, <1>13, <2>2 DEF FinishRun, RestOK, proc, ghost
  <2> QED BY <1>13, <2>3, LeaveSound, Typed DEF FinishRun
<1> QED BY <1>3, <1>4, <1>5, <1>6, <1>7, <1>8, <1>10, <1>11, <1>12, <1>13 DEF Goroutine

LEMMA TypeProcess ==
  ASSUME TypeInv,
         \/ \E r \in RunIds, c \in Contacts : MarkSent(r, c)
         \/ CancelAll \/ CloseManager \/ CloseReturns \/ Exit \/ Crash \/ Boot
  PROVE  TypeInv'
<1>1. RestOK /\ att \in [Attempts -> Attempt] /\ \A q \in Attempts : Sound(att[q])
  BY DEF TypeInv, TypeOK, RestOK
<1>2. ASSUME NEW r \in RunIds, NEW c \in Contacts, MarkSent(r, c)
      PROVE  TypeInv'
  <2>1. rows' \in [RunIds -> [Contacts -> RowStatus]]
    BY <1>1, <1>2, VerdictType DEF MarkSent, RestOK
  <2>2. RestOK' BY <1>1, <1>2, <2>1 DEF MarkSent, RestOK, proc, ghost
  <2> QED BY <1>1, <1>2, <2>2, Typed DEF MarkSent
<1>3. CASE CancelAll \/ CloseManager \/ CloseReturns
  <2>1. RestOK' /\ UNCHANGED att
    BY <1>1, <1>3 DEF CancelAll, CloseManager, CloseReturns, RestOK, db, ghost
  <2> QED BY <1>1, <2>1, Typed
<1>4. CASE Exit \/ Crash
  <2>1. Die BY <1>4 DEF Exit, Crash
  <2>2. lost' \subseteq RunIds \X Contacts
    BY <1>1, <2>1, UnrecordedType DEF Die, RestOK
  <2>3. RestOK' BY <1>1, <2>1, <2>2 DEF Die, RestOK, db
  <2>4. att' \in [Attempts -> Attempt] /\ \A q \in Attempts : Sound(att'[q])
    BY <2>1, IdleSound DEF Die
  <2> QED BY <2>3, <2>4, Typed
<1>5. CASE Boot
  <2>1. runs' \in [RunIds -> [status : RunStatus, teacher : Teachers \cup {None},
                              dim : Dims \cup {None}]]
    <3>1. "interrupted" \in RunStatus BY DEF RunStatus
    <3>2. ASSUME NEW r \in RunIds
          PROVE  [runs[r] EXCEPT !.status = "interrupted"]
                   \in [status : RunStatus, teacher : Teachers \cup {None}, dim : Dims \cup {None}]
      BY <1>1, <3>1 DEF RestOK
    <3> QED BY <1>1, <1>5, <3>2, Zenon DEF Boot, RestOK
  <2>2. RestOK' /\ UNCHANGED att BY <1>1, <1>5, <2>1 DEF Boot, RestOK, ghost
  <2> QED BY <1>1, <2>2, Typed
<1> QED BY <1>2, <1>3, <1>4, <1>5

LEMMA TypeInit == Init => TypeInv
<1> SUFFICES ASSUME Init PROVE TypeInv OBVIOUS
<1>1. TypeOK
  BY IdleSound DEF Init, TypeOK, NoRecord, RunStatus, RowStatus
<1> QED BY <1>1, IdleSound DEF Init, TypeInv

LEMMA TypeNext == TypeInv /\ [Next]_vars => TypeInv'
<1> SUFFICES ASSUME TypeInv, [Next]_vars PROVE TypeInv' OBVIOUS
<1>1. CASE UNCHANGED vars
  BY <1>1 DEF TypeInv, TypeOK, vars, db, proc, ghost
<1>2. CASE Next
  BY <1>2, TypeRequests, TypeHandler, TypeGoroutine, TypeProcess DEF Next
<1> QED BY <1>1, <1>2

\* Type correctness: a run, a row, a slot or an attempt never holds a value the
\* columns and structs of the code have no meaning for.
THEOREM TypeCorrect == Spec => []TypeOK
<1>1. TypeInv => TypeOK BY DEF TypeInv
<1> QED BY <1>1, TypeInit, TypeNext, PTL DEF Spec

-----------------------------------------------------------------------------
\* One sender: the slot and the indexes make a run belong to one attempt.

\* An attempt at a step that needs the slot holds its teacher's.
Held == \A q \in Attempts : pc(q) \in Holding => slot[att[q].who] = q

\* The run an attempt resumes or sends exists and is its teacher's, over its
\* dimension; while it is sent it is running.
OwnRun ==
  \A q \in Attempts :
    /\ pc(q) \in Resume \cup Sending =>
         /\ runs[att[q].run].status # "absent"
         /\ runs[att[q].run].teacher = att[q].who
         /\ runs[att[q].run].dim = att[q].what
    /\ pc(q) \in Sending => runs[att[q].run].status = "running"

\* What the partial unique indexes promise of the table.
Indexed ==
  \A r, o \in RunIds :
    r # o /\ runs[r].status = "running" /\ runs[o].status = "running" =>
      runs[r].teacher # runs[o].teacher /\ runs[r].dim # runs[o].dim

\* Between two processes there are no attempts.
DownIdle == phase = "down" => \A q \in Attempts : pc(q) = "idle"

Own == Held /\ OwnRun /\ Indexed /\ DownIdle
OwnInv == TypeInv /\ Own

\* Two attempts that hold slots never have the same run: its teacher has one
\* slot, and it holds one of them.
LEMMA RunsApart ==
  ASSUME OwnInv, NEW p \in Attempts, NEW q \in Attempts, p # q,
         pc(p) \in Holding, pc(q) \in Holding,
         pc(p) \in Resume \cup Sending, pc(q) \in Resume \cup Sending
  PROVE  att[p].run # att[q].run /\ att[p].who # att[q].who
BY DEF OwnInv, Own, Held, OwnRun

\* A step of q that keeps the runs, the slots and what q is about.
LEMMA OwnKept ==
  ASSUME OwnInv, NEW q \in Attempts, NEW a, Becomes(q, a),
         UNCHANGED <<runs, slot, phase>>, pc(q) # "idle",
         a.who = att[q].who,
         a.pc \in Holding => pc(q) \in Holding,
         a.pc \in Resume \cup Sending =>
            a.run = att[q].run /\ a.what = att[q].what /\ pc(q) \in Resume \cup Sending,
         a.pc \in Sending => pc(q) \in Sending
  PROVE  Own'
<1>1. att' = [att EXCEPT ![q] = a] BY DEF Becomes
<1>2. att \in [Attempts -> Attempt] BY DEF OwnInv, TypeInv, TypeOK
<1>3. Held' BY <1>1, <1>2 DEF OwnInv, Own, Held, pc
<1>4. OwnRun' BY <1>1, <1>2 DEF OwnInv, Own, OwnRun, pc
<1>5. Indexed' BY DEF OwnInv, Own, Indexed
<1>6. DownIdle' BY DEF OwnInv, Own, DownIdle, pc
<1> QED BY <1>3, <1>4, <1>5, <1>6 DEF Own

LEMMA OwnIdle ==
  ASSUME OwnInv, NEW q \in Attempts, Becomes(q, Idle), UNCHANGED <<runs, phase>>, pc(q) # "idle",
         \A t \in Teachers : slot[t] # q => slot'[t] = slot[t]
  PROVE  Own'
<1>1. att' = [att EXCEPT ![q] = Idle] BY DEF Becomes
<1>2. att \in [Attempts -> Attempt] BY DEF OwnInv, TypeInv, TypeOK
<1>0. Idle.pc = "idle" BY DEF Idle
<1>3. Held'
  <2> SUFFICES ASSUME NEW p \in Attempts, pc(p)' \in Holding PROVE slot'[att'[p].who] = p
    BY DEF Held
  <2>1. p # q BY <1>0, <1>1, <1>2 DEF pc, Holding, Sending
  <2>2. att'[p] = att[p] BY <1>1, <1>2, <2>1
  <2>3. att[p].who \in Teachers /\ slot[att[p].who] = p
    BY <2>2 DEF OwnInv, Own, Held, TypeInv, Sound, pc, Holding, Sending
  <2> QED BY <2>1, <2>2, <2>3
<1>4. OwnRun' BY <1>0, <1>1, <1>2 DEF OwnInv, Own, OwnRun, pc, Resume, Sending
<1>5. Indexed' BY DEF OwnInv, Own, Indexed
<1>6. DownIdle' BY DEF OwnInv, Own, DownIdle, pc
<1> QED BY <1>3, <1>4, <1>5, <1>6 DEF Own

LEMMA OwnLeave ==
  ASSUME OwnInv, NEW q \in Attempts, NEW p \in {"release", "exit"}, Leave(q, p),
         pc(q) \in Holding, UNCHANGED <<runs, slot, phase>>
  PROVE  Own'
<1> DEFINE a == [Idle EXCEPT !.pc = p, !.who = att[q].who]
<1>1. a.pc = p /\ a.who = att[q].who BY DEF Idle
<1>2. Becomes(q, a) BY DEF Leave
<1>3. p \in Holding /\ p \notin Resume \cup Sending BY DEF Holding, Resume, Sending
<1>4. pc(q) # "idle" BY DEF Holding, Sending
<1> HIDE DEF a
<1> QED BY <1>1, <1>2, <1>3, <1>4, OwnKept

LEMMA OwnEndRequest ==
  ASSUME OwnInv, NEW q \in Attempts, EndRequest(q), pc(q) \in Holding \cup Manual,
         UNCHANGED <<runs, slot, phase>>
  PROVE  Own'
<1>1. CASE pc(q) \in Manual
  BY <1>1, OwnIdle DEF EndRequest, Manual
<1>2. CASE pc(q) \notin Manual
  BY <1>2, OwnLeave DEF EndRequest
<1> QED BY <1>1, <1>2

\* A step of the goroutine or of the handler that stays with its run.
LEMMA OwnStays ==
  ASSUME OwnInv, NEW q \in Attempts, NEW a, Becomes(q, a), UNCHANGED <<runs, slot, phase>>,
         a.who = att[q].who, a.what = att[q].what, a.run = att[q].run,
         \/ pc(q) \in Sending /\ a.pc \in Sending
         \/ pc(q) = "admit" /\ a.pc = "reserve"
         \/ pc(q) = "resumeAdmit" /\ a.pc = "resumeReserve"
         \/ pc(q) = "txread" /\ a.pc = "txwrite"
         \/ pc(q) = "manualRead" /\ a.pc = "manualWrite"
         \/ pc(q) = "resumeRead" /\ a.pc = "resumeWrite"
  PROVE  Own'
<1>1. pc(q) # "idle" BY DEF Sending
<1>2. a.pc \in Holding => pc(q) \in Holding BY DEF Holding, Sending
<1>3. a.pc \in Resume \cup Sending => pc(q) \in Resume \cup Sending BY DEF Resume, Sending
<1>4. a.pc \in Sending => pc(q) \in Sending BY DEF Sending
<1> QED BY <1>1, <1>2, <1>3, <1>4, OwnKept

LEMMA OwnGoto ==
  ASSUME OwnInv, NEW q \in Attempts, NEW p, Goto(q, p), UNCHANGED <<runs, slot, phase>>,
         \/ pc(q) \in Sending /\ p \in Sending
         \/ pc(q) = "admit" /\ p = "reserve"
         \/ pc(q) = "resumeAdmit" /\ p = "resumeReserve"
  PROVE  Own'
<1> DEFINE a == [att[q] EXCEPT !.pc = p]
<1>1. att[q] \in Attempt BY DEF OwnInv, TypeInv, TypeOK
<1>2. a.pc = p /\ a.who = att[q].who /\ a.what = att[q].what /\ a.run = att[q].run
  BY <1>1 DEF Attempt
<1>3. Becomes(q, a) BY DEF Goto
<1> HIDE DEF a
<1> QED BY <1>2, <1>3, OwnStays

LEMMA OwnEndWith ==
  ASSUME OwnInv, NEW q \in Attempts, NEW s, NEW p \in Sending, EndWith(q, s, p),
         pc(q) \in Sending, UNCHANGED <<runs, slot, phase>>
  PROVE  Own'
<1> DEFINE a == [att[q] EXCEPT !.pc = p, !.ending = s, !.cur = None, !.reply = None]
<1>1. att[q] \in Attempt BY DEF OwnInv, TypeInv, TypeOK
<1>2. a.pc = p /\ a.who = att[q].who /\ a.what = att[q].what /\ a.run = att[q].run
  BY <1>1 DEF Attempt
<1>3. Becomes(q, a) BY DEF EndWith
<1> HIDE DEF a
<1> QED BY <1>2, <1>3, OwnStays

LEMMA OwnCarry ==
  ASSUME OwnInv, NEW q \in Attempts, NEW n, Carry(q, n),
         pc(q) \in Sending, UNCHANGED <<runs, slot, phase>>
  PROVE  Own'
<1> DEFINE a == [att[q] EXCEPT !.pc = "head", !.streak = n, !.cur = None, !.reply = None]
<1>1. att[q] \in Attempt BY DEF OwnInv, TypeInv, TypeOK
<1>2. a.pc = "head" /\ a.who = att[q].who /\ a.what = att[q].what /\ a.run = att[q].run
  BY <1>1 DEF Attempt
<1>3. Becomes(q, a) BY DEF Carry
<1>4. "head" \in Sending BY DEF Sending
<1> HIDE DEF a
<1> QED BY <1>2, <1>3, <1>4, OwnStays

LEMMA OwnRequests ==
  ASSUME OwnInv, NEW q \in Attempts, NEW t \in Teachers, NEW d \in Dims,
         BulkSend(q, t, d) \/ ManualSend(q, t, d) \/ ResumeRun(q, t, d)
  PROVE  Own'
<1>1. att \in [Attempts -> Attempt] BY DEF OwnInv, TypeInv, TypeOK
<1>2. UNCHANGED <<runs, slot, phase>> /\ phase # "down"
  BY DEF BulkSend, ManualSend, ResumeRun, db, proc
<1>3. ASSUME NEW a, Becomes(q, a), a.pc \notin Holding \cup Sending,
             a.pc \in Resume => /\ runs[a.run].status # "absent"
                                /\ runs[a.run].teacher = a.who /\ runs[a.run].dim = a.what
      PROVE  Own'
  <2>1. att' = [att EXCEPT ![q] = a] BY <1>3 DEF Becomes
  <2>2. Held' BY <1>1, <1>2, <1>3, <2>1 DEF OwnInv, Own, Held, pc
  <2>3. OwnRun' BY <1>1, <1>2, <1>3, <2>1 DEF OwnInv, Own, OwnRun, pc
  <2>4. Indexed' BY <1>2 DEF OwnInv, Own, Indexed
  <2>5. DownIdle' BY <1>2 DEF DownIdle
  <2> QED BY <2>2, <2>3, <2>4, <2>5 DEF Own
<1>4. ASSUME NEW p \in {"admit", "manualRead"},
             Becomes(q, [att[q] EXCEPT !.pc = p, !.who = t, !.what = d])
      PROVE  Own'
  <2> DEFINE a == [att[q] EXCEPT !.pc = p, !.who = t, !.what = d]
  <2>1. a.pc = p BY <1>1 DEF Attempt
  <2>2. a.pc \notin Holding \cup Sending \cup Resume BY <2>1 DEF Holding, Sending, Resume
  <2> QED BY <1>3, <1>4, <2>2
<1>5. CASE ResumeRun(q, t, d)
  <2>1. PICK r \in LatestOwnRunByPeriod(t, d) :
          /\ runs[r].status = "interrupted"
          /\ Becomes(q, [att[q] EXCEPT !.pc = "resumeAdmit", !.who = t, !.what = d, !.run = r])
    BY <1>5 DEF ResumeRun
  <2> DEFINE a == [att[q] EXCEPT !.pc = "resumeAdmit", !.who = t, !.what = d, !.run = r]
  <2>2. a.pc = "resumeAdmit" /\ a.who = t /\ a.what = d /\ a.run = r BY <1>1 DEF Attempt
  <2>3. a.pc \notin Holding \cup Sending BY <2>2 DEF Holding, Sending
  <2>4. runs[r].teacher = t /\ runs[r].dim = d BY <2>1 DEF LatestOwnRunByPeriod, Newest
  <2> HIDE DEF a
  <2>5. Becomes(q, a) BY <2>1 DEF a
  <2> QED BY <1>3, <2>1, <2>2, <2>3, <2>4, <2>5
<1> QED BY <1>4, <1>5 DEF BulkSend, ManualSend

LEMMA OwnHandler ==
  ASSUME OwnInv, NEW q \in Attempts, Handler(q)
  PROVE  Own'
<1>1. att \in [Attempts -> Attempt] /\ att[q] \in Attempt /\ Sound(att[q])
  BY DEF OwnInv, TypeInv, TypeOK
<1>2. CASE Admit(q)
  BY <1>2, OwnGoto DEF Admit, db, proc
<1>3. CASE Reserve(q)
  <2> DEFINE p == IF pc(q) = "reserve" THEN "txread" ELSE "resumeRead"
             a == [att[q] EXCEPT !.pc = p]
  <2>1. a.pc = p /\ a.who = att[q].who /\ a.what = att[q].what /\ a.run = att[q].run
    BY <1>1 DEF Attempt
  <2>2. att' = [att EXCEPT ![q] = a] BY <1>3 DEF Reserve, Goto, Becomes
  <2>3. p \in {"txread", "resumeRead"} /\ (p = "resumeRead" => pc(q) = "resumeReserve")
    BY <1>3 DEF Reserve
  <2> HIDE DEF a, p
  <2>4. att[q].who \in Teachers /\ slot[att[q].who] = None
    BY <1>1, <1>3 DEF Reserve, Sound, pc
  <2>5. slot' = [slot EXCEPT ![att[q].who] = q] /\ UNCHANGED <<runs, phase>>
    BY <1>3 DEF Reserve, db, proc
  <2>6. Held'
    <3> SUFFICES ASSUME NEW o \in Attempts, pc(o)' \in Holding PROVE slot'[att'[o].who] = o
      BY DEF Held
    <3>1. CASE o = q
      BY <1>1, <2>1, <2>2, <2>4, <2>5, <3>1 DEF OwnInv, TypeInv, TypeOK
    <3>2. CASE o # q
      <4>1. att'[o] = att[o] /\ pc(o) \in Holding BY <1>1, <2>2, <3>2 DEF pc
      <4>2. slot[att[o].who] = o BY <4>1 DEF OwnInv, Own, Held
      <4>3. att[o].who # att[q].who BY <2>4, <4>2, NoneIsNoValue
      <4> QED BY <2>5, <4>1, <4>2, <4>3 DEF OwnInv, TypeInv, TypeOK
    <3> QED BY <3>1, <3>2
  <2>7. OwnRun'
    BY <1>1, <2>1, <2>2, <2>3, <2>5 DEF OwnInv, Own, OwnRun, pc, Resume, Sending
  <2>8. Indexed' BY <2>5 DEF OwnInv, Own, Indexed
  <2>9. DownIdle' BY <1>3, <2>5 DEF DownIdle, Reserve
  <2> QED BY <2>6, <2>7, <2>8, <2>9 DEF Own
<1>4. CASE Refuse(q)
  BY <1>4, OwnIdle DEF Refuse, db, proc
<1>5. CASE BulkRead(q)
  <2> DEFINE S == {r \in LatestRunByPeriod(att[q].what) :
                     runs[r].status # "running" /\ runs[r].teacher # att[q].who}
             p == IF att[q].pc = "txread" THEN "txwrite" ELSE "manualWrite"
             a == [att[q] EXCEPT !.pc = p, !.stale = S]
  <2>1. a.pc = p /\ a.who = att[q].who /\ a.what = att[q].what /\ a.run = att[q].run
    BY <1>1 DEF Attempt
  <2>2. Becomes(q, a) /\ UNCHANGED <<runs, slot, phase>> /\ pc(q) \in {"txread", "manualRead"}
    BY <1>5 DEF BulkRead, db, proc
  <2> HIDE DEF a
  <2> QED BY <2>1, <2>2, OwnStays DEF pc
<1>6. CASE BulkCommitManual(q)
  BY <1>6, OwnEndRequest DEF BulkCommitManual, proc, Holding, Manual
<1>7. ASSUME NEW r \in RunIds, NEW S \in SUBSET Contacts, BulkCommit(q, r, S)
      PROVE  Own'
  <2> DEFINE a == [att[q] EXCEPT !.pc = "start", !.run = r, !.stale = {}, !.todo = S]
             new == [status |-> "running", teacher |-> att[q].who, dim |-> att[q].what]
  <2>1. a.pc = "start" /\ a.who = att[q].who /\ a.what = att[q].what /\ a.run = r
    BY <1>1 DEF Attempt
  <2>2. /\ att' = [att EXCEPT ![q] = a] /\ UNCHANGED <<slot, phase>> /\ pc(q) = "txwrite"
        /\ runs' = [runs EXCEPT ![r] = new] /\ runs[r].status = "absent"
        /\ IndexAdmits(r, att[q].who, att[q].what)
    BY <1>7 DEF BulkCommit, Becomes, proc, Unused
  <2>3. new.status = "running" /\ new.teacher = att[q].who /\ new.dim = att[q].what
    OBVIOUS
  <2>4. runs'[r] = new /\ \A o \in RunIds : o # r => runs'[o] = runs[o]
    BY <2>2 DEF OwnInv, TypeInv, TypeOK
  <2> HIDE DEF a, new
  <2>5. Held' BY <1>1, <2>1, <2>2 DEF OwnInv, Own, Held, pc, Holding
  <2>6. OwnRun'
    <3> SUFFICES ASSUME NEW o \in Attempts
                 PROVE  /\ pc(o)' \in Resume \cup Sending =>
                             /\ runs'[att'[o].run].status # "absent"
                             /\ runs'[att'[o].run].teacher = att'[o].who
                             /\ runs'[att'[o].run].dim = att'[o].what
                        /\ pc(o)' \in Sending => runs'[att'[o].run].status = "running"
      BY DEF OwnRun
    <3>1. CASE o = q
      BY <1>1, <2>1, <2>2, <2>3, <2>4, <3>1 DEF pc
    <3>2. CASE o # q
      <4>1. att'[o] = att[o] BY <1>1, <2>2, <3>2
      <4>2. pc(o) \in Resume \cup Sending => att[o].run \in RunIds /\ att[o].run # r
        BY <2>2 DEF OwnInv, Own, OwnRun, TypeInv, Sound, pc
      <4> QED BY <2>4, <4>1, <4>2 DEF OwnInv, Own, OwnRun, pc
    <3> QED BY <3>1, <3>2
  <2>7. Indexed'
    BY <2>2, <2>3, <2>4 DEF OwnInv, Own, Indexed, IndexAdmits
  <2>8. DownIdle' BY <2>2 DEF OwnInv, Own, DownIdle, pc
  <2> QED BY <2>5, <2>6, <2>7, <2>8 DEF Own
<1>8. CASE ResumeRead(q)
  <2> DEFINE a == [att[q] EXCEPT !.pc = "resumeWrite", !.todo = Queued(att[q].run)]
  <2>1. a.pc = "resumeWrite" /\ a.who = att[q].who /\ a.what = att[q].what /\ a.run = att[q].run
    BY <1>1 DEF Attempt
  <2>2. Becomes(q, a) /\ UNCHANGED <<runs, slot, phase>> /\ pc(q) = "resumeRead"
    BY <1>8 DEF ResumeRead, db, proc
  <2> HIDE DEF a
  <2> QED BY <2>1, <2>2, OwnStays
<1>9. ASSUME NEW F \in SUBSET Contacts, ResumeCommit(q, F)
      PROVE  Own'
  <2> DEFINE r == att[q].run
             items == att[q].todo \ F
             s == IF items = {} THEN "completed" ELSE "running"
             a == IF items = {} THEN [Idle EXCEPT !.pc = "release", !.who = att[q].who]
                  ELSE [att[q] EXCEPT !.pc = "start", !.todo = items]
  <2>1. /\ a.who = att[q].who
        /\ items = {} => a.pc = "release"
        /\ items # {} => a.pc = "start" /\ a.what = att[q].what /\ a.run = r
    BY <1>1 DEF Attempt, Idle
  <2>2. /\ att' = [att EXCEPT ![q] = a] /\ UNCHANGED <<slot, phase>> /\ pc(q) = "resumeWrite"
        /\ runs' = [runs EXCEPT ![r].status = s]
        /\ items # {} => IndexAdmits(r, att[q].who, att[q].what)
    BY <1>9 DEF ResumeCommit, Leave, Becomes, proc
  <2>3. /\ r \in RunIds /\ runs[r].teacher = att[q].who /\ runs[r].dim = att[q].what
    BY <1>1, <2>2 DEF OwnInv, Own, OwnRun, Sound, pc, Resume
  <2>4. /\ runs'[r].status = s /\ runs'[r].teacher = att[q].who /\ runs'[r].dim = att[q].what
        /\ \A o \in RunIds : o # r => runs'[o] = runs[o]
    BY <2>2, <2>3 DEF OwnInv, TypeInv, TypeOK
  <2>5. s # "absent" /\ (items # {} <=> s = "running") OBVIOUS
  <2> HIDE DEF a, s, items
  <2>6. Held' BY <1>1, <2>1, <2>2 DEF OwnInv, Own, Held, pc, Holding
  <2>7. OwnRun'
    <3> SUFFICES ASSUME NEW o \in Attempts
                 PROVE  /\ pc(o)' \in Resume \cup Sending =>
                             /\ runs'[att'[o].run].status # "absent"
                             /\ runs'[att'[o].run].teacher = att'[o].who
                             /\ runs'[att'[o].run].dim = att'[o].what
                        /\ pc(o)' \in Sending => runs'[att'[o].run].status = "running"
      BY DEF OwnRun
    <3>1. CASE o = q
      BY <1>1, <2>1, <2>2, <2>4, <2>5, <3>1 DEF pc, Resume, Sending
    <3>2. CASE o # q
      <4>1. att'[o] = att[o] BY <1>1, <2>2, <3>2
      <4>2. pc(o) \in Resume \cup Sending => att[o].run \in RunIds
        BY DEF OwnInv, TypeInv, Sound, pc
      <4>3. pc(o) \in Sending => att[o].run # r
        BY <2>2, <3>2, RunsApart DEF Holding, Resume
      <4> QED BY <2>3, <2>4, <2>5, <4>1, <4>2, <4>3 DEF OwnInv, Own, OwnRun, pc
    <3> QED BY <3>1, <3>2
  <2>8. Indexed'
    BY <2>2, <2>3, <2>4, <2>5 DEF OwnInv, Own, Indexed, IndexAdmits
  <2>9. DownIdle' BY <2>2 DEF OwnInv, Own, DownIdle, pc
  <2> QED BY <2>6, <2>7, <2>8, <2>9 DEF Own
<1>10. CASE Rollback(q)
  BY <1>10, OwnEndRequest DEF Rollback, db, proc, Holding
<1>11. CASE Release(q)
  <2>1. \A t \in Teachers : slot[t] # q => slot'[t] = slot[t]
    BY <1>11 DEF Release, OwnInv, TypeInv, TypeOK
  <2> QED BY <1>11, <2>1, OwnIdle DEF Release, db, proc
<1>12. CASE Start(q)
  BY <1>12, OwnGoto DEF Start, db, proc, Sending
<1> QED
  BY <1>2, <1>3, <1>4, <1>5, <1>6, <1>7, <1>8, <1>9, <1>10, <1>11, <1>12 DEF Handler

LEMMA OwnGoroutine ==
  ASSUME OwnInv, NEW q \in Attempts, Goroutine(q)
  PROVE  Own'
<1>1. att \in [Attempts -> Attempt] /\ att[q] \in Attempt /\ Sound(att[q])
  BY DEF OwnInv, TypeInv, TypeOK
<1>2. CASE Exhausted(q)
  BY <1>2, OwnEndWith DEF Exhausted, Sending, db, proc
<1>3. CASE CutShort(q)
  BY <1>3, OwnLeave DEF CutShort, Holding, Sending, db, proc
<1>4. CASE Revoked(q)
  BY <1>4, OwnEndWith DEF Revoked, Sending, db, proc
<1>5. ASSUME NEW c \in Contacts, NEW answer \in Answers, SendDM(q, c, answer)
      PROVE  Own'
  <2> DEFINE a == [att[q] EXCEPT !.pc = "sent", !.todo = att[q].todo \ {c}, !.cur = c,
                                 !.reply = answer]
  <2>1. a.pc = "sent" /\ a.who = att[q].who /\ a.what = att[q].what /\ a.run = att[q].run
    BY <1>1 DEF Attempt
  <2>2. Becomes(q, a) /\ UNCHANGED <<runs, slot, phase>> /\ pc(q) = "head"
    BY <1>5 DEF SendDM, db, proc
  <2> HIDE DEF a
  <2> QED BY <2>1, <2>2, OwnStays DEF Sending
<1>6. CASE Aborted(q)
  BY <1>6, OwnLeave DEF Aborted, Holding, Sending, db, proc
<1>7. CASE Expired(q)
  BY <1>7, OwnEndWith DEF Expired, Sending, db, proc
<1>8. CASE RecordSent(q)
  BY <1>8, OwnCarry DEF RecordSent, Sending, proc
<1>9. CASE RecordFailed(q)
  BY <1>9, OwnCarry, OwnEndWith DEF RecordFailed, Sending, proc
<1>10. CASE FailQueuedInRun(q)
  BY <1>10, OwnGoto DEF FailQueuedInRun, Sending, proc
<1>11. CASE FinishRun(q)
  <2>1. CASE UNCHANGED runs
    BY <1>11, <2>1, OwnLeave DEF FinishRun, Holding, Sending, proc
  <2>2. CASE runs' = [runs EXCEPT ![att[q].run].status = att[q].ending]
    <3> DEFINE r == att[q].run
               s == att[q].ending
               a == [Idle EXCEPT !.pc = "exit", !.who = att[q].who]
    <3>1. a.pc = "exit" /\ a.who = att[q].who BY DEF Idle
    <3>2. /\ att' = [att EXCEPT ![q] = a] /\ UNCHANGED <<slot, phase>> /\ pc(q) = "finish"
      BY <1>11 DEF FinishRun, Leave, Becomes, proc
    <3>3. r \in RunIds /\ s \in Endings BY <1>1, <3>2 DEF Sound, pc, Sending
    <3>4. /\ runs'[r].status = s
          /\ runs'[r].teacher = runs[r].teacher /\ runs'[r].dim = runs[r].dim
          /\ \A o \in RunIds : o # r => runs'[o] = runs[o]
      BY <2>2, <3>3 DEF OwnInv, TypeInv, TypeOK
    <3> HIDE DEF a, s, r
    <3>5. s # "absent" /\ s # "running" BY <3>3 DEF Endings
    <3>6. Held' BY <1>1, <3>1, <3>2 DEF OwnInv, Own, Held, pc, Holding, Sending
    <3>7. OwnRun'
      <4> SUFFICES ASSUME NEW o \in Attempts
                   PROVE  /\ pc(o)' \in Resume \cup Sending =>
                               /\ runs'[att'[o].run].status # "absent"
                               /\ runs'[att'[o].run].teacher = att'[o].who
                               /\ runs'[att'[o].run].dim = att'[o].what
                          /\ pc(o)' \in Sending => runs'[att'[o].run].status = "running"
        BY DEF OwnRun
      <4>1. CASE o = q
        BY <1>1, <3>1, <3>2, <4>1 DEF pc, Resume, Sending
      <4>2. CASE o # q
        <5>1. att'[o] = att[o] BY <1>1, <3>2, <4>2
        <5>2. pc(o) \in Resume \cup Sending => att[o].run \in RunIds
          BY DEF OwnInv, TypeInv, Sound, pc
        <5>3. pc(o) \in Sending => att[o].run # r
          BY <3>2, <4>2, RunsApart DEF Holding, Sending, r
        <5> QED BY <3>3, <3>4, <3>5, <5>1, <5>2, <5>3 DEF OwnInv, Own, OwnRun, pc
      <4> QED BY <4>1, <4>2
    <3>8. Indexed' BY <3>3, <3>4, <3>5 DEF OwnInv, Own, Indexed
    <3>9. DownIdle' BY <3>2 DEF OwnInv, Own, DownIdle, pc
    <3> QED BY <3>6, <3>7, <3>8, <3>9 DEF Own
  <2> QED BY <1>11, <2>1, <2>2 DEF FinishRun
<1> QED BY <1>2, <1>3, <1>4, <1>5, <1>6, <1>7, <1>8, <1>9, <1>10, <1>11 DEF Goroutine

LEMMA OwnProcess ==
  ASSUME OwnInv,
         \/ \E r \in RunIds, c \in Contacts : MarkSent(r, c)
         \/ CancelAll \/ CloseManager \/ CloseReturns \/ Exit \/ Crash \/ Boot
  PROVE  Own'
<1>1. CASE /\ UNCHANGED <<runs, slot, att>> /\ phase' # "down"
  BY <1>1 DEF OwnInv, Own, Held, OwnRun, Indexed, DownIdle, pc
<1>2. ASSUME NEW r \in RunIds, NEW c \in Contacts, MarkSent(r, c)
      PROVE  Own'
  BY <1>1, <1>2 DEF MarkSent, proc
<1>3. CASE CancelAll \/ CloseManager \/ CloseReturns
  BY <1>1, <1>3 DEF CancelAll, CloseManager, CloseReturns, db
<1>4. CASE Exit \/ Crash
  <2>1. UNCHANGED runs /\ \A q \in Attempts : pc(q)' = "idle"
    BY <1>4 DEF Exit, Crash, Die, db, pc, Idle
  <2> QED
    BY <2>1 DEF OwnInv, Own, Held, OwnRun, Indexed, DownIdle, Holding, Resume, Sending
<1>5. CASE Boot
  <2>1. /\ UNCHANGED <<slot, att>> /\ phase' = "up" /\ \A q \in Attempts : pc(q) = "idle"
        /\ \A r \in RunIds : runs'[r].status # "running"
    BY <1>5 DEF Boot, OwnInv, Own, DownIdle, TypeInv, TypeOK
  <2> QED BY <2>1 DEF Own, Held, OwnRun, Indexed, DownIdle, Holding, Resume, Sending, pc
<1> QED BY <1>2, <1>3, <1>4, <1>5

LEMMA OwnInit == Init => OwnInv
<1> SUFFICES ASSUME Init PROVE OwnInv OBVIOUS
<1>1. \A q \in Attempts : pc(q) = "idle" BY DEF Init, pc, Idle
<1>2. \A r \in RunIds : runs[r].status = "absent" BY DEF Init, NoRecord
<1> QED
  BY <1>1, <1>2, TypeInit
  DEF OwnInv, Own, Held, OwnRun, Indexed, DownIdle, Holding, Resume, Sending

LEMMA OwnNext == OwnInv /\ [Next]_vars => OwnInv'
<1> SUFFICES ASSUME OwnInv, [Next]_vars PROVE OwnInv' OBVIOUS
<1>1. TypeInv' BY TypeNext DEF OwnInv
<1>2. ASSUME UNCHANGED vars PROVE Own'
  <2>1. UNCHANGED <<runs, slot, att, phase>> BY <1>2 DEF vars, db, proc
  <2> QED BY <2>1 DEF OwnInv, Own, Held, OwnRun, Indexed, DownIdle, pc
<1>3. ASSUME Next PROVE Own'
  BY <1>3, OwnRequests, OwnHandler, OwnGoroutine, OwnProcess DEF Next
<1>4. Own' BY <1>2, <1>3
<1> QED BY <1>1, <1>4 DEF OwnInv

\* However requests, goroutines, shutdowns, crashes and failed writes
\* interleave, no two attempts send for one teacher or over one dimension.
THEOREM OneSenderAlways == Spec => []OneSender
<1>1. OwnInv => OneSender
  <2> SUFFICES ASSUME OwnInv, NEW p \in Attempts, NEW q \in Attempts, p # q,
                      pc(p) \in Sending, pc(q) \in Sending
               PROVE  att[p].who # att[q].who /\ att[p].what # att[q].what
    BY DEF OneSender
  <2>1. pc(p) \in Holding /\ pc(q) \in Holding BY DEF Holding
  <2>2. att[p].run # att[q].run /\ att[p].who # att[q].who BY <2>1, RunsApart
  <2>3. att[p].run \in RunIds /\ att[q].run \in RunIds BY DEF OwnInv, TypeInv, Sound, pc
  <2> QED BY <2>2, <2>3 DEF OwnInv, Own, OwnRun, Indexed
<1> QED BY <1>1, OwnInit, OwnNext, PTL DEF Spec

-----------------------------------------------------------------------------
\* At most once: a message leaves a verdict, a sender about to write one, or a
\* loss.

\* Where an attempt works through its todo.
Loaded == {"resumeWrite", "start", "head", "sent"}

\* A message of run r has reached c and its outcome is not written yet.
InFlight(r, c) ==
  \E q \in Attempts : att[q].reply \in Delivered /\ att[q].run = r /\ att[q].cur = c

Accounted ==
  \A r \in RunIds, c \in Contacts :
    <<r, c>> \notin lost =>
      /\ dms[r][c] = 0 \/ dms[r][c] = 1
      /\ dms[r][c] = 1 => rows[r][c] \in {"sent", "failed"} \/ InFlight(r, c)

\* What is still to send has a row and was not sent before.
Fresh ==
  \A q \in Attempts :
    /\ pc(q) \in Loaded =>
         \A c \in att[q].todo :
           /\ rows[att[q].run][c] # "absent"
           /\ <<att[q].run, c>> \notin lost => dms[att[q].run][c] = 0
    /\ pc(q) = "sent" => rows[att[q].run][att[q].cur] # "absent"

\* A run not created yet has neither rows nor messages.
Blank ==
  \A r \in RunIds, c \in Contacts :
    runs[r].status = "absent" => dms[r][c] = 0 /\ rows[r][c] = "absent"

Ledger == Accounted /\ Fresh /\ Blank
LedgerInv == OwnInv /\ Ledger

\* Rows only settle.
Settling ==
  \A r \in RunIds, c \in Contacts :
    \/ rows'[r][c] = rows[r][c]
    \/ rows[r][c] = "queued" /\ rows'[r][c] \in {"sent", "failed"}

\* No run disappears.
NoneVanish == \A r \in RunIds : runs'[r].status = "absent" => runs[r].status = "absent"

LEMMA VerdictSettles ==
  ASSUME TypeInv, NEW r \in RunIds, NEW S, NEW v \in {"sent", "failed"},
         rows' = [rows EXCEPT ![r] = Verdict(@, S, v)]
  PROVE  Settling
BY DEF Settling, Verdict, TypeInv, TypeOK

LEMMA FailQueuedSettles ==
  ASSUME TypeInv, NEW r \in RunIds, rows' = [rows EXCEPT ![r] = FailQueued(@)]
  PROVE  Settling
BY VerdictSettles DEF FailQueued

LEMMA UnchangedSettles == ASSUME UNCHANGED rows PROVE Settling
BY DEF Settling

LEMMA NotSentNoReply ==
  ASSUME TypeInv, NEW q \in Attempts, att[q].reply \in Delivered
  PROVE  pc(q) = "sent"
BY DEF TypeInv, Sound, Delivered, None, pc

\* Steps that send nothing and lose nothing but what q had in flight.
LEMMA LedgerKept ==
  ASSUME LedgerInv, NEW q \in Attempts, NEW a, Becomes(q, a),
         UNCHANGED dms, lost \subseteq lost', Settling, NoneVanish,
         a.reply \notin Delivered, a.pc # "sent",
         a.pc \in Loaded => /\ pc(q) \in Loaded
                            /\ a.run = att[q].run /\ a.todo \subseteq att[q].todo,
         att[q].reply \in Delivered =>
            \/ <<att[q].run, att[q].cur>> \in lost'
            \/ rows'[att[q].run][att[q].cur] \in {"sent", "failed"}
  PROVE  Ledger'
<1>1. att \in [Attempts -> Attempt] BY DEF LedgerInv, OwnInv, TypeInv, TypeOK
<1>2. att' = [att EXCEPT ![q] = a] BY DEF Becomes
<1>3. att'[q] = a /\ \A p \in Attempts : p # q => att'[p] = att[p] BY <1>1, <1>2
<1>4. Accounted'
  <2> SUFFICES ASSUME NEW r \in RunIds, NEW c \in Contacts, <<r, c>> \notin lost'
               PROVE  /\ dms[r][c] = 0 \/ dms[r][c] = 1
                      /\ dms[r][c] = 1 => rows'[r][c] \in {"sent", "failed"} \/ InFlight(r, c)'
    BY DEF Accounted
  <2>1. dms[r][c] = 0 \/ dms[r][c] = 1 BY DEF LedgerInv, Ledger, Accounted
  <2>2. ASSUME dms[r][c] = 1, rows'[r][c] \notin {"sent", "failed"} PROVE InFlight(r, c)'
    <3>1. rows[r][c] \notin {"sent", "failed"} BY <2>2 DEF Settling
    <3>2. InFlight(r, c) BY <2>2, <3>1 DEF LedgerInv, Ledger, Accounted
    <3>3. PICK p \in Attempts : att[p].reply \in Delivered /\ att[p].run = r /\ att[p].cur = c
      BY <3>2 DEF InFlight
    <3>4. p # q BY <2>2, <3>3
    <3> QED BY <1>3, <3>3, <3>4 DEF InFlight
  <2> QED BY <2>1, <2>2
<1>5. Fresh'
  <2> SUFFICES ASSUME NEW p \in Attempts
               PROVE  /\ pc(p)' \in Loaded =>
                           \A c \in att'[p].todo :
                             /\ rows'[att'[p].run][c] # "absent"
                             /\ <<att'[p].run, c>> \notin lost' => dms[att'[p].run][c] = 0
                      /\ pc(p)' = "sent" => rows'[att'[p].run][att'[p].cur] # "absent"
    BY DEF Fresh
  <2>1. Sound(att[p]) /\ att[p] \in Attempt BY <1>1 DEF LedgerInv, OwnInv, TypeInv
  <2>2. pc(p) \in Loaded => att[p].run \in RunIds /\ att[p].todo \subseteq Contacts
    BY <2>1 DEF Loaded, Sound, pc, Resume, Sending, Attempt
  <2>3. pc(p) = "sent" => att[p].cur \in Contacts /\ att[p].run \in RunIds
    BY <2>1 DEF Sound, pc, Sending
  <2>4. CASE p = q
    BY <1>3, <2>2, <2>4 DEF LedgerInv, Ledger, Fresh, Settling, pc
  <2>5. CASE p # q
    BY <1>3, <2>2, <2>3, <2>5 DEF LedgerInv, Ledger, Fresh, Settling, pc
  <2> QED BY <2>4, <2>5
<1>6. Blank' BY DEF LedgerInv, Ledger, Blank, NoneVanish, Settling
<1> QED BY <1>4, <1>5, <1>6 DEF Ledger

LEMMA NoneIsNoAnswer == None \notin Delivered
BY DEF None, Delivered

LEMMA LedgerLeave ==
  ASSUME LedgerInv, NEW q \in Attempts, NEW p \in {"release", "exit"}, Leave(q, p), pc(q) # "sent",
         UNCHANGED <<dms, lost>>, Settling, NoneVanish
  PROVE  Ledger'
<1> DEFINE a == [Idle EXCEPT !.pc = p, !.who = att[q].who]
<1>1. a.pc = p /\ a.reply = None BY DEF Idle
<1>2. Becomes(q, a) BY DEF Leave
<1> HIDE DEF a
<1> QED
  BY <1>1, <1>2, LedgerKept, NotSentNoReply, NoneIsNoAnswer DEF LedgerInv, OwnInv, Loaded

LEMMA LedgerIdle ==
  ASSUME LedgerInv, NEW q \in Attempts, Becomes(q, Idle), pc(q) # "sent",
         UNCHANGED <<dms, lost>>, Settling, NoneVanish
  PROVE  Ledger'
<1>1. Idle.pc = "idle" /\ Idle.reply = None BY DEF Idle
<1> QED BY <1>1, LedgerKept, NotSentNoReply, NoneIsNoAnswer DEF LedgerInv, OwnInv, Loaded

LEMMA LedgerEndRequest ==
  ASSUME LedgerInv, NEW q \in Attempts, EndRequest(q), pc(q) # "sent",
         UNCHANGED <<dms, lost>>, Settling, NoneVanish
  PROVE  Ledger'
BY LedgerLeave, LedgerIdle DEF EndRequest

\* A step between two places where nothing is in flight.
LEMMA LedgerStays ==
  ASSUME LedgerInv, NEW q \in Attempts, NEW a, Becomes(q, a), UNCHANGED <<dms, lost>>,
         Settling, NoneVanish, pc(q) # "sent", a.pc # "sent", a.reply = att[q].reply,
         a.pc \in Loaded => /\ pc(q) \in Loaded
                            /\ a.run = att[q].run /\ a.todo \subseteq att[q].todo
  PROVE  Ledger'
BY LedgerKept, NotSentNoReply DEF LedgerInv, OwnInv

LEMMA LedgerGoto ==
  ASSUME LedgerInv, NEW q \in Attempts, NEW p, Goto(q, p), UNCHANGED <<dms, lost>>, Settling,
         NoneVanish, pc(q) # "sent", p # "sent", p \in Loaded => pc(q) \in Loaded
  PROVE  Ledger'
<1> DEFINE a == [att[q] EXCEPT !.pc = p]
<1>1. att[q] \in Attempt BY DEF LedgerInv, OwnInv, TypeInv, TypeOK
<1>2. a.pc = p /\ a.reply = att[q].reply /\ a.run = att[q].run /\ a.todo = att[q].todo
  BY <1>1 DEF Attempt
<1>3. Becomes(q, a) BY DEF Goto
<1> HIDE DEF a
<1> QED BY <1>2, <1>3, LedgerStays

\* What is in flight is lost or has its verdict when q goes on or ends the run.
Closed(q) ==
  att[q].reply \in Delivered =>
    \/ <<att[q].run, att[q].cur>> \in lost'
    \/ rows'[att[q].run][att[q].cur] \in {"sent", "failed"}

LEMMA LedgerEndWith ==
  ASSUME LedgerInv, NEW q \in Attempts, NEW s, NEW p \in {"sweep", "finish"}, EndWith(q, s, p),
         UNCHANGED dms, lost \subseteq lost', Settling, NoneVanish, Closed(q)
  PROVE  Ledger'
<1> DEFINE a == [att[q] EXCEPT !.pc = p, !.ending = s, !.cur = None, !.reply = None]
<1>1. att[q] \in Attempt BY DEF LedgerInv, OwnInv, TypeInv, TypeOK
<1>2. a.pc = p /\ a.reply = None BY <1>1 DEF Attempt
<1>3. Becomes(q, a) BY DEF EndWith
<1> HIDE DEF a
<1> QED BY <1>2, <1>3, LedgerKept, NoneIsNoAnswer DEF Closed, Loaded

LEMMA LedgerCarry ==
  ASSUME LedgerInv, NEW q \in Attempts, NEW n, Carry(q, n), pc(q) = "sent",
         UNCHANGED dms, lost \subseteq lost', Settling, NoneVanish, Closed(q)
  PROVE  Ledger'
<1> DEFINE a == [att[q] EXCEPT !.pc = "head", !.streak = n, !.cur = None, !.reply = None]
<1>1. att[q] \in Attempt BY DEF LedgerInv, OwnInv, TypeInv, TypeOK
<1>2. a.pc = "head" /\ a.reply = None /\ a.run = att[q].run /\ a.todo = att[q].todo
  BY <1>1 DEF Attempt
<1>3. Becomes(q, a) BY DEF Carry
<1> HIDE DEF a
<1> QED BY <1>2, <1>3, LedgerKept, NoneIsNoAnswer DEF Closed, Loaded

LEMMA LedgerRequests ==
  ASSUME LedgerInv, NEW q \in Attempts, NEW t \in Teachers, NEW d \in Dims,
         BulkSend(q, t, d) \/ ManualSend(q, t, d) \/ ResumeRun(q, t, d)
  PROVE  Ledger'
<1>1. att[q] \in Attempt BY DEF LedgerInv, OwnInv, TypeInv, TypeOK
<1>2. UNCHANGED <<dms, lost>> /\ Settling /\ NoneVanish /\ pc(q) = "idle"
  BY DEF BulkSend, ManualSend, ResumeRun, db, ghost, Settling, NoneVanish
<1>3. ASSUME NEW p \in {"admit", "manualRead"},
             Becomes(q, [att[q] EXCEPT !.pc = p, !.who = t, !.what = d])
      PROVE  Ledger'
  <2> DEFINE a == [att[q] EXCEPT !.pc = p, !.who = t, !.what = d]
  <2>1. a.pc = p /\ a.reply = att[q].reply BY <1>1 DEF Attempt
  <2> HIDE DEF a
  <2>2. Becomes(q, a) BY <1>3 DEF a
  <2> QED BY <1>2, <2>1, <2>2, LedgerStays DEF Loaded
<1>4. ASSUME NEW r \in RunIds,
             Becomes(q, [att[q] EXCEPT !.pc = "resumeAdmit", !.who = t, !.what = d, !.run = r])
      PROVE  Ledger'
  <2> DEFINE a == [att[q] EXCEPT !.pc = "resumeAdmit", !.who = t, !.what = d, !.run = r]
  <2>1. a.pc = "resumeAdmit" /\ a.reply = att[q].reply BY <1>1 DEF Attempt
  <2> HIDE DEF a
  <2>2. Becomes(q, a) BY <1>4 DEF a
  <2> QED BY <1>2, <2>1, <2>2, LedgerStays DEF Loaded
<1> QED BY <1>3, <1>4 DEF BulkSend, ManualSend, ResumeRun, LatestOwnRunByPeriod, Newest

LEMMA LedgerBulkCommit ==
  ASSUME LedgerInv, NEW q \in Attempts, NEW r \in RunIds, NEW S \in SUBSET Contacts,
         BulkCommit(q, r, S)
  PROVE  Ledger'
<1> DEFINE a == [att[q] EXCEPT !.pc = "start", !.run = r, !.stale = {}, !.todo = S]
<1>1. att \in [Attempts -> Attempt] /\ att[q] \in Attempt /\ Sound(att[q])
  BY DEF LedgerInv, OwnInv, TypeInv, TypeOK
<1>2. a.pc = "start" /\ a.run = r /\ a.todo = S /\ a.reply = att[q].reply
  BY <1>1 DEF Attempt
<1>3. /\ att' = [att EXCEPT ![q] = a] /\ UNCHANGED <<dms, lost>> /\ pc(q) = "txwrite"
      /\ runs[r].status = "absent"
  BY <1>1 DEF BulkCommit, Becomes, ghost, Unused
<1> HIDE DEF a
<1>4. att'[q] = a /\ \A p \in Attempts : p # q => att'[p] = att[p] BY <1>1, <1>3
<1>5. att[q].reply \notin Delivered
  BY <1>3, NotSentNoReply DEF LedgerInv, OwnInv
<1>6. \A c \in Contacts : dms[r][c] = 0 BY <1>3 DEF LedgerInv, Ledger, Blank
<1>7. \A c \in S : rows'[r][c] = "queued" BY DEF BulkCommit
<1>8. \A o \in RunIds, c \in Contacts :
        o # r => \/ rows'[o][c] = rows[o][c]
                 \/ rows[o][c] = "queued" /\ rows'[o][c] \in {"sent", "failed"}
  BY DEF BulkCommit, FailQueued, Verdict
<1>9. Accounted'
  <2> SUFFICES ASSUME NEW o \in RunIds, NEW c \in Contacts, <<o, c>> \notin lost
               PROVE  /\ dms[o][c] = 0 \/ dms[o][c] = 1
                      /\ dms[o][c] = 1 => rows'[o][c] \in {"sent", "failed"} \/ InFlight(o, c)'
    BY <1>3 DEF Accounted
  <2>1. dms[o][c] = 0 \/ dms[o][c] = 1 BY DEF LedgerInv, Ledger, Accounted
  <2>2. ASSUME dms[o][c] = 1, rows'[o][c] \notin {"sent", "failed"} PROVE InFlight(o, c)'
    <3>1. o # r BY <1>6, <2>2
    <3>2. InFlight(o, c) BY <1>8, <2>2, <3>1 DEF LedgerInv, Ledger, Accounted
    <3>3. PICK p \in Attempts : att[p].reply \in Delivered /\ att[p].run = o /\ att[p].cur = c
      BY <3>2 DEF InFlight
    <3>4. p # q BY <1>5, <3>3
    <3> QED BY <1>4, <3>3, <3>4 DEF InFlight
  <2> QED BY <2>1, <2>2
<1>10. Fresh'
  <2> SUFFICES ASSUME NEW p \in Attempts
               PROVE  /\ pc(p)' \in Loaded =>
                           \A c \in att'[p].todo :
                             /\ rows'[att'[p].run][c] # "absent"
                             /\ <<att'[p].run, c>> \notin lost => dms[att'[p].run][c] = 0
                      /\ pc(p)' = "sent" => rows'[att'[p].run][att'[p].cur] # "absent"
    BY <1>3 DEF Fresh
  <2>1. CASE p = q
    BY <1>2, <1>4, <1>6, <1>7, <2>1 DEF pc
  <2>2. CASE p # q
    <3>1. Sound(att[p]) /\ att[p] \in Attempt BY <1>1 DEF LedgerInv, OwnInv, TypeInv
    <3>2. pc(p) \in Loaded =>
            /\ att[p].run \in RunIds /\ att[p].todo \subseteq Contacts
            /\ att[p].run # r
      BY <1>3, <3>1
      DEF Loaded, Sound, pc, Resume, Sending, Attempt, LedgerInv, OwnInv, Own, OwnRun
    <3>3. pc(p) = "sent" => att[p].cur \in Contacts /\ pc(p) \in Loaded
      BY <3>1 DEF Sound, pc, Loaded
    <3>4. att'[p] = att[p] BY <1>4, <2>2
    <3> QED BY <1>8, <3>2, <3>3, <3>4 DEF LedgerInv, Ledger, Fresh, pc
  <2> QED BY <2>1, <2>2
<1>11. Blank'
  <2>1. \A o \in RunIds : runs'[o].status = "absent" => runs[o].status = "absent" /\ o # r
    BY DEF BulkCommit, LedgerInv, OwnInv, TypeInv, TypeOK
  <2> QED BY <1>3, <1>8, <2>1 DEF LedgerInv, Ledger, Blank
<1> QED BY <1>9, <1>10, <1>11 DEF Ledger

\* A resume loads queued rows only, and while it holds the teacher's slot no
\* message of its run is in flight.
LEMMA LedgerResumeRead ==
  ASSUME LedgerInv, NEW q \in Attempts, ResumeRead(q)
  PROVE  Ledger'
<1> DEFINE r == att[q].run
           a == [att[q] EXCEPT !.pc = "resumeWrite", !.todo = Queued(r)]
<1>1. att \in [Attempts -> Attempt] /\ att[q] \in Attempt /\ Sound(att[q])
  BY DEF LedgerInv, OwnInv, TypeInv, TypeOK
<1>2. a.pc = "resumeWrite" /\ a.run = r /\ a.todo = Queued(r) /\ a.reply = att[q].reply
  BY <1>1 DEF Attempt
<1>3. /\ att' = [att EXCEPT ![q] = a] /\ pc(q) = "resumeRead"
      /\ UNCHANGED <<runs, rows, dms, lost>>
  BY DEF ResumeRead, Becomes, ghost, db
<1> HIDE DEF a
<1>4. att'[q] = a /\ \A p \in Attempts : p # q => att'[p] = att[p] BY <1>1, <1>3
<1>5. att[q].reply \notin Delivered
  BY <1>3, NotSentNoReply DEF LedgerInv, OwnInv
<1>6. r \in RunIds BY <1>1, <1>3 DEF Sound, pc, Resume
<1>7. \A c \in Contacts : ~InFlight(r, c)
  <2> SUFFICES ASSUME NEW p \in Attempts, att[p].reply \in Delivered, att[p].run = r PROVE FALSE
    BY DEF InFlight
  <2>1. pc(p) = "sent" BY NotSentNoReply DEF LedgerInv, OwnInv
  <2>2. p # q BY <1>3, <2>1
  <2> QED BY <1>3, <2>1, <2>2, RunsApart DEF LedgerInv, Holding, Sending, Resume
<1>8. \A c \in Queued(r) : rows[r][c] # "absent" /\ (<<r, c>> \notin lost => dms[r][c] = 0)
  BY <1>6, <1>7 DEF Queued, LedgerInv, Ledger, Accounted
<1>9. Accounted'
  <2>1. \A o \in RunIds, c \in Contacts : InFlight(o, c) => InFlight(o, c)'
    BY <1>4, <1>5 DEF InFlight
  <2> QED BY <1>3, <2>1 DEF LedgerInv, Ledger, Accounted
<1>10. Fresh'
  BY <1>2, <1>3, <1>4, <1>8 DEF LedgerInv, Ledger, Fresh, pc
<1>11. Blank' BY <1>3 DEF LedgerInv, Ledger, Blank
<1> QED BY <1>9, <1>10, <1>11 DEF Ledger

LEMMA NothingWritten ==
  ASSUME UNCHANGED db
  PROVE  Settling /\ NoneVanish
BY DEF db, Settling, NoneVanish

LEMMA LedgerHandler ==
  ASSUME LedgerInv, NEW q \in Attempts, Handler(q)
  PROVE  Ledger'
<1>1. TypeInv /\ att[q] \in Attempt /\ Sound(att[q]) BY DEF LedgerInv, OwnInv, TypeInv, TypeOK
<1>2. CASE Admit(q)
  BY <1>2, NothingWritten, LedgerGoto DEF Admit, Loaded, ghost
<1>3. CASE Reserve(q)
  BY <1>3, NothingWritten, LedgerGoto DEF Reserve, Loaded, ghost
<1>4. CASE Refuse(q)
  BY <1>4, NothingWritten, LedgerIdle DEF Refuse, ghost
<1>5. CASE BulkRead(q)
  <2> DEFINE S == {r \in LatestRunByPeriod(att[q].what) :
                     runs[r].status # "running" /\ runs[r].teacher # att[q].who}
             p == IF att[q].pc = "txread" THEN "txwrite" ELSE "manualWrite"
             a == [att[q] EXCEPT !.pc = p, !.stale = S]
  <2>1. a.pc = p /\ a.reply = att[q].reply BY <1>1 DEF Attempt
  <2>2. Becomes(q, a) /\ pc(q) # "sent" BY <1>5 DEF BulkRead
  <2>3. p \notin Loaded /\ p # "sent" BY DEF Loaded
  <2>4. UNCHANGED <<dms, lost>> /\ Settling /\ NoneVanish
    BY <1>5, NothingWritten DEF BulkRead, ghost
  <2> HIDE DEF a, p
  <2> QED BY <2>1, <2>2, <2>3, <2>4, LedgerStays
<1>6. CASE BulkCommitManual(q)
  <2>1. Settling
    BY <1>1, <1>6 DEF BulkCommitManual, FailQueued, Verdict, Settling, TypeInv, TypeOK
  <2>2. NoneVanish BY <1>6 DEF BulkCommitManual, NoneVanish
  <2> QED BY <1>6, <2>1, <2>2, LedgerEndRequest DEF BulkCommitManual, ghost
<1>7. CASE ResumeRead(q) BY <1>7, LedgerResumeRead
<1>8. ASSUME NEW F \in SUBSET Contacts, ResumeCommit(q, F)
      PROVE  Ledger'
  <2> DEFINE r == att[q].run
             items == att[q].todo \ F
  <2>1. r \in RunIds /\ runs[r].status # "absent" /\ pc(q) = "resumeWrite"
    BY <1>1, <1>8 DEF ResumeCommit, LedgerInv, OwnInv, Own, OwnRun, Sound, pc, Resume
  <2>2. Settling BY <1>1, <1>8, <2>1, VerdictSettles DEF ResumeCommit
  <2>3. NoneVanish BY <1>1, <1>8, <2>1 DEF ResumeCommit, NoneVanish, TypeInv, TypeOK
  <2>4. CASE items = {}
    BY <1>8, <2>1, <2>2, <2>3, <2>4, LedgerLeave DEF ResumeCommit, ghost
  <2>5. CASE items # {}
    <3> DEFINE a == [att[q] EXCEPT !.pc = "start", !.todo = items]
    <3>1. a.pc = "start" /\ a.run = r /\ a.todo = items /\ a.reply = att[q].reply
      BY <1>1 DEF Attempt
    <3>2. Becomes(q, a) /\ UNCHANGED <<dms, lost>> BY <1>8, <2>5 DEF ResumeCommit, ghost
    <3> HIDE DEF a
    <3> QED BY <2>1, <2>2, <2>3, <3>1, <3>2, LedgerStays DEF Loaded
  <2> QED BY <2>4, <2>5
<1>9. CASE Rollback(q)
  BY <1>9, NothingWritten, LedgerEndRequest DEF Rollback, Manual, ghost
<1>10. CASE Release(q)
  BY <1>10, NothingWritten, LedgerIdle DEF Release, ghost
<1>11. CASE Start(q)
  BY <1>11, NothingWritten, LedgerGoto DEF Start, Loaded, ghost
<1> QED
  BY <1>2, <1>3, <1>4, <1>5, <1>6, <1>7, <1>8, <1>9, <1>10, <1>11, LedgerBulkCommit DEF Handler

LEMMA LedgerSendDM ==
  ASSUME LedgerInv, NEW q \in Attempts, NEW c \in Contacts, NEW answer \in Answers,
         SendDM(q, c, answer)
  PROVE  Ledger'
<1> DEFINE r == att[q].run
           a == [att[q] EXCEPT !.pc = "sent", !.todo = att[q].todo \ {c}, !.cur = c,
                               !.reply = answer]
<1>1. att \in [Attempts -> Attempt] /\ att[q] \in Attempt /\ Sound(att[q])
  BY DEF LedgerInv, OwnInv, TypeInv, TypeOK
<1>2. a.pc = "sent" /\ a.run = r /\ a.todo = att[q].todo \ {c} /\ a.cur = c /\ a.reply = answer
  BY <1>1 DEF Attempt
<1>3. /\ att' = [att EXCEPT ![q] = a] /\ pc(q) = "head" /\ c \in att[q].todo
      /\ UNCHANGED <<runs, rows, lost>>
      /\ dms' = IF answer \in Delivered THEN [dms EXCEPT ![r][c] = OneMore(@)] ELSE dms
  BY DEF SendDM, Becomes, db
<1> HIDE DEF a
<1>4. att'[q] = a /\ \A p \in Attempts : p # q => att'[p] = att[p] BY <1>1, <1>3
<1>5. att[q].reply \notin Delivered
  BY <1>3, NotSentNoReply DEF LedgerInv, OwnInv
<1>6. r \in RunIds /\ runs[r].status = "running"
  BY <1>1, <1>3 DEF Sound, pc, Sending, LedgerInv, OwnInv, Own, OwnRun
<1>7. rows[r][c] # "absent" /\ (<<r, c>> \notin lost => dms[r][c] = 0)
  BY <1>3 DEF LedgerInv, Ledger, Fresh, Loaded
<1>8. \A o \in RunIds, k \in Contacts : o # r \/ k # c => dms'[o][k] = dms[o][k]
  BY <1>3 DEF LedgerInv, OwnInv, TypeInv, TypeOK
<1>9. dms'[r][c] = IF answer \in Delivered THEN OneMore(dms[r][c]) ELSE dms[r][c]
  BY <1>3, <1>6 DEF LedgerInv, OwnInv, TypeInv, TypeOK
<1>10. Accounted'
  <2>1. \A o \in RunIds, k \in Contacts : InFlight(o, k) => InFlight(o, k)'
    BY <1>4, <1>5 DEF InFlight
  <2> SUFFICES ASSUME NEW o \in RunIds, NEW k \in Contacts, <<o, k>> \notin lost
               PROVE  /\ dms'[o][k] = 0 \/ dms'[o][k] = 1
                      /\ dms'[o][k] = 1 => rows[o][k] \in {"sent", "failed"} \/ InFlight(o, k)'
    BY <1>3 DEF Accounted
  <2>2. CASE o # r \/ k # c
    BY <1>8, <2>1, <2>2 DEF LedgerInv, Ledger, Accounted
  <2>3. CASE o = r /\ k = c
    <3>1. dms[r][c] = 0 BY <1>7, <2>3
    <3>2. answer \in Delivered => dms'[r][c] = 1 BY <1>9, <3>1 DEF OneMore
    <3>3. answer \notin Delivered => dms'[r][c] = 0 BY <1>9, <3>1
    <3>4. answer \in Delivered => InFlight(o, k)' BY <1>2, <1>4, <2>3 DEF InFlight
    <3> QED BY <2>3, <3>2, <3>3, <3>4
  <2> QED BY <2>2, <2>3
<1>11. Fresh'
  <2> SUFFICES ASSUME NEW p \in Attempts
               PROVE  /\ pc(p)' \in Loaded =>
                           \A k \in att'[p].todo :
                             /\ rows[att'[p].run][k] # "absent"
                             /\ <<att'[p].run, k>> \notin lost => dms'[att'[p].run][k] = 0
                      /\ pc(p)' = "sent" => rows[att'[p].run][att'[p].cur] # "absent"
    BY <1>3 DEF Fresh
  <2>1. Sound(att[p]) /\ att[p] \in Attempt BY <1>1 DEF LedgerInv, OwnInv, TypeInv
  <2>2. pc(p) \in Loaded => att[p].run \in RunIds /\ att[p].todo \subseteq Contacts
    BY <2>1 DEF Loaded, Sound, pc, Resume, Sending, Attempt
  <2>3. CASE p = q
    BY <1>2, <1>3, <1>4, <1>7, <1>8, <2>2, <2>3 DEF LedgerInv, Ledger, Fresh, pc, Loaded
  <2>4. CASE p # q
    <3>1. att'[p] = att[p] BY <1>4, <2>4
    <3>2. pc(p) \in Loaded => att[p].run # r
      BY <1>3, <2>4, RunsApart DEF LedgerInv, Loaded, Holding, Sending, Resume
    <3> QED BY <1>8, <2>2, <3>1, <3>2 DEF LedgerInv, Ledger, Fresh, pc
  <2> QED BY <2>3, <2>4
<1>12. Blank' BY <1>3, <1>6, <1>8 DEF LedgerInv, Ledger, Blank
<1> QED BY <1>10, <1>11, <1>12 DEF Ledger

\* The outcome of the message in flight is written, or known to be lost.
LEMMA MarkOutcomeCloses ==
  ASSUME LedgerInv, NEW q \in Attempts, NEW v \in {"sent", "failed"}, MarkOutcome(q, v),
         pc(q) = "sent"
  PROVE  lost \subseteq lost' /\ Settling /\ Closed(q)
<1>1. att[q].run \in RunIds /\ att[q].cur \in Contacts
  BY DEF LedgerInv, OwnInv, TypeInv, Sound, pc, Sending
<1>2. CASE rows' = [rows EXCEPT ![att[q].run] = Verdict(@, {att[q].cur}, v)] /\ UNCHANGED lost
  <2>1. Settling BY <1>1, <1>2, VerdictSettles DEF LedgerInv, OwnInv
  <2>2. rows[att[q].run][att[q].cur] # "absent" BY DEF LedgerInv, Ledger, Fresh
  <2>3. rows'[att[q].run][att[q].cur] \in {"sent", "failed"}
    BY <1>1, <1>2, <2>2 DEF Verdict, LedgerInv, OwnInv, TypeInv, TypeOK, RowStatus
  <2> QED BY <1>2, <2>1, <2>3 DEF Closed
<1>3. CASE Lose(q) /\ UNCHANGED rows
  BY <1>3, UnchangedSettles DEF Lose, Unrecorded, Closed
<1> QED BY <1>2, <1>3 DEF MarkOutcome

LEMMA LedgerGoroutine ==
  ASSUME LedgerInv, NEW q \in Attempts, Goroutine(q)
  PROVE  Ledger'
<1>1. TypeInv /\ att[q] \in Attempt /\ Sound(att[q]) BY DEF LedgerInv, OwnInv, TypeInv, TypeOK
<1>2. pc(q) # "sent" => att[q].reply \notin Delivered BY <1>1, NotSentNoReply
<1>3. CASE Exhausted(q)
  BY <1>2, <1>3, NothingWritten, LedgerEndWith DEF Exhausted, Closed, ghost
<1>4. CASE CutShort(q)
  BY <1>4, NothingWritten, LedgerLeave DEF CutShort, ghost
<1>5. CASE Revoked(q)
  BY <1>2, <1>5, NothingWritten, LedgerEndWith DEF Revoked, Closed, ghost
<1>6. CASE Aborted(q)
  <2> DEFINE a == [Idle EXCEPT !.pc = "exit", !.who = att[q].who]
  <2>1. a.pc = "exit" /\ a.reply = None BY DEF Idle
  <2>2. Becomes(q, a) /\ UNCHANGED dms /\ Settling /\ NoneVanish
    BY <1>6, NothingWritten DEF Aborted, Leave
  <2>3. lost \subseteq lost' /\ (att[q].reply \in Delivered => <<att[q].run, att[q].cur>> \in lost')
    BY <1>6 DEF Aborted, Lose, Unrecorded
  <2> HIDE DEF a
  <2> QED BY <2>1, <2>2, <2>3, LedgerKept, NoneIsNoAnswer DEF Loaded
<1>7. CASE Expired(q)
  <2>1. att[q].reply \notin Delivered BY <1>7 DEF Expired, Delivered
  <2> QED BY <1>7, <2>1, NothingWritten, LedgerEndWith DEF Expired, Closed, ghost
<1>8. CASE RecordSent(q)
  BY <1>8, MarkOutcomeCloses, LedgerCarry DEF RecordSent, NoneVanish
<1>9. CASE RecordFailed(q)
  BY <1>9, MarkOutcomeCloses, LedgerCarry, LedgerEndWith DEF RecordFailed, NoneVanish
<1>10. CASE FailQueuedInRun(q)
  <2>1. att[q].run \in RunIds BY <1>1, <1>10 DEF FailQueuedInRun, pc, Sound, Sending
  <2>2. Settling
    BY <1>1, <1>10, <2>1, FailQueuedSettles, UnchangedSettles DEF FailQueuedInRun
  <2> QED BY <1>10, <2>2, LedgerGoto DEF FailQueuedInRun, Loaded, NoneVanish, ghost
<1>11. CASE FinishRun(q)
  <2>1. att[q].run \in RunIds /\ att[q].ending \in Endings
    BY <1>1, <1>11 DEF FinishRun, pc, Sound, Sending
  <2>2. NoneVanish
    <3>1. att[q].ending # "absent" BY <2>1 DEF Endings
    <3> QED BY <1>1, <1>11, <2>1, <3>1 DEF FinishRun, NoneVanish, TypeInv, TypeOK
  <2> QED BY <1>11, <2>2, UnchangedSettles, LedgerLeave DEF FinishRun, ghost
<1> QED
  BY <1>3, <1>4, <1>5, <1>6, <1>7, <1>8, <1>9, <1>10, <1>11, LedgerSendDM DEF Goroutine

LEMMA LedgerProcess ==
  ASSUME LedgerInv,
         \/ \E r \in RunIds, c \in Contacts : MarkSent(r, c)
         \/ CancelAll \/ CloseManager \/ CloseReturns \/ Exit \/ Crash \/ Boot
  PROVE  Ledger'
<1>1. TypeInv BY DEF LedgerInv, OwnInv
<1>2. ASSUME UNCHANGED <<att, dms, lost>>, Settling, NoneVanish
      PROVE  Ledger'
  <2>1. \A r \in RunIds, c \in Contacts : InFlight(r, c) => InFlight(r, c)'
    BY <1>2 DEF InFlight
  <2>2. Accounted' BY <1>2, <2>1 DEF LedgerInv, Ledger, Accounted, Settling
  <2>3. Fresh'
    <3> SUFFICES ASSUME NEW p \in Attempts
                 PROVE  /\ pc(p) \in Loaded =>
                             \A c \in att[p].todo :
                               /\ rows'[att[p].run][c] # "absent"
                               /\ <<att[p].run, c>> \notin lost => dms[att[p].run][c] = 0
                        /\ pc(p) = "sent" => rows'[att[p].run][att[p].cur] # "absent"
      BY <1>2 DEF Fresh, pc
    <3>1. Sound(att[p]) /\ att[p] \in Attempt BY <1>1 DEF TypeInv, TypeOK
    <3>2. pc(p) \in Loaded => att[p].run \in RunIds /\ att[p].todo \subseteq Contacts
      BY <3>1 DEF Loaded, Sound, pc, Resume, Sending, Attempt
    <3>3. pc(p) = "sent" => att[p].cur \in Contacts /\ att[p].run \in RunIds
      BY <3>1 DEF Sound, pc, Sending
    <3> QED BY <1>2, <3>2, <3>3 DEF LedgerInv, Ledger, Fresh, Settling
  <2>4. Blank' BY <1>2 DEF LedgerInv, Ledger, Blank, NoneVanish, Settling
  <2> QED BY <2>2, <2>3, <2>4 DEF Ledger
<1>3. ASSUME NEW r \in RunIds, NEW c \in Contacts, MarkSent(r, c)
      PROVE  Ledger'
  BY <1>1, <1>2, <1>3, VerdictSettles DEF MarkSent, NoneVanish, ghost
<1>4. CASE CancelAll \/ CloseManager \/ CloseReturns
  BY <1>2, <1>4, NothingWritten DEF CancelAll, CloseManager, CloseReturns, ghost
<1>5. CASE Exit \/ Crash
  <2>1. Die BY <1>5 DEF Exit, Crash
  <2>2. \A q \in Attempts : pc(q)' = "idle" BY <2>1 DEF Die, pc, Idle
  <2>3. UNCHANGED <<runs, rows, dms>> /\ lost \subseteq lost' BY <2>1 DEF Die, db
  <2>4. \A r \in RunIds, c \in Contacts : InFlight(r, c) => <<r, c>> \in lost'
    BY <2>1 DEF Die, InFlight, Unrecorded
  <2>5. Accounted' BY <2>3, <2>4 DEF LedgerInv, Ledger, Accounted
  <2>6. Fresh' BY <2>2 DEF Fresh, Loaded
  <2>7. Blank' BY <2>3 DEF LedgerInv, Ledger, Blank
  <2> QED BY <2>5, <2>6, <2>7 DEF Ledger
<1>6. CASE Boot
  <2>1. NoneVanish BY <1>1, <1>6 DEF Boot, NoneVanish, TypeInv, TypeOK
  <2> QED BY <1>2, <1>6, <2>1, UnchangedSettles DEF Boot, ghost
<1> QED BY <1>3, <1>4, <1>5, <1>6

LEMMA LedgerInit == Init => LedgerInv
<1> SUFFICES ASSUME Init PROVE LedgerInv OBVIOUS
<1>1. \A q \in Attempts : pc(q) = "idle" BY DEF Init, pc, Idle
<1>2. \A r \in RunIds, c \in Contacts : dms[r][c] = 0 /\ rows[r][c] = "absent" BY DEF Init
<1>3. Ledger BY <1>1, <1>2 DEF Ledger, Accounted, Fresh, Blank, Loaded
<1> QED BY <1>3, OwnInit DEF LedgerInv

LEMMA LedgerNext == LedgerInv /\ [Next]_vars => LedgerInv'
<1> SUFFICES ASSUME LedgerInv, [Next]_vars PROVE LedgerInv' OBVIOUS
<1>1. OwnInv' BY OwnNext DEF LedgerInv
<1>2. ASSUME UNCHANGED vars PROVE Ledger'
  <2>1. UNCHANGED <<runs, rows, att, dms, lost>> BY <1>2 DEF vars, db, ghost
  <2> QED BY <2>1 DEF LedgerInv, Ledger, Accounted, Fresh, Blank, InFlight, pc
<1>3. ASSUME Next PROVE Ledger'
  BY <1>3, LedgerRequests, LedgerHandler, LedgerGoroutine, LedgerProcess DEF Next
<1>4. Ledger' BY <1>2, <1>3
<1> QED BY <1>1, <1>4 DEF LedgerInv

\* A second message to a contact within one run needs a lost outcome: a process
\* that died or shut down during the send, or a failed write of the outcome.
THEOREM AtMostOnce == Spec => []AtMostOnceUnlessLost
<1>1. LedgerInv => AtMostOnceUnlessLost
  BY DEF LedgerInv, Ledger, Accounted, AtMostOnceUnlessLost
<1> QED BY <1>1, LedgerInit, LedgerNext, PTL DEF Spec

LEMMA VerdictsKept ==
  ASSUME LedgerInv, Next, NEW r \in RunIds, NEW c \in Contacts, rows[r][c] \in {"sent", "failed"}
  PROVE  rows'[r][c] = rows[r][c]
<1>1. TypeInv BY DEF LedgerInv, OwnInv
<1>2. CASE UNCHANGED rows BY <1>2
<1>3. CASE Settling BY <1>3 DEF Settling
<1>4. ASSUME NEW q \in Attempts, Handler(q)
      PROVE  rows'[r][c] = rows[r][c]
  <2>1. Sound(att[q]) BY <1>1 DEF TypeInv
  <2>2. CASE BulkCommitManual(q)
    BY <1>1, <2>2 DEF BulkCommitManual, FailQueued, Verdict, TypeInv, TypeOK
  <2>3. ASSUME NEW n \in RunIds, NEW S \in SUBSET Contacts, BulkCommit(q, n, S)
        PROVE  rows'[r][c] = rows[r][c]
    <3>1. r # n BY <2>3 DEF BulkCommit, Unused, LedgerInv, Ledger, Blank
    <3> QED BY <2>3, <3>1 DEF BulkCommit, FailQueued, Verdict
  <2>4. ASSUME NEW F \in SUBSET Contacts, ResumeCommit(q, F)
        PROVE  rows'[r][c] = rows[r][c]
    <3>1. att[q].run \in RunIds BY <2>1, <2>4 DEF ResumeCommit, pc, Sound, Resume
    <3> QED BY <1>1, <1>3, <2>4, <3>1, VerdictSettles DEF ResumeCommit
  <2>5. CASE \/ Admit(q) \/ Reserve(q) \/ Refuse(q) \/ BulkRead(q) \/ ResumeRead(q)
             \/ Rollback(q) \/ Release(q) \/ Start(q)
    BY <1>2, <2>5 DEF Admit, Reserve, Refuse, BulkRead, ResumeRead, Rollback, Release, Start, db
  <2> QED BY <1>4, <2>2, <2>3, <2>4, <2>5 DEF Handler
<1>5. ASSUME NEW q \in Attempts, Goroutine(q)
      PROVE  rows'[r][c] = rows[r][c]
  <2>1. Sound(att[q]) BY <1>1 DEF TypeInv
  <2>2. CASE RecordSent(q) \/ RecordFailed(q)
    BY <1>3, <2>2, MarkOutcomeCloses DEF RecordSent, RecordFailed
  <2>3. CASE FailQueuedInRun(q)
    <3>1. att[q].run \in RunIds BY <2>1, <2>3 DEF FailQueuedInRun, pc, Sound, Sending
    <3> QED BY <1>1, <1>2, <1>3, <2>3, <3>1, FailQueuedSettles DEF FailQueuedInRun
  <2>4. ASSUME NEW k \in Contacts, NEW answer \in Answers, SendDM(q, k, answer)
        PROVE  rows'[r][c] = rows[r][c]
    BY <1>2, <2>4 DEF SendDM, db
  <2>5. CASE \/ Exhausted(q) \/ CutShort(q) \/ Revoked(q) \/ Aborted(q) \/ Expired(q)
             \/ FinishRun(q)
    BY <1>2, <2>5 DEF Exhausted, CutShort, Revoked, Aborted, Expired, FinishRun, db
  <2> QED BY <1>5, <2>2, <2>3, <2>4, <2>5 DEF Goroutine
<1>6. ASSUME NEW o \in RunIds, NEW k \in Contacts, MarkSent(o, k)
      PROVE  rows'[r][c] = rows[r][c]
  BY <1>1, <1>3, <1>6, VerdictSettles DEF MarkSent
<1>7. ASSUME NEW q \in Attempts, NEW t \in Teachers, NEW d \in Dims,
             BulkSend(q, t, d) \/ ManualSend(q, t, d) \/ ResumeRun(q, t, d)
      PROVE  rows'[r][c] = rows[r][c]
  BY <1>2, <1>7 DEF BulkSend, ManualSend, ResumeRun, db
<1>8. CASE CancelAll \/ CloseManager \/ CloseReturns \/ Exit \/ Crash \/ Boot
  BY <1>2, <1>8 DEF CancelAll, CloseManager, CloseReturns, Exit, Crash, Die, Boot, db
<1> QED BY <1>4, <1>5, <1>6, <1>7, <1>8 DEF Next

\* A verdict is final: a row leaves "queued" once and for all, whoever writes.
THEOREM VerdictsAreFinal == Spec => VerdictIsFinal
<1>1. LedgerInv /\ [Next]_vars =>
        [\A r \in RunIds, c \in Contacts :
           rows[r][c] \in {"sent", "failed"} => rows'[r][c] = rows[r][c]]_rows
  <2> SUFFICES ASSUME LedgerInv, [Next]_vars, rows' # rows, NEW r \in RunIds, NEW c \in Contacts,
                      rows[r][c] \in {"sent", "failed"}
               PROVE  rows'[r][c] = rows[r][c]
    OBVIOUS
  <2>1. Next BY DEF vars, db
  <2> QED BY <2>1, VerdictsKept
<1> QED BY <1>1, LedgerInit, LedgerNext, PTL DEF Spec, VerdictIsFinal

-----------------------------------------------------------------------------
\* After Close.

\* No slot is taken once Close has returned.
Vacant == phase = "closed" => \A t \in Teachers : slot[t] = None
VacantInv == OwnInv /\ Vacant

LEMMA VacantNext == VacantInv /\ [Next]_vars => VacantInv'
<1> SUFFICES ASSUME VacantInv, [Next]_vars PROVE VacantInv' OBVIOUS
<1>1. OwnInv' BY OwnNext DEF VacantInv
<1>2. ASSUME UNCHANGED <<slot, phase>> PROVE Vacant' BY <1>2 DEF VacantInv, Vacant
<1>3. ASSUME phase' # "closed" PROVE Vacant' BY <1>3 DEF Vacant
<1>4. ASSUME UNCHANGED vars PROVE Vacant' BY <1>2, <1>4 DEF vars, proc
<1>5. ASSUME NEW q \in Attempts, Handler(q) PROVE Vacant'
  <2>1. CASE Reserve(q) BY <1>3, <2>1 DEF Reserve, proc
  <2>2. CASE Release(q)
    BY <2>2 DEF Release, proc, VacantInv, Vacant, OwnInv, TypeInv, TypeOK
  <2>3. CASE UNCHANGED <<slot, proc>> BY <1>2, <2>3 DEF proc
  <2> QED
    BY <1>5, <2>1, <2>2, <2>3 DEF Handler, Admit, Refuse, BulkRead, BulkCommit, BulkCommitManual,
       ResumeRead, ResumeCommit, Rollback, Start
<1>6. ASSUME NEW q \in Attempts, Goroutine(q) PROVE Vacant'
  BY <1>2, <1>6 DEF Goroutine, Exhausted, CutShort, Revoked, SendDM, Aborted, Expired, RecordSent,
     RecordFailed, FailQueuedInRun, FinishRun, proc
<1>7. ASSUME NEW q \in Attempts, NEW t \in Teachers, NEW d \in Dims,
             BulkSend(q, t, d) \/ ManualSend(q, t, d) \/ ResumeRun(q, t, d)
      PROVE  Vacant'
  BY <1>2, <1>7 DEF BulkSend, ManualSend, ResumeRun, proc
<1>8. ASSUME NEW r \in RunIds, NEW c \in Contacts, MarkSent(r, c) PROVE Vacant'
  BY <1>2, <1>8 DEF MarkSent, proc
<1>9. ASSUME CloseReturns PROVE Vacant' BY <1>9 DEF CloseReturns, Vacant
<1>10. ASSUME CancelAll \/ CloseManager \/ Exit \/ Crash \/ Boot PROVE Vacant'
  BY <1>3, <1>10 DEF CancelAll, CloseManager, Exit, Crash, Die, Boot
<1>11. Vacant' BY <1>4, <1>5, <1>6, <1>7, <1>8, <1>9, <1>10 DEF Next
<1> QED BY <1>1, <1>11 DEF VacantInv

LEMMA QuietStep ==
  ASSUME VacantInv, Next, phase = "closed"
  PROVE  UNCHANGED <<runs, dms>>
<1>1. \A q \in Attempts : pc(q) \notin Holding
  <2> SUFFICES ASSUME NEW q \in Attempts, pc(q) \in Holding PROVE FALSE OBVIOUS
  <2>1. att[q].who \in Teachers
    BY DEF VacantInv, OwnInv, TypeInv, Sound, pc, Holding, Sending
  <2>2. slot[att[q].who] = q BY DEF VacantInv, OwnInv, Own, Held
  <2> QED BY <2>1, <2>2, NoneIsNoValue DEF VacantInv, Vacant
<1>2. ASSUME NEW q \in Attempts, Handler(q) PROVE UNCHANGED <<runs, dms>>
  BY <1>1, <1>2 DEF Handler, Admit, Reserve, Refuse, BulkRead, BulkCommit, BulkCommitManual,
     ResumeRead, ResumeCommit, Rollback, Release, Start, Holding, db, ghost
<1>3. ASSUME NEW q \in Attempts, Goroutine(q) PROVE UNCHANGED <<runs, dms>>
  BY <1>1, <1>3 DEF Goroutine, Exhausted, CutShort, Revoked, SendDM, Aborted, Expired, RecordSent,
     RecordFailed, FailQueuedInRun, FinishRun, Holding, Sending, db, ghost
<1>4. ASSUME NEW q \in Attempts, NEW t \in Teachers, NEW d \in Dims,
             BulkSend(q, t, d) \/ ManualSend(q, t, d) \/ ResumeRun(q, t, d)
      PROVE  UNCHANGED <<runs, dms>>
  BY <1>4 DEF BulkSend, ManualSend, ResumeRun, db, ghost
<1>5. ASSUME NEW r \in RunIds, NEW c \in Contacts, MarkSent(r, c) PROVE UNCHANGED <<runs, dms>>
  BY <1>5 DEF MarkSent, ghost
<1>6. CASE CancelAll \/ CloseManager \/ CloseReturns \/ Exit \/ Crash \/ Boot
  BY <1>6 DEF CancelAll, CloseManager, CloseReturns, Exit, Crash, Die, Boot, db, ghost
<1> QED BY <1>2, <1>3, <1>4, <1>5, <1>6 DEF Next

\* Once Close has returned nothing of the process messages anyone or writes a
\* run, though requests may still be on their way.
THEOREM QuietOnceClosed == Spec => QuietAfterClose
<1>1. Init => VacantInv BY OwnInit DEF Init, VacantInv, Vacant
<1>2. VacantInv /\ [Next]_vars => [phase = "closed" => UNCHANGED <<runs, dms>>]_vars
  BY QuietStep
<1> QED BY <1>1, <1>2, VacantNext, PTL DEF Spec, QuietAfterClose

-----------------------------------------------------------------------------
(* Runs that run and runs that ended, when no write of a goroutine fails.  *)

\* A step of q that leaves no run without a sender.
LEMMA SenderKept ==
  ASSUME TypeInv, RunningHasSender, NEW q \in Attempts, NEW a, Becomes(q, a), UNCHANGED phase,
         \A r \in RunIds : runs'[r].status = "running" =>
           runs[r].status = "running" \/ (a.pc \in Sending /\ a.run = r),
         pc(q) \in Sending => \/ a.pc \in Sending /\ a.run = att[q].run
                              \/ runs'[att[q].run].status # "running"
                              \/ phase # "up"
  PROVE  RunningHasSender'
<1>1. att'[q] = a /\ \A p \in Attempts : p # q => att'[p] = att[p]
  BY DEF Becomes, TypeInv, TypeOK
<1> SUFFICES ASSUME phase = "up", NEW r \in RunIds, runs'[r].status = "running"
             PROVE  \E p \in Attempts : att'[p].pc \in Sending /\ att'[p].run = r
  BY DEF RunningHasSender, pc
<1>2. CASE a.pc \in Sending /\ a.run = r
  BY <1>1, <1>2
<1>3. CASE runs[r].status = "running"
  <2>1. PICK p \in Attempts : pc(p) \in Sending /\ att[p].run = r
    BY <1>3 DEF RunningHasSender
  <2>2. CASE p # q
    BY <1>1, <2>1, <2>2 DEF pc
  <2>3. CASE p = q
    BY <1>1, <2>1, <2>3
  <2> QED BY <2>2, <2>3
<1> QED BY <1>2, <1>3

\* A step that writes no run and leaves q with the run it sends.
LEMMA SenderStays ==
  ASSUME TypeInv, RunningHasSender, NEW q \in Attempts, NEW a, Becomes(q, a), UNCHANGED <<runs, phase>>,
         pc(q) \in Sending => (a.pc \in Sending /\ a.run = att[q].run) \/ phase # "up"
  PROVE  RunningHasSender'
BY SenderKept

LEMMA SenderHandler ==
  ASSUME OwnInv, RunningHasSender, NEW q \in Attempts, Handler(q)
  PROVE  RunningHasSender'
<1>1. TypeInv /\ att[q] \in Attempt BY DEF OwnInv, TypeInv, TypeOK
<1>2. CASE Admit(q) \/ Reserve(q) \/ Refuse(q) \/ BulkRead(q) \/ BulkCommitManual(q)
           \/ ResumeRead(q) \/ Rollback(q) \/ Release(q)
  <2>1. pc(q) \notin Sending
    BY <1>2 DEF Admit, Reserve, Refuse, BulkRead, BulkCommitManual, ResumeRead, Rollback, Release,
                Manual, Sending
  <2>2. UNCHANGED <<runs, phase>>
    BY <1>2 DEF Admit, Reserve, Refuse, BulkRead, BulkCommitManual, ResumeRead, Rollback, Release,
                db, proc
  <2>3. \E a : Becomes(q, a)
    BY <1>2 DEF Admit, Reserve, Refuse, BulkRead, BulkCommitManual, ResumeRead, Rollback, Release,
                Goto, EndRequest, Leave
  <2> QED BY <1>1, <2>1, <2>2, <2>3, SenderStays
<1>3. ASSUME NEW r \in RunIds, NEW S \in SUBSET Contacts, BulkCommit(q, r, S)
      PROVE  RunningHasSender'
  <2> DEFINE a == [att[q] EXCEPT !.pc = "start", !.run = r, !.stale = {}, !.todo = S]
  <2>1. a.pc = "start" /\ a.run = r BY <1>1 DEF Attempt
  <2>2. a.pc \in Sending /\ pc(q) \notin Sending BY <1>3, <2>1 DEF BulkCommit, Sending
  <2>3. \A o \in RunIds : o # r => runs'[o] = runs[o]
    BY <1>1, <1>3 DEF BulkCommit, TypeInv, TypeOK
  <2>4. Becomes(q, a) /\ UNCHANGED phase BY <1>3 DEF BulkCommit, proc
  <2> HIDE DEF a
  <2> QED BY <1>1, <2>1, <2>2, <2>3, <2>4, SenderKept
<1>4. ASSUME NEW F \in SUBSET Contacts, ResumeCommit(q, F)
      PROVE  RunningHasSender'
  <2> DEFINE r == att[q].run
             S == att[q].todo \ F
             a == [att[q] EXCEPT !.pc = "start", !.todo = S]
  <2>1. pc(q) = "resumeWrite" /\ r \in RunIds /\ UNCHANGED phase
    BY <1>1, <1>4 DEF ResumeCommit, TypeInv, Sound, Resume, pc, proc
  <2>2. pc(q) \notin Sending BY <2>1 DEF Sending
  <2>3. runs' = [runs EXCEPT ![r].status = IF S = {} THEN "completed" ELSE "running"]
    BY <1>4 DEF ResumeCommit
  <2>4. /\ \A o \in RunIds : o # r => runs'[o] = runs[o]
        /\ S = {} => runs'[r].status = "completed"
    BY <1>1, <2>1, <2>3 DEF TypeInv, TypeOK
  <2>5. CASE S = {}
    <3>1. \E b : Becomes(q, b) BY <1>4, <2>5 DEF ResumeCommit, Leave
    <3> QED BY <1>1, <2>1, <2>2, <2>4, <2>5, <3>1, SenderKept
  <2>6. CASE S # {}
    <3>1. Becomes(q, a) BY <1>4, <2>6 DEF ResumeCommit
    <3>2. a.pc = "start" /\ a.run = r BY <1>1 DEF Attempt
    <3>3. a.pc \in Sending BY <3>2 DEF Sending
    <3> HIDE DEF a, S
    <3> QED BY <1>1, <2>1, <2>2, <2>4, <3>1, <3>2, <3>3, SenderKept
  <2> QED BY <2>5, <2>6
<1>5. CASE Start(q)
  <2> DEFINE a == [att[q] EXCEPT !.pc = "head"]
  <2>1. Becomes(q, a) /\ UNCHANGED <<runs, phase>> BY <1>5 DEF Start, Goto, db, proc
  <2>2. a.pc \in Sending /\ a.run = att[q].run BY <1>1 DEF Attempt, Sending
  <2> HIDE DEF a
  <2> QED BY <1>1, <2>1, <2>2, SenderStays
<1> QED BY <1>2, <1>3, <1>4, <1>5 DEF Handler

LEMMA SenderGoroutine ==
  ASSUME WriteFaults = FALSE, OwnInv, RunningHasSender, NEW q \in Attempts, Goroutine(q)
  PROVE  RunningHasSender'
<1>1. TypeInv /\ att[q] \in Attempt BY DEF OwnInv, TypeInv, TypeOK
<1>2. ASSUME NEW s, NEW p \in {"sweep", "finish"}, EndWith(q, s, p), UNCHANGED <<runs, phase>>
      PROVE  RunningHasSender'
  <2> DEFINE a == [att[q] EXCEPT !.pc = p, !.ending = s, !.cur = None, !.reply = None]
  <2>1. a.pc \in Sending /\ a.run = att[q].run BY <1>1 DEF Attempt, Sending
  <2>2. Becomes(q, a) BY <1>2 DEF EndWith
  <2> HIDE DEF a
  <2> QED BY <1>1, <1>2, <2>1, <2>2, SenderStays
<1>3. ASSUME NEW n, Carry(q, n), UNCHANGED <<runs, phase>>
      PROVE  RunningHasSender'
  <2> DEFINE a == [att[q] EXCEPT !.pc = "head", !.streak = n, !.cur = None, !.reply = None]
  <2>1. a.pc \in Sending /\ a.run = att[q].run BY <1>1 DEF Attempt, Sending
  <2>2. Becomes(q, a) BY <1>3 DEF Carry
  <2> HIDE DEF a
  <2> QED BY <1>1, <1>3, <2>1, <2>2, SenderStays
<1>4. CASE Exhausted(q) \/ Revoked(q) \/ Expired(q)
  BY <1>2, <1>4 DEF Exhausted, Revoked, Expired, db, proc
<1>5. CASE CutShort(q) \/ Aborted(q)
  <2>1. UNCHANGED <<runs, phase>> /\ phase # "up" /\ \E a : Becomes(q, a)
    BY <1>5 DEF CutShort, Aborted, Cancelled, Leave, db, proc
  <2> QED BY <1>1, <2>1, SenderStays
<1>6. ASSUME NEW c \in Contacts, NEW answer \in Answers, SendDM(q, c, answer)
      PROVE  RunningHasSender'
  <2> DEFINE a == [att[q] EXCEPT !.pc = "sent", !.todo = @ \ {c}, !.cur = c, !.reply = answer]
  <2>1. a.pc \in Sending /\ a.run = att[q].run BY <1>1 DEF Attempt, Sending
  <2>2. Becomes(q, a) /\ UNCHANGED <<runs, phase>> BY <1>6 DEF SendDM, db, proc
  <2> HIDE DEF a
  <2> QED BY <1>1, <2>1, <2>2, SenderStays
<1>7. CASE RecordSent(q)
  BY <1>3, <1>7 DEF RecordSent, proc
<1>8. CASE RecordFailed(q)
  BY <1>2, <1>3, <1>8 DEF RecordFailed, proc
<1>9. CASE FailQueuedInRun(q)
  <2> DEFINE a == [att[q] EXCEPT !.pc = "finish"]
  <2>1. a.pc \in Sending /\ a.run = att[q].run BY <1>1 DEF Attempt, Sending
  <2>2. Becomes(q, a) /\ UNCHANGED <<runs, phase>> BY <1>9 DEF FailQueuedInRun, Goto, proc
  <2> HIDE DEF a
  <2> QED BY <1>1, <2>1, <2>2, SenderStays
<1>10. CASE FinishRun(q)
  <2>1. att[q].run \in RunIds /\ att[q].ending \in Endings
    BY <1>1, <1>10 DEF FinishRun, TypeInv, Sound, Sending, pc
  <2>2. runs' = [runs EXCEPT ![att[q].run].status = att[q].ending]
    BY <1>10 DEF FinishRun
  <2>3. runs'[att[q].run].status # "running" /\ \A o \in RunIds : o # att[q].run => runs'[o] = runs[o]
    BY <1>1, <2>1, <2>2 DEF TypeInv, TypeOK, Endings
  <2>4. UNCHANGED phase /\ \E a : Becomes(q, a) BY <1>10 DEF FinishRun, Leave, proc
  <2> QED BY <1>1, <2>3, <2>4, SenderKept
<1> QED BY <1>4, <1>5, <1>6, <1>7, <1>8, <1>9, <1>10 DEF Goroutine

LEMMA SenderNext ==
  ASSUME WriteFaults = FALSE, OwnInv, RunningHasSender, [Next]_vars
  PROVE  RunningHasSender'
<1>1. TypeInv BY DEF OwnInv
<1>2. ASSUME UNCHANGED <<runs, att>>, phase' = "up" => phase = "up"
      PROVE  RunningHasSender'
  BY <1>2 DEF RunningHasSender, pc
<1>3. ASSUME phase' # "up" PROVE RunningHasSender' BY <1>3 DEF RunningHasSender
<1>4. ASSUME NEW q \in Attempts, NEW t \in Teachers, NEW d \in Dims,
             BulkSend(q, t, d) \/ ManualSend(q, t, d) \/ ResumeRun(q, t, d)
      PROVE  RunningHasSender'
  <2>1. UNCHANGED <<runs, phase>> /\ pc(q) \notin Sending /\ \E a : Becomes(q, a)
    BY <1>4 DEF BulkSend, ManualSend, ResumeRun, db, proc, Sending
  <2> QED BY <1>1, <2>1, SenderStays
<1>5. ASSUME NEW r \in RunIds, NEW c \in Contacts, MarkSent(r, c) PROVE RunningHasSender'
  BY <1>2, <1>5 DEF MarkSent, proc
<1>6. CASE CancelAll \/ CloseManager \/ CloseReturns \/ Exit \/ Crash
  BY <1>3, <1>6 DEF CancelAll, CloseManager, CloseReturns, Exit, Crash, Die
<1>7. CASE Boot
  <2>1. \A r \in RunIds : runs'[r].status # "running"
    BY <1>1, <1>7 DEF Boot, TypeInv, TypeOK
  <2> QED BY <2>1 DEF RunningHasSender
<1>8. CASE UNCHANGED vars
  BY <1>2, <1>8 DEF vars, db, proc
<1> QED BY <1>4, <1>5, <1>6, <1>7, <1>8, SenderHandler, SenderGoroutine DEF Next

\* The premise of ReconcileInterrupted and of every 409: as long as the writes of the
\* goroutines succeed, a running run of a process that serves is being sent.
THEOREM RunsHaveSenders == ASSUME WriteFaults = FALSE PROVE Spec => []RunningHasSender
<1>1. Init => RunningHasSender BY DEF Init, RunningHasSender, NoRecord
<1>2. OwnInv /\ RunningHasSender /\ [Next]_vars => RunningHasSender'
  BY SenderNext
<1> QED BY <1>1, <1>2, OwnInit, OwnNext, PTL DEF Spec

\* What an attempt has left to send covers the queued rows of its run.
Covers(a) ==
  /\ a.pc \in {"resumeWrite", "start", "head"} => Queued(a.run) \subseteq a.todo
  /\ a.pc = "sent" => Queued(a.run) \subseteq a.todo \cup {a.cur}
  /\ a.pc = "finish" /\ a.ending \in Settled => Queued(a.run) = {}

Covered   == \A q \in Attempts : Covers(att[q])
SettleInv == OwnInv /\ Covered /\ SettledHasNothingQueued

LEMMA SettlingQueues ==
  ASSUME TypeInv, Settling, NEW r \in RunIds
  PROVE  Queued(r)' \subseteq Queued(r)
BY DEF Settling, Queued

\* A step of q that only settles rows, and run q's own at most.
LEMMA CoveredKept ==
  ASSUME SettleInv, NEW q \in Attempts, NEW a, Becomes(q, a), Settling,
         Covers(a)',
         \A r \in RunIds : runs'[r].status \in Settled /\ runs[r].status \notin Settled => Queued(r)' = {}
  PROVE  Covered' /\ SettledHasNothingQueued'
<1>1. att'[q] = a /\ \A p \in Attempts : p # q => att'[p] = att[p]
  BY DEF Becomes, SettleInv, OwnInv, TypeInv, TypeOK
<1>2. \A r \in RunIds : Queued(r)' \subseteq Queued(r)
  BY SettlingQueues DEF SettleInv, OwnInv
<1>3. ASSUME NEW p \in Attempts PROVE Covers(att[p])'
  <2>1. CASE p = q
    BY <1>1, <2>1 DEF Covers
  <2>2. CASE p # q
    <3>1. att'[p] = att[p] /\ Covers(att[p]) BY <1>1, <2>2 DEF SettleInv, Covered
    <3>2. att[p].pc \in {"resumeWrite", "start", "head", "sent", "finish"} => att[p].run \in RunIds
      BY DEF SettleInv, OwnInv, TypeInv, Sound, Resume, Sending
    <3> QED BY <1>2, <3>1, <3>2 DEF Covers
  <2> QED BY <2>1, <2>2
<1>4. SettledHasNothingQueued'
  BY <1>2 DEF SettleInv, SettledHasNothingQueued
<1> QED BY <1>3, <1>4 DEF Covered

\* A step after which q has nothing to send.
LEMMA CoveredFree ==
  ASSUME SettleInv, NEW q \in Attempts, NEW a, Becomes(q, a), Settling, UNCHANGED runs,
         a.pc \notin {"resumeWrite", "start", "head", "sent", "finish"}
  PROVE  Covered' /\ SettledHasNothingQueued'
<1>1. Covers(a)' BY DEF Covers
<1> QED BY <1>1, CoveredKept

LEMMA SettleHandler ==
  ASSUME SettleInv, NEW q \in Attempts, Handler(q)
  PROVE  Covered' /\ SettledHasNothingQueued'
<1>1. TypeInv /\ att[q] \in Attempt /\ Sound(att[q]) BY DEF SettleInv, OwnInv, TypeInv, TypeOK
<1>2. CASE Admit(q) \/ Reserve(q) \/ BulkRead(q)
  <2>1. UNCHANGED <<runs, rows>> BY <1>2 DEF Admit, Reserve, BulkRead, db
  <2>2. PICK p \in {"reserve", "resumeReserve", "txread", "resumeRead", "txwrite", "manualWrite"},
             S \in SUBSET RunIds : Becomes(q, [att[q] EXCEPT !.pc = p, !.stale = S])
    <3>1. att[q].stale \in SUBSET RunIds BY <1>1 DEF Attempt
    <3>2. CASE Admit(q) \/ Reserve(q)
      <4>1. PICK p \in {"reserve", "resumeReserve", "txread", "resumeRead"} : Goto(q, p)
        BY <3>2 DEF Admit, Reserve
      <4>2. [att[q] EXCEPT !.pc = p] = [att[q] EXCEPT !.pc = p, !.stale = att[q].stale]
        BY <1>1 DEF Attempt
      <4> QED BY <3>1, <4>1, <4>2 DEF Goto
    <3>3. CASE BulkRead(q)
      BY <3>3 DEF BulkRead, LatestRunByPeriod, Newest
    <3> QED BY <1>2, <3>2, <3>3
  <2> DEFINE a == [att[q] EXCEPT !.pc = p, !.stale = S]
  <2>3. a.pc = p BY <1>1 DEF Attempt
  <2>4. Becomes(q, a) BY <2>2
  <2> HIDE DEF a
  <2> QED BY <2>1, <2>3, <2>4, UnchangedSettles, CoveredFree
<1>3. CASE Refuse(q) \/ Rollback(q) \/ Release(q) \/ BulkCommitManual(q)
  <2>1. UNCHANGED runs BY <1>3 DEF Refuse, Rollback, Release, BulkCommitManual, db
  <2>2. Settling
    <3>1. CASE BulkCommitManual(q)
      BY <1>1, <3>1 DEF BulkCommitManual, Settling, FailQueued, Verdict, TypeInv, TypeOK
    <3> QED BY <1>3, <3>1, UnchangedSettles DEF Refuse, Rollback, Release, db
  <2>3. \E a : Becomes(q, a) /\ a.pc \in {"idle", "release"}
    <3>1. Idle.pc = "idle" /\ [Idle EXCEPT !.pc = "release", !.who = att[q].who].pc = "release"
      BY DEF Idle
    <3> QED BY <1>3, <3>1 DEF Refuse, Rollback, Release, BulkCommitManual, EndRequest, Leave
  <2> QED BY <2>1, <2>2, <2>3, CoveredFree
<1>4. ASSUME NEW n \in RunIds, NEW S \in SUBSET Contacts, BulkCommit(q, n, S)
      PROVE  Covered' /\ SettledHasNothingQueued'
  <2>0. PICK a : a = [att[q] EXCEPT !.pc = "start", !.run = n, !.stale = {}, !.todo = S]
    OBVIOUS
  <2>1. a.pc = "start" /\ a.run = n /\ a.todo = S BY <1>1, <2>0 DEF Attempt
  <2>2. att' = [att EXCEPT ![q] = a] BY <1>4, <2>0 DEF BulkCommit, Becomes
  <2>3. att'[q] = a /\ \A p \in Attempts : p # q => att'[p] = att[p]
    BY <1>1, <2>2 DEF TypeInv, TypeOK
  <2>4. Queued(n)' = S
    BY <1>4 DEF BulkCommit, Queued
  <2>5. \A r \in RunIds : r # n => Queued(r)' \subseteq Queued(r)
    BY <1>4 DEF BulkCommit, Queued, FailQueued, Verdict
  <2>6. runs[n].status = "absent" BY <1>4 DEF BulkCommit, Unused
  <2>7. ASSUME NEW p \in Attempts PROVE Covers(att[p])'
    <3>1. CASE p = q
      BY <2>1, <2>3, <2>4, <3>1 DEF Covers
    <3>2. CASE p # q
      <4>1. att'[p] = att[p] /\ Covers(att[p]) BY <2>3, <3>2 DEF SettleInv, Covered
      <4>2. att[p].pc \in {"resumeWrite", "start", "head", "sent", "finish"} =>
              att[p].run \in RunIds /\ att[p].run # n
        BY <2>6 DEF SettleInv, OwnInv, TypeInv, Sound, Own, OwnRun, Resume, Sending, pc
      <4> QED BY <2>5, <4>1, <4>2 DEF Covers
    <3> QED BY <3>1, <3>2
  <2>8. runs'[n].status = "running" /\ \A r \in RunIds : r # n => runs'[r] = runs[r]
    BY <1>1, <1>4 DEF BulkCommit, TypeInv, TypeOK
  <2>9. SettledHasNothingQueued'
    BY <2>5, <2>8 DEF SettleInv, SettledHasNothingQueued, Settled
  <2> QED BY <2>7, <2>9 DEF Covered
<1>5. CASE ResumeRead(q)
  <2>1. PICK r, S, a : /\ r = att[q].run /\ S = Queued(r)
                       /\ a = [att[q] EXCEPT !.pc = "resumeWrite", !.todo = S]
    OBVIOUS
  <2>2. Becomes(q, a) /\ UNCHANGED <<runs, rows>> BY <1>5, <2>1 DEF ResumeRead, db
  <2>3. a.pc = "resumeWrite" /\ a.run = r /\ a.todo = S BY <1>1, <2>1 DEF Attempt
  <2>4. Queued(r)' = S BY <2>1, <2>2 DEF Queued
  <2>5. Covers(a)' BY <2>3, <2>4 DEF Covers
  <2> QED BY <2>2, <2>5, UnchangedSettles, CoveredKept
<1>6. ASSUME NEW F \in SUBSET Contacts, ResumeCommit(q, F)
      PROVE  Covered' /\ SettledHasNothingQueued'
  <2>1. PICK r, S, a, b : /\ r = att[q].run /\ S = att[q].todo \ F
                          /\ a = [att[q] EXCEPT !.pc = "start", !.todo = S]
                          /\ b = [Idle EXCEPT !.pc = "release", !.who = att[q].who]
    OBVIOUS
  <2>2. pc(q) = "resumeWrite" /\ r \in RunIds
    BY <1>1, <1>6, <2>1 DEF ResumeCommit, Sound, Resume, pc
  <2>3. rows' = [rows EXCEPT ![r] = Verdict(@, F, "failed")] BY <1>6, <2>1 DEF ResumeCommit
  <2>4. Settling BY <1>1, <2>2, <2>3, VerdictSettles
  <2>5. Queued(r)' \subseteq S
    <3>1. Queued(r) \subseteq att[q].todo BY <2>1, <2>2 DEF SettleInv, Covered, Covers, pc
    <3>2. rows'[r] = Verdict(rows[r], F, "failed") BY <1>1, <2>2, <2>3 DEF TypeInv, TypeOK
    <3> QED BY <2>1, <3>1, <3>2 DEF Queued, Verdict
  <2>6. /\ \A o \in RunIds : o # r => runs'[o] = runs[o]
        /\ S # {} => runs'[r].status = "running"
    BY <1>1, <1>6, <2>1, <2>2 DEF ResumeCommit, TypeInv, TypeOK
  <2>7. CASE S = {}
    <3>1. Becomes(q, b) BY <1>6, <2>1, <2>7 DEF ResumeCommit, Leave
    <3>2. b.pc = "release" BY <2>1 DEF Idle
    <3>3. Covers(b)' BY <3>2 DEF Covers
    <3>4. Queued(r)' = {} BY <2>5, <2>7
    <3> QED BY <2>4, <2>6, <3>1, <3>3, <3>4, CoveredKept
  <2>8. CASE S # {}
    <3>1. Becomes(q, a) BY <1>6, <2>1, <2>8 DEF ResumeCommit
    <3>2. a.pc = "start" /\ a.run = r /\ a.todo = S BY <1>1, <2>1 DEF Attempt
    <3>3. Covers(a)' BY <2>5, <3>2 DEF Covers
    <3>4. \A o \in RunIds : runs'[o].status \in Settled /\ runs[o].status \notin Settled => Queued(o)' = {}
      BY <2>6, <2>8 DEF Settled
    <3> QED BY <2>4, <3>1, <3>3, <3>4, CoveredKept
  <2> QED BY <2>7, <2>8
<1>7. CASE Start(q)
  <2>1. PICK r, a : r = att[q].run /\ a = [att[q] EXCEPT !.pc = "head"]
    OBVIOUS
  <2>2. Becomes(q, a) /\ UNCHANGED <<runs, rows>> /\ pc(q) = "start" BY <1>7, <2>1 DEF Start, Goto, db
  <2>3. a.pc = "head" /\ a.run = r /\ a.todo = att[q].todo BY <1>1, <2>1 DEF Attempt
  <2>4. Queued(r) \subseteq a.todo BY <2>1, <2>2, <2>3 DEF SettleInv, Covered, Covers, pc
  <2>5. Queued(r)' \subseteq a.todo BY <2>2, <2>4 DEF Queued
  <2>6. Covers(a)' BY <2>3, <2>5 DEF Covers
  <2> QED BY <2>2, <2>6, UnchangedSettles, CoveredKept
<1> QED BY <1>2, <1>3, <1>4, <1>5, <1>6, <1>7 DEF Handler

LEMMA SettleGoroutine ==
  ASSUME WriteFaults = FALSE, SettleInv, NEW q \in Attempts, Goroutine(q)
  PROVE  Covered' /\ SettledHasNothingQueued'
<1>1. TypeInv /\ att[q] \in Attempt /\ Sound(att[q]) /\ Covers(att[q])
  BY DEF SettleInv, OwnInv, TypeInv, TypeOK, Covered
<1>2. PICK r : r = att[q].run
  OBVIOUS
<1>3. r \in RunIds
  BY <1>1, <1>2 DEF Sound, Sending, Goroutine, Exhausted, CutShort, Revoked, SendDM, Aborted, Expired, RecordSent,
     RecordFailed, FailQueuedInRun, FinishRun, pc
\* The run ends with s, after a sweep of its rows or at once.
<1>4. ASSUME NEW s, NEW p \in {"sweep", "finish"}, EndWith(q, s, p), UNCHANGED runs, Settling,
             p = "finish" /\ s \in Settled => Queued(r)' = {}
      PROVE  Covered' /\ SettledHasNothingQueued'
  <2>1. PICK a : a = [att[q] EXCEPT !.pc = p, !.ending = s, !.cur = None, !.reply = None]
    OBVIOUS
  <2>2. a.pc = p /\ a.run = r /\ a.ending = s BY <1>1, <1>2, <2>1 DEF Attempt
  <2>3. Covers(a)' BY <1>4, <2>2 DEF Covers
  <2>4. Becomes(q, a) BY <1>4, <2>1 DEF EndWith
  <2> QED BY <1>4, <2>3, <2>4, CoveredKept
<1>5. ASSUME NEW p \in {"release", "exit"}, Leave(q, p), Settling,
             \A o \in RunIds : runs'[o].status \in Settled /\ runs[o].status \notin Settled => Queued(o)' = {}
      PROVE  Covered' /\ SettledHasNothingQueued'
  <2>1. PICK a : a = [Idle EXCEPT !.pc = p, !.who = att[q].who]
    OBVIOUS
  <2>2. a.pc = p BY <2>1 DEF Idle
  <2>3. Covers(a)' BY <2>2 DEF Covers
  <2>4. Becomes(q, a) BY <1>5, <2>1 DEF Leave
  <2> QED BY <1>5, <2>3, <2>4, CoveredKept
<1>6. CASE Exhausted(q)
  <2>1. Queued(r)' = {}
    BY <1>1, <1>2, <1>6 DEF Exhausted, Covers, Queued, db, pc
  <2> QED BY <1>4, <1>6, <2>1, UnchangedSettles DEF Exhausted, db
<1>7. CASE Revoked(q) \/ Expired(q)
  BY <1>4, <1>7, UnchangedSettles DEF Revoked, Expired, db
<1>8. CASE CutShort(q) \/ Aborted(q)
  BY <1>5, <1>8, UnchangedSettles DEF CutShort, Aborted, db
<1>9. ASSUME NEW c \in Contacts, NEW answer \in Answers, SendDM(q, c, answer)
      PROVE  Covered' /\ SettledHasNothingQueued'
  <2>1. PICK a : a = [att[q] EXCEPT !.pc = "sent", !.todo = @ \ {c}, !.cur = c, !.reply = answer]
    OBVIOUS
  <2>2. a.pc = "sent" /\ a.run = r /\ a.todo = att[q].todo \ {c} /\ a.cur = c
    BY <1>1, <1>2, <2>1 DEF Attempt
  <2>3. Queued(r)' \subseteq a.todo \cup {a.cur}
    BY <1>1, <1>2, <1>9, <2>2 DEF SendDM, Covers, Queued, db, pc
  <2>4. Covers(a)' BY <2>2, <2>3 DEF Covers
  <2>5. Becomes(q, a) /\ UNCHANGED <<runs, rows>> BY <1>9, <2>1 DEF SendDM, db
  <2> QED BY <2>4, <2>5, UnchangedSettles, CoveredKept
\* The verdict on the send in flight leaves the other items.
<1>10. ASSUME NEW v \in {"sent", "failed"}, MarkOutcome(q, v), pc(q) = "sent"
       PROVE  Settling /\ Queued(r)' \subseteq att[q].todo
  <2>1. rows' = [rows EXCEPT ![r] = Verdict(@, {att[q].cur}, v)]
    BY <1>2, <1>10 DEF MarkOutcome
  <2>2. rows'[r] = Verdict(rows[r], {att[q].cur}, v)
    BY <1>1, <1>3, <2>1 DEF TypeInv, TypeOK
  <2>3. Queued(r) \subseteq att[q].todo \cup {att[q].cur}
    BY <1>1, <1>2, <1>10 DEF Covers, pc
  <2>4. Queued(r)' \subseteq att[q].todo
    BY <2>2, <2>3 DEF Queued, Verdict
  <2> QED BY <1>1, <1>3, <2>1, <2>4, VerdictSettles
<1>11. ASSUME NEW n, Carry(q, n), UNCHANGED runs, Settling, Queued(r)' \subseteq att[q].todo
       PROVE  Covered' /\ SettledHasNothingQueued'
  <2>1. PICK a : a = [att[q] EXCEPT !.pc = "head", !.streak = n, !.cur = None, !.reply = None]
    OBVIOUS
  <2>2. a.pc = "head" /\ a.run = r /\ a.todo = att[q].todo BY <1>1, <1>2, <2>1 DEF Attempt
  <2>3. Covers(a)' BY <1>11, <2>2 DEF Covers
  <2>4. Becomes(q, a) BY <1>11, <2>1 DEF Carry
  <2> QED BY <1>11, <2>3, <2>4, CoveredKept
<1>12. CASE RecordSent(q)
  BY <1>10, <1>11, <1>12 DEF RecordSent
<1>13. CASE RecordFailed(q)
  <2>1. Settling /\ Queued(r)' \subseteq att[q].todo BY <1>10, <1>13 DEF RecordFailed
  <2>2. CASE EndWith(q, "interrupted", "finish")
    BY <1>4, <1>13, <2>1, <2>2 DEF RecordFailed, Settled
  <2>3. CASE Carry(q, att[q].streak + 1)
    BY <1>11, <1>13, <2>1, <2>3 DEF RecordFailed
  <2> QED BY <1>13, <2>2, <2>3 DEF RecordFailed
<1>14. CASE FailQueuedInRun(q)
  <2>1. PICK a : a = [att[q] EXCEPT !.pc = "finish"]
    OBVIOUS
  <2>2. a.pc = "finish" /\ a.run = r BY <1>1, <1>2, <2>1 DEF Attempt
  <2>3. rows' = [rows EXCEPT ![r] = FailQueued(@)] BY <1>2, <1>14 DEF FailQueuedInRun
  <2>4. Queued(r)' = {}
    <3>1. rows'[r] = FailQueued(rows[r]) BY <1>1, <1>3, <2>3 DEF TypeInv, TypeOK
    <3> QED BY <3>1 DEF Queued, FailQueued, Verdict
  <2>5. Settling BY <1>1, <1>3, <2>3, FailQueuedSettles
  <2>6. Covers(a)' BY <2>2, <2>4 DEF Covers
  <2>7. Becomes(q, a) /\ UNCHANGED runs BY <1>14, <2>1 DEF FailQueuedInRun, Goto
  <2> QED BY <2>5, <2>6, <2>7, CoveredKept
<1>15. CASE FinishRun(q)
  <2>1. runs' = [runs EXCEPT ![r].status = att[q].ending] /\ UNCHANGED rows
    BY <1>2, <1>15 DEF FinishRun
  <2>2. runs'[r].status = att[q].ending /\ \A o \in RunIds : o # r => runs'[o] = runs[o]
    BY <1>1, <1>3, <2>1 DEF TypeInv, TypeOK
  <2>3. att[q].ending \in Settled => Queued(r) = {}
    BY <1>1, <1>2, <1>15 DEF FinishRun, Covers, pc
  <2>4. \A o \in RunIds : runs'[o].status \in Settled /\ runs[o].status \notin Settled => Queued(o)' = {}
    BY <2>1, <2>2, <2>3 DEF Queued
  <2> QED BY <1>5, <1>15, <2>1, <2>4, UnchangedSettles DEF FinishRun
<1> QED
  BY <1>6, <1>7, <1>8, <1>9, <1>12, <1>13, <1>14, <1>15 DEF Goroutine

LEMMA SettleNext ==
  ASSUME WriteFaults = FALSE, SettleInv, [Next]_vars
  PROVE  Covered' /\ SettledHasNothingQueued'
<1>1. TypeInv BY DEF SettleInv, OwnInv
\* Steps that leave the attempts, or have none.
<1>2. ASSUME Settling, att' = att \/ \A q \in Attempts : att'[q] = Idle,
             \A r \in RunIds : runs'[r].status \in Settled => runs[r].status \in Settled
      PROVE  Covered' /\ SettledHasNothingQueued'
  <2>1. \A r \in RunIds : Queued(r)' \subseteq Queued(r) BY <1>1, <1>2, SettlingQueues
  <2>2. ASSUME NEW q \in Attempts PROVE Covers(att[q])'
    <3>1. CASE att'[q] = Idle BY <3>1 DEF Covers, Idle
    <3>2. CASE att' = att
      <4>1. att[q].pc \in {"resumeWrite", "start", "head", "sent", "finish"} => att[q].run \in RunIds
        BY <1>1 DEF TypeInv, Sound, Resume, Sending
      <4> QED BY <2>1, <3>2, <4>1 DEF SettleInv, Covered, Covers
    <3> QED BY <1>2, <3>1, <3>2
  <2>3. SettledHasNothingQueued'
    BY <1>2, <2>1 DEF SettleInv, SettledHasNothingQueued
  <2> QED BY <2>2, <2>3 DEF Covered
<1>3. ASSUME NEW q \in Attempts, NEW t \in Teachers, NEW d \in Dims,
             BulkSend(q, t, d) \/ ManualSend(q, t, d) \/ ResumeRun(q, t, d)
      PROVE  Covered' /\ SettledHasNothingQueued'
  <2>1. att[q] \in Attempt /\ UNCHANGED <<runs, rows>>
    BY <1>1, <1>3 DEF TypeInv, TypeOK, BulkSend, ManualSend, ResumeRun, db
  <2>2. \E a : Becomes(q, a) /\ a.pc \in {"admit", "manualRead", "resumeAdmit"}
    <3>1. \A p : [att[q] EXCEPT !.pc = p, !.who = t, !.what = d].pc = p
      BY <2>1 DEF Attempt
    <3>2. CASE BulkSend(q, t, d) \/ ManualSend(q, t, d)
      BY <3>1, <3>2, Zenon DEF BulkSend, ManualSend
    <3>3. CASE ResumeRun(q, t, d)
      <4>1. PICK r : Becomes(q, [att[q] EXCEPT !.pc = "resumeAdmit", !.who = t, !.what = d, !.run = r])
        BY <3>3, Zenon DEF ResumeRun
      <4>2. [att[q] EXCEPT !.pc = "resumeAdmit", !.who = t, !.what = d, !.run = r].pc = "resumeAdmit"
        BY <2>1 DEF Attempt
      <4> QED BY <4>1, <4>2, Zenon
    <3> QED BY <1>3, <3>2, <3>3
  <2> QED BY <2>1, <2>2, UnchangedSettles, CoveredFree
<1>4. ASSUME NEW r \in RunIds, NEW c \in Contacts, MarkSent(r, c)
      PROVE  Covered' /\ SettledHasNothingQueued'
  BY <1>1, <1>2, <1>4, VerdictSettles DEF MarkSent
<1>5. CASE CancelAll \/ CloseManager \/ CloseReturns
  BY <1>2, <1>5, UnchangedSettles DEF CancelAll, CloseManager, CloseReturns, db
<1>6. CASE Exit \/ Crash
  BY <1>2, <1>6, UnchangedSettles DEF Exit, Crash, Die, db
<1>7. CASE Boot
  <2>1. \A r \in RunIds : runs'[r].status \in Settled => runs[r].status \in Settled
    BY <1>1, <1>7 DEF Boot, Settled, TypeInv, TypeOK
  <2> QED BY <1>2, <1>7, <2>1, UnchangedSettles DEF Boot
<1>8. CASE UNCHANGED vars
  BY <1>2, <1>8, UnchangedSettles DEF vars, db
<1> QED BY <1>3, <1>4, <1>5, <1>6, <1>7, <1>8, SettleHandler, SettleGoroutine DEF Next

\* Refusing to resume a completed or expired run strands nobody, as long as the writes of
\* the goroutines succeed: every row of it has its verdict.
THEOREM SettledRunsAreDone == ASSUME WriteFaults = FALSE PROVE Spec => []SettledHasNothingQueued
<1>1. Init => SettleInv
  BY OwnInit DEF Init, SettleInv, Covered, Covers, SettledHasNothingQueued, NoRecord, Idle, Settled
<1>2. SettleInv /\ [Next]_vars => SettleInv'
  BY SettleNext, OwnNext DEF SettleInv
<1>3. SettleInv => SettledHasNothingQueued BY DEF SettleInv
<1> QED BY <1>1, <1>2, <1>3, PTL DEF Spec
=============================================================================
