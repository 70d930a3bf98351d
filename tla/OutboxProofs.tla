---------------------------- MODULE OutboxProofs ----------------------------
(***************************************************************************)
(* Proofs about Outbox, for every set of effects, workers and sweeps; and  *)
(* that Outbox implements EffectRuns, the specification that               *)
(* DocumentTransmission is built on: every step of the outbox is a step of *)
(* EffectRuns or changes neither the rows' states nor the runs.            *)
(***************************************************************************)
EXTENDS Outbox, FiniteSetTheorems, TLAPS

-----------------------------------------------------------------------------
\* How many deliveries of one message are unacknowledged is a number.
LEMMA DeliveredCount ==
    ASSUME NEW e \in Effects
    PROVE  Cardinality({w \in Workers : Delivered(w) /\ work[w].effect = e}) \in Nat
  BY FS_CardinalityType, FS_Subset, OutboxAssumption

\* A call that is not idle has a task.
LEMMA BusyHasTask ==
    ASSUME TypeOK, NEW w \in Workers, work[w].phase # "idle"
    PROVE  /\ work[w] \in Task
           /\ work[w].effect \in Effects
           /\ work[w].attempts \in Nat
           /\ work[w].status \in OpenStatus
  BY DEF TypeOK, Task, Idle, Phases

\* Moving a task to another phase leaves it a task.
LEMMA PhaseType ==
    ASSUME TypeOK, NEW w \in Workers, work[w].phase # "idle",
           NEW p \in Phases, SetPhase(w, p)
    PROVE  work' \in [Workers -> Task \cup {Idle}]
<1>1. [work[w] EXCEPT !.phase = p] \in Task
  BY BusyHasTask DEF Task
<1> QED BY <1>1 DEF TypeOK, SetPhase

\* An UPDATE of a row's columns leaves it a row.
LEMMA RowUpdate ==
    ASSUME NEW r \in Row, NEW n \in Nat, NEW st \in {"DONE", "FAILED"} \cup OpenStatus
    PROVE  /\ [r EXCEPT !.status = st] \in Row
           /\ [r EXCEPT !.status = st, !.attempts = n] \in Row
           /\ [r EXCEPT !.status = st, !.clock = "fresh"] \in Row
  BY DEF Row, OpenStatus

\* Every variable keeps its type: rows, counters, deliveries and row locks.
LEMMA TypeStep == TypeOK /\ [Next]_vars => TypeOK'
<1> SUFFICES ASSUME TypeOK, [Next]_vars PROVE TypeOK'
  OBVIOUS
<1> USE DEF TypeOK, Row, Task, Idle, Phases, OpenStatus, sending, history, budget
<1>1. ASSUME NEW e \in Effects, ProducerStep(e) PROVE TypeOK'
  <2>1. CASE EnqueueOnly(e) BY <2>1 DEF EnqueueOnly, Insert
  <2>2. CASE QueueEffect(e) BY <2>2 DEF QueueEffect, Insert, StartDispatch
  <2>3. CASE QueueExisting(e) BY <2>3 DEF QueueExisting, StartDispatch
  <2>4. CASE RetryEffect(e) BY <2>4 DEF RetryEffect, StartDispatch
  <2>5. CASE Publish(e) BY <2>5 DEF Publish
  <2>6. CASE DispatchFails(e) BY <2>6 DEF DispatchFails
  <2>7. CASE MarkDispatched(e)
    <3>1. [row[e] EXCEPT !.status = "DISPATCHED", !.clock = "fresh"] \in Row
      OBVIOUS
    <3>2. row' = [row EXCEPT ![e] = [row[e] EXCEPT !.status = "DISPATCHED", !.clock = "fresh"]]
      BY <2>7 DEF MarkDispatched
    <3> QED BY <2>7, <3>1, <3>2 DEF MarkDispatched, LateWrite
  <2>8. CASE MarkFails(e) BY <2>8 DEF MarkFails
  <2> QED BY <1>1, <2>1, <2>2, <2>3, <2>4, <2>5, <2>6, <2>7, <2>8 DEF ProducerStep
<1>2. ASSUME NEW e \in Effects, Age(e) PROVE TypeOK'
  BY <1>2 DEF Age
<1>3. ASSUME NEW w \in Workers, WorkerStep(w) PROVE TypeOK'
  <2>1. ASSUME NEW e \in Effects, Claim(w, e) PROVE TypeOK'
    BY <2>1 DEF Claim, Take, Open
  <2>2. ASSUME NEW e \in Effects, SkipSettled(w, e) PROVE TypeOK'
    BY <2>2 DEF SkipSettled, Take
  <2>3. CASE HandlerSucceeds(w)
    BY <2>3, BusyHasTask, PhaseType DEF HandlerSucceeds, Finishes
  <2>4. CASE HandlerRequeues(w) BY <2>4 DEF HandlerRequeues, Idle
  <2>5. CASE HandlerRefuses(w)
    BY <2>5, BusyHasTask, PhaseType DEF HandlerRefuses, Finishes
  <2>6. CASE HandlerFails(w)
    BY <2>6, BusyHasTask, PhaseType DEF HandlerFails
  <2>7. CASE CommitDone(w)
    <3> DEFINE e == work[w].effect
    <3>1. work[w].phase # "idle" /\ work' \in [Workers -> Task \cup {Idle}]
      BY <2>7, PhaseType DEF CommitDone
    <3>2. e \in Effects
      BY <3>1, BusyHasTask
    <3>3. [row[e] EXCEPT !.status = "DONE"] \in Row
      <4>1. row[e] \in Row
        BY <3>2
      <4> QED BY <4>1, RowUpdate
    <3>4. row' = [row EXCEPT ![e] = [row[e] EXCEPT !.status = "DONE"]]
      BY <2>7 DEF CommitDone
    <3> QED BY <2>7, <3>1, <3>2, <3>3, <3>4 DEF CommitDone
  <2>8. CASE RecordFailedAttempt(w)
    <3> DEFINE e == work[w].effect
               o == Outcome(work[w])
               r == [row[e] EXCEPT !.status = o.status, !.attempts = o.attempts]
    <3>1. work[w].phase # "idle" /\ work' \in [Workers -> Task \cup {Idle}]
      BY <2>8, PhaseType DEF RecordFailedAttempt
    <3>2. e \in Effects /\ o.attempts \in Nat /\ o.status \in {"DONE", "FAILED"} \cup OpenStatus
      BY <3>1, BusyHasTask, OutboxAssumption DEF Outcome
    <3>3. r \in Row
      <4>1. row[e] \in Row
        BY <3>2
      <4> QED BY <3>2, <4>1, RowUpdate
    <3>4. row' = row \/ row' = [row EXCEPT ![e] = r]
      BY <2>8 DEF RecordFailedAttempt
    <3>6. row' \in [Effects -> Row]
      BY <3>2, <3>3, <3>4
    <3>5. overwritten' = overwritten \/ overwritten' = overwritten \cup {e}
      BY <2>8 DEF RecordFailedAttempt, LateWrite
    <3> QED BY <2>8, <3>1, <3>2, <3>5, <3>6 DEF RecordFailedAttempt
  <2>9. CASE Ack(w)
    <3>1. work' = [work EXCEPT ![w] = Idle]
      BY <2>9 DEF Ack
    <3> QED BY <2>9, <3>1 DEF Ack
  <2>10. CASE CommitFails(w)
    BY <2>10, PhaseType DEF CommitFails
  <2>11. ASSUME NEW e \in Effects, ClaimFails(w, e) PROVE TypeOK'
    BY <2>11 DEF ClaimFails
  <2> QED BY <1>3, <2>1, <2>2, <2>3, <2>4, <2>5, <2>6, <2>7, <2>8, <2>9, <2>10, <2>11 DEF WorkerStep
<1>4. CASE WorkerCrash BY <1>4, DeliveredCount DEF WorkerCrash, Redeliver
<1>5. CASE ConnectionLost
  <2>1. ASSUME NEW w \in Workers, work[w] # Idle
        PROVE  [work[w] EXCEPT !.delivered = FALSE] \in Task
    BY <2>1
  <2>2. work' \in [Workers -> Task \cup {Idle}]
    BY <1>5, <2>1 DEF ConnectionLost
  <2> QED BY <1>5, <2>2, DeliveredCount DEF ConnectionLost, Redeliver
<1>6. ASSUME NEW s \in Sweeps, SweepStep(s) PROVE TypeOK'
  <2>1. CASE SweepStart(s) BY <2>1 DEF SweepStart
  <2>2. ASSUME NEW e \in Effects, SweepPublish(s, e) PROVE TypeOK'
    BY <2>2 DEF SweepPublish
  <2>3. ASSUME NEW e \in Effects, SweepPublishFails(s, e) PROVE TypeOK'
    BY <2>3 DEF SweepPublishFails
  <2>4. CASE SweepCommit(s) BY <2>4 DEF SweepCommit, SweepEnds
  <2>5. CASE SweepCrash(s) BY <2>5 DEF SweepCrash, SweepEnds
  <2> QED BY <1>6, <2>1, <2>2, <2>3, <2>4, <2>5 DEF SweepStep
<1>7. CASE UNCHANGED vars BY <1>7 DEF vars
<1> QED BY <1>1, <1>2, <1>3, <1>4, <1>5, <1>6, <1>7 DEF Next

\* Type correctness of the outbox.
THEOREM Typing == Spec => []TypeOK
<1>1. Init => TypeOK
  BY DEF Init, TypeOK, Row, OpenStatus, Idle
<1> QED BY <1>1, TypeStep, PTL DEF Spec

-----------------------------------------------------------------------------
(* Row locks.  RowLockExclusive is inductive only together with the fact    *)
(* that a locked row is open: it is what stops a second claim.              *)

LockedIsOpen == \A e \in Effects : Locked(e) => Open(e)

LockInv == RowLockExclusive /\ LockedIsOpen

\* A step that takes no lock and settles no locked row keeps the locks exclusive.
LEMMA LocksKept ==
    ASSUME LockInv,
           \A e \in Effects, w \in Workers : Holds(w, e)' => Holds(w, e),
           \A e \in Effects, s \in Sweeps : (sweep[s][e] # "free")' => sweep[s][e] # "free",
           \A e \in Effects : Locked(e)' /\ Open(e) => Open(e)'
    PROVE  LockInv'
<1>1. RowLockExclusive'
  BY DEF LockInv, RowLockExclusive
<1>2. \A e \in Effects : Locked(e)' => Locked(e)
  BY DEF Locked
<1>3. LockedIsOpen'
  BY <1>2 DEF LockInv, LockedIsOpen
<1> QED BY <1>1, <1>3 DEF LockInv

LEMMA LockStep == TypeOK /\ LockInv /\ [Next]_vars => LockInv'
<1> SUFFICES ASSUME TypeOK, LockInv, [Next]_vars PROVE LockInv'
  OBVIOUS
<1> USE DEF sending, history, budget
<1> DEFINE WorkKept == \A e \in Effects, w \in Workers : Holds(w, e)' => Holds(w, e)
           SweepKept == \A e \in Effects, s \in Sweeps :
                           (sweep[s][e] # "free")' => sweep[s][e] # "free"
           OpenKept == \A e \in Effects : Locked(e)' /\ Open(e) => Open(e)'
<1>a. ASSUME UNCHANGED <<work, sweep>>, \A e \in Effects : Open(e) => Open(e)' PROVE LockInv'
  <2>1. WorkKept /\ SweepKept /\ OpenKept
    BY <1>a DEF Holds
  <2> QED BY <2>1, LocksKept
<1>1. ASSUME NEW e \in Effects, ProducerStep(e) PROVE LockInv'
  <2>1. UNCHANGED <<work, sweep>>
    BY <1>1 DEF ProducerStep, EnqueueOnly, QueueEffect, QueueExisting, RetryEffect, Publish,
                DispatchFails, MarkDispatched, MarkFails
  <2>2. \A f \in Effects : Open(f) => Open(f)'
    BY <1>1 DEF ProducerStep, EnqueueOnly, QueueEffect, QueueExisting, RetryEffect, Publish,
                DispatchFails, MarkDispatched, MarkFails, Insert, Open, OpenStatus, TypeOK, Row
  <2> QED BY <2>1, <2>2, <1>a
<1>2. ASSUME NEW e \in Effects, Age(e) PROVE LockInv'
  <2>1. \A f \in Effects : Open(f) => Open(f)'
    BY <1>2 DEF Age, Open, OpenStatus, TypeOK, Row
  <2> QED BY <1>2, <2>1, <1>a DEF Age
<1>3. ASSUME NEW w \in Workers, WorkerStep(w) PROVE LockInv'
  <2>1. ASSUME NEW e \in Effects, Claim(w, e) PROVE LockInv'
    <3>1. \A f \in Effects, v \in Workers : Holds(v, f)' => Holds(v, f) \/ (v = w /\ f = e)
      BY <2>1 DEF Claim, Holds, TypeOK
    <3>2. UNCHANGED <<row, sweep>> /\ ~Locked(e) /\ Open(e)
      BY <2>1 DEF Claim, Take
    <3>3. RowLockExclusive'
      BY <3>1, <3>2 DEF LockInv, RowLockExclusive, Locked
    <3>4. LockedIsOpen'
      BY <3>1, <3>2 DEF LockInv, LockedIsOpen, Locked, Open
    <3> QED BY <3>3, <3>4 DEF LockInv
  <2>2. ASSUME NEW e \in Effects, SkipSettled(w, e) \/ ClaimFails(w, e) PROVE LockInv'
    BY <2>2, <1>a DEF SkipSettled, ClaimFails, Open
  <2>3. CASE HandlerSucceeds(w) \/ HandlerRequeues(w) \/ HandlerRefuses(w) \/ HandlerFails(w) \/ Ack(w) \/ CommitFails(w)
    <3>1. WorkKept
      BY <2>3 DEF HandlerSucceeds, HandlerRequeues, HandlerRefuses, HandlerFails, Ack, CommitFails,
                  SetPhase, Finishes, Holds, TypeOK, Task, Idle
    <3>2. UNCHANGED <<row, sweep>>
      BY <2>3 DEF HandlerSucceeds, HandlerRequeues, HandlerRefuses, HandlerFails, Ack, CommitFails, Finishes
    <3>3. SweepKept /\ OpenKept
      BY <3>2 DEF Open
    <3> QED BY <3>1, <3>3, LocksKept
  <2>4. CASE CommitDone(w)
    <3> PICK e \in Effects : e = work[w].effect
      BY <2>4, BusyHasTask DEF CommitDone
    <3>1. Holds(w, e) /\ UNCHANGED sweep
      BY <2>4 DEF CommitDone, Holds
    <3>2. \A f \in Effects, v \in Workers : Holds(v, f)' => Holds(v, f) /\ v # w
      BY <2>4 DEF CommitDone, SetPhase, Holds, TypeOK, Task, Idle
    <3>4. ~Locked(e)'
      BY <3>1, <3>2 DEF LockInv, RowLockExclusive, Locked
    <3>5. OpenKept
      BY <2>4, <3>4 DEF CommitDone, Open, TypeOK
    <3>6. WorkKept /\ SweepKept
      BY <3>1, <3>2
    <3> QED BY <3>5, <3>6, LocksKept
  <2>5. CASE RecordFailedAttempt(w)
    <3> PICK e \in Effects : e = work[w].effect
      BY <2>5, BusyHasTask DEF RecordFailedAttempt
    <3>1. ~Locked(e) /\ UNCHANGED sweep
      BY <2>5 DEF RecordFailedAttempt
    <3>2. WorkKept /\ SweepKept
      BY <2>5, <3>1 DEF RecordFailedAttempt, SetPhase, Holds, TypeOK, Task, Idle
    <3>3. ~Locked(e)'
      BY <3>1, <3>2 DEF Locked
    <3>4. \A f \in Effects \ {e} : row'[f] = row[f]
      BY <2>5 DEF RecordFailedAttempt, TypeOK
    <3>5. OpenKept
      BY <3>3, <3>4 DEF Open
    <3> QED BY <3>2, <3>5, LocksKept
  <2> QED BY <1>3, <2>1, <2>2, <2>3, <2>4, <2>5 DEF WorkerStep
<1>4. CASE WorkerCrash \/ ConnectionLost
  <2>1. WorkKept
    BY <1>4 DEF WorkerCrash, ConnectionLost, Holds, Idle, TypeOK, Task
  <2>2. UNCHANGED <<row, sweep>>
    BY <1>4 DEF WorkerCrash, ConnectionLost, Redeliver
  <2>3. SweepKept /\ OpenKept
    BY <2>2 DEF Open
  <2> QED BY <2>1, <2>3, LocksKept
<1>5. ASSUME NEW s \in Sweeps, SweepStep(s) PROVE LockInv'
  <2>1. CASE SweepStart(s)
    <3>1. \A f \in Effects, t \in Sweeps : (sweep[t][f] # "free")' =>
             sweep[t][f] # "free" \/ (t = s /\ ~Locked(f) /\ Open(f))
      BY <2>1 DEF SweepStart, StaleForReconciliation, TypeOK
    <3>2. UNCHANGED <<row, work>>
      BY <2>1 DEF SweepStart
    <3>3. \A f \in Effects : sweep[s][f] = "free"
      BY <2>1 DEF SweepStart
    <3>4. RowLockExclusive'
      BY <3>1, <3>2, <3>3 DEF LockInv, RowLockExclusive, Locked, Holds
    <3>5. LockedIsOpen'
      BY <3>1, <3>2 DEF LockInv, LockedIsOpen, Locked, Open, Holds
    <3> QED BY <3>4, <3>5 DEF LockInv
  <2>2. ASSUME NEW e \in Effects, SweepPublish(s, e) \/ SweepPublishFails(s, e) PROVE LockInv'
    <3>1. SweepKept
      BY <2>2 DEF SweepPublish, SweepPublishFails, TypeOK
    <3>2. WorkKept /\ OpenKept
      BY <2>2 DEF SweepPublish, SweepPublishFails, Holds, Open
    <3> QED BY <3>1, <3>2, LocksKept
  <2>3. CASE SweepCommit(s) \/ SweepCrash(s)
    <3>1. SweepKept
      BY <2>3 DEF SweepCommit, SweepCrash, SweepEnds, TypeOK
    <3>2. WorkKept
      BY <2>3 DEF SweepCommit, SweepCrash, Holds
    <3>3. ASSUME NEW f \in Effects, Open(f) PROVE Open(f)'
      <4>1. CASE SweepCommit(s)
        BY <3>3, <4>1 DEF SweepCommit, Open, OpenStatus, TypeOK, Row
      <4>2. CASE SweepCrash(s)
        BY <3>3, <4>2 DEF SweepCrash, Open
      <4> QED BY <2>3, <4>1, <4>2
    <3> QED BY <3>1, <3>2, <3>3, LocksKept
  <2> QED BY <1>5, <2>1, <2>2, <2>3 DEF SweepStep
<1>6. CASE UNCHANGED vars
  BY <1>6, <1>a DEF vars, Open
<1> QED BY <1>1, <1>2, <1>3, <1>4, <1>5, <1>6 DEF Next

\* A row is locked by at most one transaction at any time.
THEOREM RowLocksAreExclusive == Spec => []RowLockExclusive
<1>1. Init => LockInv
  BY DEF Init, LockInv, RowLockExclusive, LockedIsOpen, Locked, Holds, Idle
<1>2. LockInv => RowLockExclusive
  BY DEF LockInv
<1> QED BY <1>1, <1>2, LockStep, Typing, PTL DEF Spec

-----------------------------------------------------------------------------
(* Deduplication keys: the partial unique index keeps at most one open row  *)
(* per key, and a handler only runs on an open row.                         *)

OneOpenRowPerKey ==
    \A e, f \in Polling : e # f /\ KeyOf[e] = KeyOf[f] => ~(Open(e) /\ Open(f))

\* Opening one row whose key is free, and no other, respects the index.
LEMMA KeyKept ==
    ASSUME OneOpenRowPerKey, NEW e \in Effects, KeyFree(e) \/ (Open(e)' => Open(e)),
           \A f \in Effects \ {e} : Open(f)' => Open(f)
    PROVE  OneOpenRowPerKey'
  BY OutboxAssumption DEF OneOpenRowPerKey, KeyFree

LEMMA NothingOpened ==
    ASSUME OneOpenRowPerKey, \A f \in Effects : Open(f)' => Open(f)
    PROVE  OneOpenRowPerKey'
  BY OutboxAssumption DEF OneOpenRowPerKey

LEMMA KeyStep == TypeOK /\ LockInv /\ OneOpenRowPerKey /\ [Next]_vars => OneOpenRowPerKey'
<1> SUFFICES ASSUME TypeOK, LockInv, OneOpenRowPerKey, [Next]_vars PROVE OneOpenRowPerKey'
  OBVIOUS
<1>1. ASSUME NEW e \in Effects, ProducerStep(e) PROVE OneOpenRowPerKey'
  <2>1. CASE EnqueueOnly(e) \/ QueueEffect(e) \/ RetryEffect(e) \/ MarkDispatched(e)
    <3>1. KeyFree(e)
      BY <2>1 DEF EnqueueOnly, QueueEffect, RetryEffect, MarkDispatched, Insert
    <3>2. \A f \in Effects \ {e} : row'[f] = row[f]
      BY <2>1 DEF EnqueueOnly, QueueEffect, RetryEffect, MarkDispatched, Insert, TypeOK
    <3> QED BY <3>1, <3>2, KeyKept DEF Open
  <2>2. CASE QueueExisting(e) \/ Publish(e) \/ DispatchFails(e) \/ MarkFails(e)
    BY <2>2, NothingOpened DEF QueueExisting, Publish, DispatchFails, MarkFails, Open
  <2> QED BY <1>1, <2>1, <2>2 DEF ProducerStep
<1>2. ASSUME NEW e \in Effects, Age(e) PROVE OneOpenRowPerKey'
  BY <1>2, KeyKept DEF Age, Open, TypeOK
<1>3. ASSUME NEW w \in Workers, WorkerStep(w) PROVE OneOpenRowPerKey'
  <2>1. ASSUME NEW e \in Effects, Claim(w, e) \/ SkipSettled(w, e) \/ ClaimFails(w, e) PROVE OneOpenRowPerKey'
    BY <2>1, NothingOpened DEF Claim, SkipSettled, ClaimFails, Open
  <2>2. CASE HandlerSucceeds(w) \/ HandlerRequeues(w) \/ HandlerRefuses(w) \/ HandlerFails(w) \/ Ack(w) \/ CommitFails(w)
    BY <2>2, NothingOpened DEF HandlerSucceeds, HandlerRequeues, HandlerRefuses, HandlerFails,
                               Ack, CommitFails, Finishes, Open
  <2>3. CASE CommitDone(w)
    <3> PICK e \in Effects : e = work[w].effect
      BY <2>3, BusyHasTask DEF CommitDone
    <3>1. \A f \in Effects \ {e} : row'[f] = row[f]
      BY <2>3 DEF CommitDone, TypeOK
    <3>2. row'[e].status = "DONE"
      BY <2>3 DEF CommitDone, TypeOK, Row
    <3> QED BY <3>1, <3>2, NothingOpened DEF Open, OpenStatus
  <2>4. CASE RecordFailedAttempt(w)
    <3> PICK e \in Effects : e = work[w].effect
      BY <2>4, BusyHasTask DEF RecordFailedAttempt
    <3>1. \A f \in Effects \ {e} : row'[f] = row[f]
      BY <2>4 DEF RecordFailedAttempt, TypeOK
    <3>2. KeyFree(e) \/ (Open(e)' => Open(e))
      <4> DEFINE o == Outcome(work[w])
      <4>1. CASE UNCHANGED row
        BY <4>1 DEF Open
      <4>2. CASE /\ o.status \in OpenStatus => KeyFree(e)
                 /\ row' = [row EXCEPT ![e] = [@ EXCEPT !.status = o.status,
                                                      !.attempts = o.attempts]]
        <5>1. row'[e].status = o.status
          BY <4>2 DEF TypeOK, Row
        <5> QED BY <4>2, <5>1 DEF Open
      <4> QED BY <2>4, <4>1, <4>2 DEF RecordFailedAttempt
    <3> QED BY <3>1, <3>2, KeyKept DEF Open
  <2> QED BY <1>3, <2>1, <2>2, <2>3, <2>4 DEF WorkerStep
<1>4. CASE WorkerCrash \/ ConnectionLost
  BY <1>4, NothingOpened DEF WorkerCrash, ConnectionLost, Redeliver, Open
<1>5. ASSUME NEW s \in Sweeps, SweepStep(s) PROVE OneOpenRowPerKey'
  <2>1. CASE SweepStart(s) \/ SweepCrash(s)
    BY <2>1, NothingOpened DEF SweepStart, SweepCrash, Open
  <2>2. ASSUME NEW e \in Effects, SweepPublish(s, e) \/ SweepPublishFails(s, e)
        PROVE  OneOpenRowPerKey'
    BY <2>2, NothingOpened DEF SweepPublish, SweepPublishFails, Open
  <2>3. CASE SweepCommit(s)
    <3>1. ASSUME NEW f \in Effects, Open(f)' PROVE Open(f)
      <4>1. CASE sweep[s][f] = "sent"
        BY <4>1 DEF LockInv, LockedIsOpen, Locked
      <4>2. CASE sweep[s][f] # "sent"
        BY <2>3, <3>1, <4>2 DEF SweepCommit, Open
      <4> QED BY <4>1, <4>2
    <3> QED BY <3>1, NothingOpened
  <2> QED BY <1>5, <2>1, <2>2, <2>3 DEF SweepStep
<1>6. CASE UNCHANGED vars
  BY <1>6, NothingOpened DEF vars, Open
<1> QED BY <1>1, <1>2, <1>3, <1>4, <1>5, <1>6 DEF Next

\* No two workers run SRI_AUTHORIZE for the same document at once.
THEOREM OnePollPerDocument == Spec => []OneHandlerPerKey
<1>1. Init => LockInv /\ OneOpenRowPerKey
  BY OutboxAssumption DEF Init, LockInv, RowLockExclusive, LockedIsOpen, Locked, Holds, Idle,
                          OneOpenRowPerKey, Open, OpenStatus
<1>2. LockInv /\ OneOpenRowPerKey => OneHandlerPerKey
  <2> SUFFICES ASSUME LockInv, OneOpenRowPerKey, NEW v \in Workers, NEW w \in Workers,
                      NEW e \in Polling, NEW f \in Polling,
                      Holds(v, e), Holds(w, f), KeyOf[e] = KeyOf[f]
               PROVE  v = w
    BY DEF OneHandlerPerKey
  <2>1. Open(e) /\ Open(f)
    BY OutboxAssumption DEF LockInv, LockedIsOpen, Locked
  <2> QED BY <2>1, OutboxAssumption DEF OneOpenRowPerKey, LockInv, RowLockExclusive
<1> QED BY <1>1, <1>2, LockStep, KeyStep, Typing, PTL DEF Spec

-----------------------------------------------------------------------------
(* What rows record of the runs of their handler.                           *)

\* recordFailedAttempt either writes the outcome of the call or writes nothing.
LEMMA Recorded ==
    ASSUME TypeOK, NEW w \in Workers, RecordFailedAttempt(w),
           NEW e \in Effects, e = work[w].effect
    PROVE  /\ \A f \in Effects \ {e} : row'[f] = row[f]
           /\ \/ UNCHANGED <<row, overwritten>>
              \/ /\ row'[e].status = Outcome(work[w]).status
                 /\ row'[e].attempts = Outcome(work[w]).attempts
                 /\ LateWrite(e, Outcome(work[w]).status)
<1> DEFINE o == Outcome(work[w])
<1>1. CASE UNCHANGED <<row, overwritten>>
  BY <1>1
<1>2. CASE /\ row' = [row EXCEPT ![e] = [@ EXCEPT !.status = o.status, !.attempts = o.attempts]]
           /\ LateWrite(e, o.status)
  <2>1. row'[e].status = o.status /\ row'[e].attempts = o.attempts
    BY <1>2 DEF TypeOK, Row
  <2>2. \A f \in Effects \ {e} : row'[f] = row[f]
    BY <1>2 DEF TypeOK
  <2> QED BY <1>2, <2>1, <2>2
<1> QED BY <1>1, <1>2 DEF RecordFailedAttempt

\* A handler that has not returned an error yet remembers an attempt_count that
\* did happen; one that has returned one has happened besides.
CountInv ==
    /\ FailuresCounted
    /\ \A w \in Workers : work[w].phase # "idle" => work[w].attempts <= failures[work[w].effect]

\* attempt_count only ever grows to the number of failures seen.
LEMMA CountStep == TypeOK /\ CountInv /\ [Next]_vars => CountInv'
<1> SUFFICES ASSUME TypeOK, CountInv, [Next]_vars PROVE CountInv'
  OBVIOUS
<1> USE DEF sending, history, budget
<1>a. ASSUME UNCHANGED <<work, failures>>,
             \A e \in Effects : row'[e].attempts = row[e].attempts \/ row'[e].attempts = 0
      PROVE  CountInv'
  BY <1>a DEF CountInv, FailuresCounted, TypeOK
<1>b. ASSUME UNCHANGED <<row, failures>>,
             \A w \in Workers : work'[w].phase # "idle" =>
                 /\ work[w].phase # "idle"
                 /\ work'[w].effect = work[w].effect /\ work'[w].attempts = work[w].attempts
                 /\ work'[w].phase = "failed" => work[w].phase = "failed"
      PROVE  CountInv'
  BY <1>b DEF CountInv, FailuresCounted
<1>1. ASSUME NEW e \in Effects, ProducerStep(e) PROVE CountInv'
  <2>1. UNCHANGED <<work, failures>>
    BY <1>1 DEF ProducerStep, EnqueueOnly, QueueEffect, QueueExisting, RetryEffect, Publish,
                DispatchFails, MarkDispatched, MarkFails
  <2>2. \A f \in Effects : row'[f].attempts = row[f].attempts \/ row'[f].attempts = 0
    BY <1>1 DEF ProducerStep, EnqueueOnly, QueueEffect, QueueExisting, RetryEffect, Publish,
                DispatchFails, MarkDispatched, MarkFails, Insert, TypeOK, Row
  <2> QED BY <2>1, <2>2, <1>a
<1>2. ASSUME NEW e \in Effects, Age(e) PROVE CountInv'
  <2>1. \A f \in Effects : row'[f].attempts = row[f].attempts
    BY <1>2 DEF Age, TypeOK, Row
  <2> QED BY <1>2, <2>1, <1>a DEF Age
<1>3. ASSUME NEW w \in Workers, WorkerStep(w) PROVE CountInv'
  <2>1. ASSUME NEW e \in Effects, Claim(w, e) PROVE CountInv'
    <3>1. \A v \in Workers : v # w => work'[v] = work[v]
      BY <2>1 DEF Claim, TypeOK
    <3>2. work'[w].effect = e /\ work'[w].attempts = row[e].attempts /\ work'[w].phase = "running"
      BY <2>1 DEF Claim, TypeOK
    <3> QED BY <2>1, <3>1, <3>2 DEF Claim, CountInv, FailuresCounted
  <2>2. ASSUME NEW e \in Effects, SkipSettled(w, e) \/ ClaimFails(w, e) PROVE CountInv'
    BY <2>2, <1>b DEF SkipSettled, ClaimFails
  <2>3. CASE HandlerSucceeds(w) \/ HandlerRefuses(w)
    <3>1. UNCHANGED <<row, failures>>
      BY <2>3 DEF HandlerSucceeds, HandlerRefuses, Finishes
    <3>2. work[w].phase # "idle" /\ (SetPhase(w, "succeeded") \/ SetPhase(w, "refused"))
      BY <2>3 DEF HandlerSucceeds, HandlerRefuses
    <3>3. work[w] \in Task
      BY <3>2, BusyHasTask
    <3> QED BY <3>1, <3>2, <3>3, <1>b DEF SetPhase, TypeOK, Task
  <2>4. CASE HandlerRequeues(w) \/ Ack(w)
    BY <2>4, <1>b DEF HandlerRequeues, Ack, Idle, TypeOK
  <2>4a. CASE CommitFails(w)
    <3>1. work[w] \in Task
      BY <2>4a, BusyHasTask DEF CommitFails
    <3> QED BY <2>4a, <3>1, <1>b DEF CommitFails, SetPhase, TypeOK, Task
  <2>5. CASE HandlerFails(w)
    <3> PICK e \in Effects : e = work[w].effect
      BY <2>5, BusyHasTask DEF HandlerFails
    <3>1. work[w] \in Task
      BY <2>5, BusyHasTask DEF HandlerFails
    <3>2. /\ UNCHANGED row
          /\ failures' = [failures EXCEPT ![e] = @ + 1]
          /\ \A v \in Workers : v # w => work'[v] = work[v]
          /\ work'[w].effect = e /\ work'[w].attempts = work[w].attempts
      BY <2>5, <3>1 DEF HandlerFails, SetPhase, TypeOK, Task
    <3>3. \A f \in Effects : failures'[f] \in Nat /\ failures'[f] >= failures[f]
      BY <3>2 DEF TypeOK
    <3>4. failures'[e] = failures[e] + 1
      BY <3>2 DEF TypeOK
    <3>5. \A f \in Effects : row'[f].attempts <= failures'[f]
      BY <3>2, <3>3 DEF CountInv, FailuresCounted, TypeOK, Row
    <3>6. work'[w].attempts < failures'[e]
      BY <3>1, <3>2, <3>4, <2>5 DEF CountInv, HandlerFails, TypeOK, Task
    <3>7. ASSUME NEW v \in Workers, v # w, work'[v].phase # "idle"
          PROVE  /\ work'[v].attempts <= failures'[work'[v].effect]
                 /\ work'[v].phase = "failed" => work'[v].attempts < failures'[work'[v].effect]
      <4>1. work[v] \in Task /\ work'[v] = work[v]
        BY <3>2, <3>7, BusyHasTask
      <4> QED BY <3>3, <3>7, <4>1 DEF CountInv, FailuresCounted, TypeOK, Task
    <3>8. work'[w].attempts <= failures'[work'[w].effect] /\ work'[w].attempts < failures'[work'[w].effect]
      BY <3>1, <3>2, <3>3, <3>6 DEF Task
    <3> QED BY <3>5, <3>7, <3>8 DEF CountInv, FailuresCounted
  <2>6. CASE CommitDone(w)
    <3>1. work[w] \in Task
      BY <2>6, BusyHasTask DEF CommitDone
    <3>2. \A f \in Effects : row'[f].attempts = row[f].attempts
      BY <2>6 DEF CommitDone, TypeOK, Row
    <3>3. \A v \in Workers : v # w => work'[v] = work[v]
      BY <2>6 DEF CommitDone, SetPhase, TypeOK
    <3>4. work'[w].attempts = work[w].attempts /\ work'[w].effect = work[w].effect
          /\ work'[w].phase = "acking"
      BY <2>6, <3>1 DEF CommitDone, SetPhase, TypeOK, Task
    <3> QED BY <2>6, <3>2, <3>3, <3>4 DEF CommitDone, CountInv, FailuresCounted
  <2>7. CASE RecordFailedAttempt(w)
    <3> PICK e \in Effects : e = work[w].effect
      BY <2>7, BusyHasTask DEF RecordFailedAttempt
    <3>1. work[w] \in Task
      BY <2>7, BusyHasTask DEF RecordFailedAttempt
    <3>2. Outcome(work[w]).attempts <= failures[e]
      BY <2>7, <3>1 DEF RecordFailedAttempt, Outcome, CountInv, FailuresCounted, Task, TypeOK
    <3>3. \A f \in Effects : row'[f].attempts <= failures[f]
      BY <2>7, <3>2, Recorded DEF CountInv, FailuresCounted
    <3>4. \A v \in Workers : v # w => work'[v] = work[v]
      BY <2>7 DEF RecordFailedAttempt, SetPhase, TypeOK
    <3>5. work'[w].attempts = work[w].attempts /\ work'[w].effect = work[w].effect
          /\ work'[w].phase = "acking"
      BY <2>7, <3>1 DEF RecordFailedAttempt, SetPhase, TypeOK, Task
    <3>6. UNCHANGED failures
      BY <2>7 DEF RecordFailedAttempt
    <3> QED BY <2>7, <3>3, <3>4, <3>5, <3>6 DEF RecordFailedAttempt, CountInv, FailuresCounted
  <2> QED BY <1>3, <2>1, <2>2, <2>3, <2>4, <2>4a, <2>5, <2>6, <2>7 DEF WorkerStep
<1>4. CASE WorkerCrash
  BY <1>4, <1>b DEF WorkerCrash, Redeliver, Idle
<1>5. CASE ConnectionLost
  <2>1. ASSUME NEW w \in Workers, work'[w].phase # "idle"
        PROVE  /\ work[w].phase # "idle"
               /\ work'[w].effect = work[w].effect /\ work'[w].attempts = work[w].attempts
               /\ work'[w].phase = work[w].phase
    <3>1. work[w] # Idle
      BY <1>5, <2>1 DEF ConnectionLost, Idle
    <3>2. work[w] \in Task
      BY <3>1 DEF TypeOK
    <3> QED BY <1>5, <3>1, <3>2, <2>1 DEF ConnectionLost, Task
  <2> QED BY <1>5, <2>1, <1>b DEF ConnectionLost, Redeliver
<1>6. ASSUME NEW s \in Sweeps, SweepStep(s) PROVE CountInv'
  <2>1. UNCHANGED <<work, failures>>
    BY <1>6 DEF SweepStep, SweepStart, SweepPublish, SweepPublishFails, SweepCommit, SweepCrash
  <2>2. \A f \in Effects : row'[f].attempts = row[f].attempts
    <3>1. CASE UNCHANGED row
      BY <3>1
    <3>2. CASE SweepCommit(s)
      BY <3>2 DEF SweepCommit, TypeOK, Row
    <3> QED BY <1>6, <3>1, <3>2 DEF SweepStep, SweepStart, SweepPublish, SweepPublishFails, SweepCrash
  <2> QED BY <2>1, <2>2, <1>a
<1>7. CASE UNCHANGED vars
  BY <1>7, <1>a DEF vars
<1> QED BY <1>1, <1>2, <1>3, <1>4, <1>5, <1>6, <1>7 DEF Next

\* attempt_count never exceeds the runs that failed.
THEOREM AttemptsAreFailures == Spec => []FailuresCounted
<1>1. Init => CountInv
  BY DEF Init, CountInv, FailuresCounted, Idle
<1>2. CountInv => FailuresCounted
  BY DEF CountInv
<1> QED BY <1>1, <1>2, CountStep, Typing, PTL DEF Spec

-----------------------------------------------------------------------------
(* A committed success is final, but for late writes.                       *)

CompletedStays == \A e \in completed : row[e].status = "DONE" \/ e \in overwritten

LEMMA CompletedStep ==
    TypeOK /\ LockInv /\ CompletedStays /\ [Next]_vars => CompletedStays'
<1> SUFFICES ASSUME TypeOK, LockInv, CompletedStays, [Next]_vars PROVE CompletedStays'
  OBVIOUS
<1> USE DEF sending, history, budget
<1>a. ASSUME UNCHANGED <<completed, overwritten>>,
             \A f \in Effects : row[f].status = "DONE" => row'[f].status = "DONE"
      PROVE  CompletedStays'
  BY <1>a DEF CompletedStays, TypeOK
<1>1. ASSUME NEW e \in Effects, ProducerStep(e) PROVE CompletedStays'
  <2>1. CASE EnqueueOnly(e) \/ QueueEffect(e) \/ RetryEffect(e)
    BY <2>1, <1>a DEF EnqueueOnly, QueueEffect, RetryEffect, Insert, TypeOK
  <2>2. CASE MarkDispatched(e)
    <3>1. \A f \in Effects \ {e} : row'[f] = row[f]
      BY <2>2 DEF MarkDispatched, TypeOK
    <3>2. overwritten' = overwritten \cup {e} \/ (Open(e) /\ overwritten' = overwritten)
          \/ row[e].status = "DISPATCHED"
      BY <2>2 DEF MarkDispatched, LateWrite
    <3>3. overwritten \subseteq overwritten' /\ UNCHANGED completed
      BY <2>2 DEF MarkDispatched, LateWrite
    <3> QED BY <3>1, <3>2, <3>3 DEF CompletedStays, TypeOK, Open, OpenStatus
  <2>3. CASE QueueExisting(e) \/ Publish(e) \/ DispatchFails(e) \/ MarkFails(e)
    BY <2>3, <1>a DEF QueueExisting, Publish, DispatchFails, MarkFails
  <2> QED BY <1>1, <2>1, <2>2, <2>3 DEF ProducerStep
<1>2. ASSUME NEW e \in Effects, Age(e) PROVE CompletedStays'
  BY <1>2, <1>a DEF Age, TypeOK, Row
<1>3. ASSUME NEW w \in Workers, WorkerStep(w) PROVE CompletedStays'
  <2>1. ASSUME NEW e \in Effects, Claim(w, e) \/ SkipSettled(w, e) \/ ClaimFails(w, e) PROVE CompletedStays'
    BY <2>1, <1>a DEF Claim, SkipSettled, ClaimFails
  <2>2. CASE HandlerSucceeds(w) \/ HandlerRequeues(w) \/ HandlerRefuses(w) \/ HandlerFails(w) \/ Ack(w) \/ CommitFails(w)
    BY <2>2, <1>a DEF HandlerSucceeds, HandlerRequeues, HandlerRefuses, HandlerFails, Ack, CommitFails, Finishes
  <2>3. CASE CommitDone(w)
    <3> PICK e \in Effects : e = work[w].effect
      BY <2>3, BusyHasTask DEF CommitDone
    <3>1. \A f \in Effects \ {e} : row'[f] = row[f]
      BY <2>3 DEF CommitDone, TypeOK
    <3>2. row'[e].status = "DONE"
      BY <2>3 DEF CommitDone, TypeOK, Row
    <3> QED BY <2>3, <3>1, <3>2 DEF CommitDone, CompletedStays, TypeOK
  <2>4. CASE RecordFailedAttempt(w)
    <3> PICK e \in Effects : e = work[w].effect
      BY <2>4, BusyHasTask DEF RecordFailedAttempt
    <3>1. \A f \in Effects \ {e} : row'[f] = row[f]
      BY <2>4, Recorded
    <3>2. overwritten \subseteq overwritten' /\ UNCHANGED completed
      BY <2>4 DEF RecordFailedAttempt, LateWrite
    <3>3. row[e].status = "DONE" => row'[e].status = "DONE" \/ e \in overwritten'
      <4>1. CASE UNCHANGED <<row, overwritten>>
        BY <4>1
      <4>2. CASE row'[e].status = Outcome(work[w]).status /\ LateWrite(e, Outcome(work[w]).status)
        BY <4>2 DEF LateWrite, Open, OpenStatus
      <4> QED BY <2>4, <4>1, <4>2, Recorded
    <3> QED BY <3>1, <3>2, <3>3 DEF CompletedStays, TypeOK
  <2> QED BY <1>3, <2>1, <2>2, <2>3, <2>4 DEF WorkerStep
<1>4. CASE WorkerCrash \/ ConnectionLost
  BY <1>4, <1>a DEF WorkerCrash, ConnectionLost, Redeliver
<1>5. ASSUME NEW s \in Sweeps, SweepStep(s) PROVE CompletedStays'
  <2>1. CASE SweepCommit(s)
    <3>1. ASSUME NEW f \in Effects, row[f].status = "DONE" PROVE row'[f].status = "DONE"
      <4>1. sweep[s][f] = "free"
        BY <3>1 DEF LockInv, LockedIsOpen, Locked, Open, OpenStatus
      <4> QED BY <2>1, <3>1, <4>1 DEF SweepCommit
    <3> QED BY <2>1, <3>1, <1>a DEF SweepCommit
  <2>2. CASE UNCHANGED <<row, completed, overwritten>>
    BY <2>2, <1>a
  <2> QED BY <1>5, <2>1, <2>2 DEF SweepStep, SweepStart, SweepPublish, SweepPublishFails, SweepCrash
<1>6. CASE UNCHANGED vars
  BY <1>6, <1>a DEF vars
<1> QED BY <1>1, <1>2, <1>3, <1>4, <1>5, <1>6 DEF Next

\* A completed effect runs again only if a late write overwrote its DONE.
THEOREM CompletedRunsOnce == Spec => []CompletedNotRerun
<1>1. Init => LockInv /\ CompletedStays
  BY DEF Init, LockInv, RowLockExclusive, LockedIsOpen, Locked, Holds, Idle, CompletedStays
<1>2. TypeOK /\ LockInv /\ CompletedStays => CompletedNotRerun
  <2> SUFFICES ASSUME TypeOK, LockInv, CompletedStays, NEW w \in Workers,
                      work[w].phase = "running"
               PROVE  work[w].effect \notin completed \ overwritten
    BY DEF CompletedNotRerun
  <2> PICK e \in Effects : e = work[w].effect
    BY BusyHasTask
  <2>1. Open(e)
    BY DEF LockInv, LockedIsOpen, Locked, Holds
  <2> QED BY <2>1 DEF CompletedStays, Open, OpenStatus
<1> QED BY <1>1, <1>2, LockStep, CompletedStep, Typing, PTL DEF Spec

-----------------------------------------------------------------------------
(* The outbox implements EffectPromise.                                     *)

\* Dispatches and calls are about rows that exist, and a call that succeeded or
\* was refused has finished its effect.
DispatchInv ==
    \A e \in Effects : marking[e] > 0 \/ publishing[e] > 0 => row[e].status # "ABSENT"

CallInv ==
    \A w \in Workers :
        /\ work[w].phase # "idle" => row[work[w].effect].status # "ABSENT"
        /\ work[w].phase \in {"succeeded", "refused"} => work[w].effect \in finished

WorkInv == DispatchInv /\ CallInv

\* A row that exists never disappears.
LEMMA RowsStay ==
    ASSUME TypeOK, Next, NEW e \in Effects, row[e].status # "ABSENT"
    PROVE  row'[e].status # "ABSENT"
<1>1. ASSUME NEW f \in Effects, ProducerStep(f) PROVE row'[e].status # "ABSENT"
  BY <1>1 DEF ProducerStep, EnqueueOnly, QueueEffect, QueueExisting, RetryEffect, Publish,
              DispatchFails, MarkDispatched, MarkFails, Insert, TypeOK, Row
<1>2. ASSUME NEW f \in Effects, Age(f) PROVE row'[e].status # "ABSENT"
  BY <1>2 DEF Age, TypeOK, Row
<1>3. ASSUME NEW w \in Workers, WorkerStep(w) PROVE row'[e].status # "ABSENT"
  <2>1. CASE CommitDone(w)
    BY <2>1 DEF CommitDone, TypeOK, Row
  <2>2. CASE RecordFailedAttempt(w)
    <3> PICK f \in Effects : f = work[w].effect
      BY <2>2, BusyHasTask DEF RecordFailedAttempt
    <3>1. Outcome(work[w]).status # "ABSENT"
      BY <2>2, BusyHasTask DEF RecordFailedAttempt, Outcome, OpenStatus
    <3> QED BY <2>2, <3>1, Recorded
  <2>3. CASE UNCHANGED row
    BY <2>3
  <2> QED BY <1>3, <2>1, <2>2, <2>3 DEF WorkerStep, Claim, SkipSettled, HandlerSucceeds,
          HandlerRequeues, HandlerRefuses, HandlerFails, Finishes, Ack, CommitFails, ClaimFails
<1>4. ASSUME NEW s \in Sweeps, SweepStep(s) PROVE row'[e].status # "ABSENT"
  <2>1. CASE SweepCommit(s)
    BY <2>1 DEF SweepCommit, TypeOK, Row
  <2>2. CASE UNCHANGED row
    BY <2>2
  <2> QED BY <1>4, <2>1, <2>2 DEF SweepStep, SweepStart, SweepPublish, SweepPublishFails, SweepCrash
<1>5. CASE WorkerCrash \/ ConnectionLost
  BY <1>5 DEF WorkerCrash, ConnectionLost, Redeliver
<1> QED BY <1>1, <1>2, <1>3, <1>4, <1>5 DEF Next

LEMMA WorkStep == TypeOK /\ WorkInv /\ [Next]_vars => WorkInv'
<1> SUFFICES ASSUME TypeOK, WorkInv, Next PROVE WorkInv'
  <2>1. CASE UNCHANGED vars
    BY <2>1 DEF vars, sending, history, WorkInv, DispatchInv, CallInv
  <2> QED BY <2>1
<1> USE DEF sending, history, budget
\* Steps after which every call is the call it was, or has become idle.
<1> DEFINE CallsKept ==
        \A w \in Workers : work'[w].phase # "idle" =>
            /\ work[w].phase # "idle" /\ work'[w].effect = work[w].effect
            /\ work'[w].phase \in {"succeeded", "refused"} =>
                   work[w].phase \in {"succeeded", "refused"} \/ work[w].effect \in finished'
<1>a. ASSUME CallsKept, finished \subseteq finished' PROVE CallInv'
  <2> SUFFICES ASSUME NEW w \in Workers, work'[w].phase # "idle"
               PROVE  /\ row'[work'[w].effect].status # "ABSENT"
                      /\ work'[w].phase \in {"succeeded", "refused"} => work'[w].effect \in finished'
    BY DEF CallInv
  <2>1. work[w].effect \in Effects /\ row[work[w].effect].status # "ABSENT"
    BY <1>a, BusyHasTask DEF WorkInv, DispatchInv, CallInv
  <2> QED BY <1>a, <2>1, RowsStay DEF WorkInv, DispatchInv, CallInv
<1>b. ASSUME \A f \in Effects : marking'[f] > 0 \/ publishing'[f] > 0 =>
                 marking[f] > 0 \/ publishing[f] > 0 \/ row'[f].status # "ABSENT"
      PROVE  DispatchInv'
  BY <1>b, RowsStay DEF WorkInv, DispatchInv, CallInv
<1>1. ASSUME NEW e \in Effects, ProducerStep(e) PROVE WorkInv'
  <2>1. CallInv'
    BY <1>1, <1>a DEF ProducerStep, EnqueueOnly, QueueEffect, QueueExisting, RetryEffect, Publish,
                DispatchFails, MarkDispatched, MarkFails
  <2>2. CASE QueueEffect(e) \/ RetryEffect(e) \/ QueueExisting(e)
    <3>1. row'[e].status # "ABSENT"
      BY <2>2 DEF QueueEffect, RetryEffect, QueueExisting, Insert, Open, OpenStatus, TypeOK
    <3>2. \A f \in Effects \ {e} : publishing'[f] = publishing[f] /\ marking'[f] = marking[f]
      BY <2>2 DEF QueueEffect, RetryEffect, QueueExisting, StartDispatch, TypeOK
    <3> QED BY <2>1, <3>1, <3>2, <1>b DEF WorkInv, DispatchInv, CallInv
  <2>3. CASE EnqueueOnly(e) \/ DispatchFails(e) \/ MarkDispatched(e) \/ MarkFails(e) \/ Publish(e)
    <3>1. \A f \in Effects : marking'[f] > 0 \/ publishing'[f] > 0 => marking[f] > 0 \/ publishing[f] > 0
      BY <2>3 DEF EnqueueOnly, DispatchFails, MarkDispatched, MarkFails, Publish, TypeOK
    <3> QED BY <2>1, <3>1, <1>b DEF WorkInv, DispatchInv, CallInv
  <2> QED BY <1>1, <2>2, <2>3 DEF ProducerStep
<1>2. ASSUME NEW e \in Effects, Age(e) PROVE WorkInv'
  BY <1>2, <1>a, <1>b DEF Age, WorkInv
<1>3. ASSUME NEW w \in Workers, WorkerStep(w) PROVE WorkInv'
  <2>1. DispatchInv'
    BY <1>3, <1>b DEF WorkerStep, Claim, SkipSettled, HandlerSucceeds, HandlerRequeues, HandlerRefuses,
                HandlerFails, Finishes, CommitDone, CommitFails, ClaimFails, RecordFailedAttempt, Ack
  <2>2. ASSUME NEW e \in Effects, Claim(w, e) PROVE CallInv'
    <3>1. UNCHANGED <<row, finished>> /\ row[e].status # "ABSENT"
      BY <2>2 DEF Claim, Open, OpenStatus
    <3>2. \A v \in Workers \ {w} : work'[v] = work[v]
      BY <2>2 DEF Claim, TypeOK
    <3>3. work'[w].effect = e /\ work'[w].phase = "running"
      BY <2>2 DEF Claim, TypeOK
    <3> QED BY <3>1, <3>2, <3>3 DEF WorkInv, DispatchInv, CallInv
  <2>3. ASSUME NEW p \in Phases, work[w].phase # "idle", SetPhase(w, p),
               p \in {"succeeded", "refused"} => work[w].effect \in finished',
               finished \subseteq finished'
        PROVE  CallInv'
    <3>1. \A v \in Workers \ {w} : work'[v] = work[v]
      BY <2>3 DEF SetPhase, TypeOK
    <3>2. work'[w].effect = work[w].effect /\ work'[w].phase = p
      BY <2>3, BusyHasTask DEF SetPhase, TypeOK, Task
    <3> QED BY <2>3, <3>1, <3>2, <1>a
  <2>4. ASSUME HandlerSucceeds(w) PROVE CallInv'
    <3>1. /\ work[w].phase # "idle" /\ SetPhase(w, "succeeded") /\ finished \subseteq finished'
          /\ "succeeded" \in {"succeeded", "refused"} => work[w].effect \in finished'
      BY <2>4 DEF HandlerSucceeds, Finishes
    <3> QED BY <3>1, <2>3 DEF Phases
  <2>5. ASSUME HandlerRefuses(w) PROVE CallInv'
    <3>1. /\ work[w].phase # "idle" /\ SetPhase(w, "refused") /\ finished \subseteq finished'
          /\ "refused" \in {"succeeded", "refused"} => work[w].effect \in finished'
      BY <2>5 DEF HandlerRefuses, Finishes
    <3> QED BY <3>1, <2>3 DEF Phases
  <2>6. ASSUME HandlerFails(w) PROVE CallInv'
    <3>1. /\ work[w].phase # "idle" /\ SetPhase(w, "failed") /\ finished \subseteq finished'
          /\ "failed" \in {"succeeded", "refused"} => work[w].effect \in finished'
      BY <2>6 DEF HandlerFails, Finishes
    <3> QED BY <3>1, <2>3 DEF Phases
  <2>7. ASSUME CommitDone(w) PROVE CallInv'
    <3>1. /\ work[w].phase # "idle" /\ SetPhase(w, "acking") /\ finished \subseteq finished'
          /\ "acking" \in {"succeeded", "refused"} => work[w].effect \in finished'
      BY <2>7 DEF CommitDone, Finishes
    <3> QED BY <3>1, <2>3 DEF Phases
  <2>8. ASSUME RecordFailedAttempt(w) PROVE CallInv'
    <3>1. /\ work[w].phase # "idle" /\ SetPhase(w, "acking") /\ finished \subseteq finished'
          /\ "acking" \in {"succeeded", "refused"} => work[w].effect \in finished'
      BY <2>8 DEF RecordFailedAttempt, Finishes
    <3> QED BY <3>1, <2>3 DEF Phases
  <2>8a. ASSUME CommitFails(w) PROVE CallInv'
    <3>1. /\ work[w].phase # "idle" /\ SetPhase(w, "acking") /\ finished \subseteq finished'
          /\ "acking" \in {"succeeded", "refused"} => work[w].effect \in finished'
      BY <2>8a DEF CommitFails
    <3> QED BY <3>1, <2>3 DEF Phases
  <2>9. ASSUME \/ HandlerRequeues(w) \/ Ack(w)
               \/ \E e \in Effects : SkipSettled(w, e) \/ ClaimFails(w, e)
        PROVE  CallInv'
    <3>1. UNCHANGED finished /\ (work' = work \/ work' = [work EXCEPT ![w] = Idle])
      BY <2>9 DEF HandlerRequeues, Ack, SkipSettled, ClaimFails
    <3>2. CallsKept
      BY <3>1 DEF Idle, TypeOK
    <3> QED BY <3>1, <3>2, <1>a
  <2> QED BY <1>3, <2>1, <2>2, <2>4, <2>5, <2>6, <2>7, <2>8, <2>8a, <2>9 DEF WorkerStep, WorkInv
<1>4. CASE WorkerCrash \/ ConnectionLost
  <2>1. UNCHANGED <<marking, publishing, finished>>
    BY <1>4 DEF WorkerCrash, ConnectionLost, Redeliver
  <2>2. ASSUME NEW w \in Workers, work'[w].phase # "idle"
        PROVE  /\ work[w].phase # "idle" /\ work'[w].effect = work[w].effect
               /\ work'[w].phase = work[w].phase
    <3>1. ConnectionLost /\ work[w] # Idle
      BY <1>4, <2>2 DEF ConnectionLost, WorkerCrash, Idle
    <3>2. work[w] \in Task
      BY <3>1 DEF TypeOK
    <3> QED BY <3>1, <3>2, <2>2 DEF ConnectionLost, Task
  <2>3. DispatchInv' /\ CallInv'
    BY <2>1, <2>2, <1>a, <1>b
  <2> QED BY <2>3 DEF WorkInv, DispatchInv, CallInv
<1>5. ASSUME NEW s \in Sweeps, SweepStep(s) PROVE WorkInv'
  <2>1. UNCHANGED <<marking, publishing, finished, work>>
    BY <1>5 DEF SweepStep, SweepStart, SweepPublish, SweepPublishFails, SweepCommit, SweepCrash
  <2>2. DispatchInv' /\ CallInv'
    BY <2>1, <1>a, <1>b
  <2> QED BY <2>2 DEF WorkInv, DispatchInv, CallInv
<1> QED BY <1>1, <1>2, <1>3, <1>4, <1>5 DEF Next

\* The abstract state when one row changes, and when none does.
StateMap == [e \in Effects |-> StateOf(e)]

LEMMA StateChange ==
    ASSUME NEW e \in Effects, \A f \in Effects \ {e} : row'[f] = row[f]
    PROVE  StateMap' = [StateMap EXCEPT ![e] = StateOf(e)']
<1>1. \A f \in Effects \ {e} : StateOf(f)' = StateOf(f)
  BY DEF StateOf
<1> QED BY <1>1 DEF StateMap

LEMMA StateSame ==
    ASSUME \A f \in Effects : row'[f].status = row[f].status \/ (Open(f) /\ Open(f)')
    PROVE  StateMap' = StateMap
<1>1. ASSUME NEW f \in Effects PROVE StateOf(f)' = StateOf(f)
  <2>1. CASE row'[f].status = row[f].status
    BY <2>1 DEF StateOf
  <2>2. CASE Open(f) /\ Open(f)'
    BY <2>2 DEF StateOf, Open, OpenStatus
  <2> QED BY <2>1, <2>2
<1> QED BY <1>1 DEF StateMap

LEMMA PromiseStep ==
    TypeOK /\ LockInv /\ CountInv /\ WorkInv /\ [Next]_vars
        => [Promise!Next]_<<StateMap, finished, failures>>
<1> SUFFICES ASSUME TypeOK, LockInv, CountInv, WorkInv, [Next]_vars
             PROVE  Promise!Next \/ UNCHANGED <<StateMap, finished, failures>>
  OBVIOUS
<1> USE DEF sending, history, budget
<1>a. ASSUME UNCHANGED <<finished, failures>>,
             \A f \in Effects : row'[f].status = row[f].status \/ (Open(f) /\ Open(f)')
      PROVE  UNCHANGED <<StateMap, finished, failures>>
  BY <1>a, StateSame
\* The row e is written: its abstract state follows.
<1>b. ASSUME NEW e \in Effects, UNCHANGED <<finished, failures>>,
             \A f \in Effects \ {e} : row'[f] = row[f],
             \/ row[e].status = "ABSENT" /\ row'[e].status = "PENDING"
             \/ row[e].status \in {"DONE", "FAILED"} /\ Open(e)'
             \/ row[e].status # "ABSENT" /\ row'[e].status = "DONE" /\ e \in finished
             \/ row[e].status # "ABSENT" /\ row'[e].status = "FAILED" /\ failures[e] >= MaxAttempts
      PROVE  Promise!Next
  <2>1. StateMap' = [StateMap EXCEPT ![e] = StateOf(e)'] /\ StateMap[e] = StateOf(e)
    BY <1>b, StateChange DEF StateMap
  <2>2. CASE row[e].status = "ABSENT" /\ row'[e].status = "PENDING"
    BY <1>b, <2>1, <2>2 DEF StateOf, OpenStatus, StateMap, Promise!Next, Promise!Request, Promise!Becomes
  <2>3. CASE row[e].status \in {"DONE", "FAILED"} /\ Open(e)'
    BY <1>b, <2>1, <2>3 DEF StateOf, Open, OpenStatus, StateMap, Promise!Next, Promise!Reopen, Promise!Becomes
  <2>4. CASE row[e].status # "ABSENT" /\ row'[e].status = "DONE" /\ e \in finished
    <3>1. StateOf(e) # "absent" /\ StateOf(e)' = "done"
      BY <2>4 DEF StateOf, OpenStatus
    <3> QED BY <1>b, <2>1, <2>4, <3>1 DEF StateMap, Promise!Next, Promise!Done, Promise!Becomes
  <2>5. CASE row[e].status # "ABSENT" /\ row'[e].status = "FAILED" /\ failures[e] >= MaxAttempts
    <3>1. StateOf(e) # "absent" /\ StateOf(e)' = "failed"
      BY <2>5 DEF StateOf, OpenStatus
    <3> QED BY <1>b, <2>1, <2>5, <3>1 DEF StateMap, Promise!Next, Promise!GiveUp, Promise!Becomes
  <2> QED BY <1>b, <2>2, <2>3, <2>4, <2>5
<1> HIDE DEF StateMap
<1>1. ASSUME NEW e \in Effects, ProducerStep(e)
      PROVE  Promise!Next \/ UNCHANGED <<StateMap, finished, failures>>
  <2>1. CASE EnqueueOnly(e) \/ QueueEffect(e)
    BY <2>1, <1>b DEF EnqueueOnly, QueueEffect, Insert, TypeOK
  <2>2. CASE RetryEffect(e)
    BY <2>2, <1>b DEF RetryEffect, Open, OpenStatus, TypeOK
  <2>3. CASE MarkDispatched(e)
    <3>1. /\ \A f \in Effects \ {e} : row'[f] = row[f]
          /\ row'[e].status = "DISPATCHED"
          /\ row[e].status # "ABSENT"
      BY <2>3 DEF MarkDispatched, TypeOK, Row, WorkInv, DispatchInv
    <3>2. CASE Open(e)
      BY <2>3, <3>1, <3>2, <1>a DEF MarkDispatched, Open, OpenStatus
    <3>3. CASE ~Open(e)
      <4>1. row[e].status \in {"DONE", "FAILED"} /\ Open(e)'
        BY <3>1, <3>3 DEF Open, OpenStatus, TypeOK, Row
      <4> QED BY <2>3, <3>1, <4>1, <1>b DEF MarkDispatched
    <3> QED BY <3>2, <3>3
  <2>4. CASE QueueExisting(e) \/ Publish(e) \/ DispatchFails(e) \/ MarkFails(e)
    BY <2>4, <1>a DEF QueueExisting, Publish, DispatchFails, MarkFails
  <2> QED BY <1>1, <2>1, <2>2, <2>3, <2>4 DEF ProducerStep
<1>2. ASSUME NEW e \in Effects, Age(e)
      PROVE  Promise!Next \/ UNCHANGED <<StateMap, finished, failures>>
  <2>1. \A f \in Effects : row'[f].status = row[f].status
    BY <1>2 DEF Age, TypeOK, Row
  <2> QED BY <1>2, <2>1, <1>a DEF Age
<1>3. ASSUME NEW w \in Workers, WorkerStep(w)
      PROVE  Promise!Next \/ UNCHANGED <<StateMap, finished, failures>>
  <2>1. CASE HandlerSucceeds(w) \/ HandlerRefuses(w) \/ HandlerFails(w)
    <3> PICK e \in Effects : e = work[w].effect
      BY <2>1, BusyHasTask DEF HandlerSucceeds, HandlerRefuses, HandlerFails
    <3>1. Open(e)
      BY <2>1 DEF LockInv, LockedIsOpen, Locked, Holds, HandlerSucceeds, HandlerRefuses, HandlerFails
    <3>2. StateMap[e] = "open"
      BY <3>1 DEF StateMap, StateOf, Open, OpenStatus
    <3>3. UNCHANGED row
      BY <2>1 DEF HandlerSucceeds, HandlerRefuses, HandlerFails, Finishes
    <3>4. UNCHANGED StateMap
      BY <3>3, StateSame
    <3>5. CASE HandlerSucceeds(w) \/ HandlerRefuses(w)
      BY <3>2, <3>4, <3>5 DEF HandlerSucceeds, HandlerRefuses, Finishes, Promise!Next, Promise!Finish, StateMap
    <3>6. CASE HandlerFails(w)
      BY <3>2, <3>4, <3>6 DEF HandlerFails, Promise!Next, Promise!Fail, StateMap
    <3> QED BY <2>1, <3>5, <3>6
  <2>2. CASE CommitDone(w)
    <3> PICK e \in Effects : e = work[w].effect
      BY <2>2, BusyHasTask DEF CommitDone
    <3>1. /\ \A f \in Effects \ {e} : row'[f] = row[f]
          /\ row'[e].status = "DONE"
          /\ UNCHANGED <<finished, failures>>
      BY <2>2 DEF CommitDone, TypeOK, Row
    <3>2. row[e].status # "ABSENT" /\ e \in finished
      BY <2>2 DEF CommitDone, WorkInv, CallInv
    <3> QED BY <3>1, <3>2, <1>b
  <2>3. CASE RecordFailedAttempt(w)
    <3> PICK e \in Effects : e = work[w].effect
      BY <2>3, BusyHasTask DEF RecordFailedAttempt
    <3> DEFINE o == Outcome(work[w])
    <3>1. UNCHANGED <<finished, failures>> /\ work[w].phase \in {"refused", "failed"}
      BY <2>3 DEF RecordFailedAttempt
    <3>2. row[e].status # "ABSENT"
      BY <3>1 DEF WorkInv, CallInv
    <3>3. /\ o.status = "DONE" => e \in finished
          /\ o.status = "FAILED" => failures[e] >= MaxAttempts
          /\ o.status \in {"DONE", "FAILED"} \cup OpenStatus
      <4>1. CASE work[w].phase = "refused"
        BY <4>1 DEF Outcome, WorkInv, CallInv
      <4>2. CASE work[w].phase = "failed"
        <5>1. work[w].attempts < failures[e] /\ work[w].attempts \in Nat /\ work[w].status \in OpenStatus
              /\ failures[e] \in Nat
          BY <4>2, BusyHasTask DEF CountInv, FailuresCounted, TypeOK
        <5>2. o.status = IF work[w].attempts + 1 >= MaxAttempts THEN "FAILED" ELSE work[w].status
          BY <4>2 DEF Outcome
        <5> QED BY <5>1, <5>2, OutboxAssumption DEF OpenStatus
      <4> QED BY <3>1, <4>1, <4>2
    <3>4. CASE UNCHANGED row
      BY <3>1, <3>4, <1>a
    <3>5. CASE row'[e].status = o.status /\ \A f \in Effects \ {e} : row'[f] = row[f]
      <4>1. CASE o.status \in {"DONE", "FAILED"}
        BY <3>1, <3>2, <3>3, <3>5, <4>1, <1>b
      <4>2. CASE o.status \in OpenStatus /\ ~Open(e)
        BY <3>1, <3>2, <3>5, <4>2, <1>b DEF Open, TypeOK, Row
      <4>3. CASE o.status \in OpenStatus /\ Open(e)
        BY <3>1, <3>5, <4>3, <1>a DEF Open
      <4> QED BY <3>3, <4>1, <4>2, <4>3
    <3> QED BY <2>3, <3>4, <3>5, Recorded
  <2>4. CASE UNCHANGED <<row, finished, failures>>
    BY <2>4, <1>a
  <2> QED BY <1>3, <2>1, <2>2, <2>3, <2>4 DEF WorkerStep, Claim, SkipSettled, ClaimFails,
          HandlerRequeues, Ack, CommitFails
<1>4. CASE WorkerCrash \/ ConnectionLost
  BY <1>4, <1>a DEF WorkerCrash, ConnectionLost, Redeliver
<1>5. ASSUME NEW s \in Sweeps, SweepStep(s)
      PROVE  Promise!Next \/ UNCHANGED <<StateMap, finished, failures>>
  <2>1. CASE SweepCommit(s)
    <3>1. ASSUME NEW f \in Effects
          PROVE  row'[f].status = row[f].status \/ (Open(f) /\ Open(f)')
      <4>1. CASE sweep[s][f] = "sent"
        <5>1. Open(f)
          BY <4>1 DEF LockInv, LockedIsOpen, Locked
        <5> QED BY <2>1, <4>1, <5>1 DEF SweepCommit, Open, OpenStatus, TypeOK, Row
      <4>2. CASE sweep[s][f] # "sent"
        BY <2>1, <4>2 DEF SweepCommit
      <4> QED BY <4>1, <4>2
    <3> QED BY <2>1, <3>1, <1>a DEF SweepCommit
  <2>2. CASE UNCHANGED <<row, finished, failures>>
    BY <2>2, <1>a
  <2> QED BY <1>5, <2>1, <2>2 DEF SweepStep, SweepStart, SweepPublish, SweepPublishFails, SweepCrash
<1>6. CASE UNCHANGED vars
  BY <1>6, <1>a DEF vars
<1> QED BY <1>1, <1>2, <1>3, <1>4, <1>5, <1>6 DEF Next

\* The outbox keeps the promise of EffectPromise.
THEOREM OutboxKeepsPromise == Spec => KeepsPromise
<1>1. Init => Promise!Init
  <2> SUFFICES ASSUME Init PROVE Promise!Init
    OBVIOUS
  <2>1. \A e \in Effects : row[e].status = "ABSENT"
    BY DEF Init
  <2>2. ASSUME NEW e \in Effects PROVE StateOf(e) = "absent"
    BY <2>1 DEF StateOf, OpenStatus
  <2> QED BY <2>2 DEF Init, Promise!Init
<1>2. Init => LockInv /\ CountInv /\ WorkInv
  BY DEF Init, LockInv, RowLockExclusive, LockedIsOpen, Locked, Holds, Idle, CountInv,
         FailuresCounted, WorkInv, DispatchInv, CallInv
<1>3. TypeOK /\ LockInv /\ CountInv /\ WorkInv /\ [Next]_vars => [Promise!Next]_Promise!promiseVars
  BY PromiseStep DEF StateMap, Promise!promiseVars
<1> QED BY <1>1, <1>2, <1>3, LockStep, CountStep, WorkStep, Typing, PTL DEF Spec, KeepsPromise, Promise!Spec

-----------------------------------------------------------------------------
(* Outbox implements EffectRuns.                                           *)

\* What each call is doing, as EffectRuns sees it.
TaskMap == [w \in Workers |-> TaskOf(w)]

-----------------------------------------------------------------------------
\* The locks and the keys mean the same on both sides.
LEMMA HeldSame ==
    ASSUME NEW e \in Effects
    PROVE  Runs!Held(e) <=> \E w \in Workers : Holds(w, e)
<1>1. ASSUME NEW w \in Workers
      PROVE  Holds(w, e) <=> TaskOf(w).phase \in {"running", "succeeded"} /\ TaskOf(w).effect = e
  BY DEF Holds, TaskOf, Idle
<1> QED BY <1>1 DEF Runs!Held

LEMMA OpenSame ==
    ASSUME NEW e \in Effects PROVE Open(e) <=> StateOf(e) = "open"
  BY DEF Open, StateOf, OpenStatus

LEMMA KeySame ==
    ASSUME NEW e \in Effects PROVE Runs!KeyIsFree(e) <=> KeyFree(e)
  BY OpenSame, OutboxAssumption DEF Runs!KeyIsFree, KeyFree

\* The runs when one call changes, and when none does.
LEMMA TaskChange ==
    ASSUME NEW w \in Workers, \A v \in Workers \ {w} : work'[v] = work[v]
    PROVE  TaskMap' = [TaskMap EXCEPT ![w] = TaskOf(w)']
<1>1. \A v \in Workers \ {w} : TaskOf(v)' = TaskOf(v)
  BY DEF TaskOf
<1> QED BY <1>1 DEF TaskMap

LEMMA TaskSame ==
    ASSUME \A w \in Workers : TaskOf(w)' = TaskOf(w) PROVE TaskMap' = TaskMap
  BY DEF TaskMap

\* A call that enters a phase shows it.
LEMMA PhaseShows ==
    ASSUME TypeOK, NEW w \in Workers, work[w].phase \in {"running", "succeeded", "refused", "failed"},
           NEW p \in {"running", "succeeded", "refused", "failed"}, SetPhase(w, p)
    PROVE  /\ TaskMap' = [TaskMap EXCEPT ![w].phase = p]
           /\ TaskMap[w].phase = work[w].phase /\ TaskMap[w].effect = work[w].effect
<1>1. work[w] \in Task
  BY BusyHasTask
<1>2. TaskOf(w) = [phase |-> work[w].phase, effect |-> work[w].effect]
  BY DEF TaskOf
<1>3. work'[w] = [work[w] EXCEPT !.phase = p] /\ \A v \in Workers \ {w} : work'[v] = work[v]
  BY DEF SetPhase, TypeOK
<1>4. TaskOf(w)' = [phase |-> p, effect |-> work[w].effect]
  BY <1>1, <1>3 DEF TaskOf, Task
<1>5. TaskOf(w)' = [TaskOf(w) EXCEPT !.phase = p]
  BY <1>2, <1>4
<1> QED BY <1>2, <1>3, <1>5, TaskChange DEF TaskMap

\* A call that ends shows nothing.
LEMMA EndShows ==
    ASSUME TypeOK, NEW w \in Workers, work[w].phase \in {"running", "succeeded", "refused", "failed"},
           SetPhase(w, "acking") \/ work' = [work EXCEPT ![w] = Idle]
    PROVE  /\ TaskMap' = [TaskMap EXCEPT ![w] = Idle]
           /\ TaskMap[w].phase = work[w].phase /\ TaskMap[w].effect = work[w].effect
<1>1. work[w] \in Task
  BY BusyHasTask, Zenon
<1>2. TaskOf(w) = [phase |-> work[w].phase, effect |-> work[w].effect]
  BY DEF TaskOf
<1>3. work'[w].phase \in {"acking", "idle"} /\ \A v \in Workers \ {w} : work'[v] = work[v]
  BY <1>1 DEF SetPhase, TypeOK, Idle, Task
<1>4. TaskOf(w)' = Idle
  BY <1>3 DEF TaskOf
<1> QED BY <1>2, <1>3, <1>4, TaskChange DEF TaskMap

-----------------------------------------------------------------------------
\* The runs' part of the refinement, one step per kind of call.
LEMMA WorkerRuns ==
    ASSUME TypeOK, NEW w \in Workers, WorkerStep(w)
    PROVE  Runs!RunsNext \/ UNCHANGED <<StateMap, TaskMap>>
<1> USE DEF sending, history, budget
<1>a. ASSUME UNCHANGED row PROVE StateMap' = StateMap
  BY <1>a, StateSame
<1>1. ASSUME NEW e \in Effects, Claim(w, e) PROVE Runs!Begin(w, e)
  <2>1. StateMap' = StateMap /\ StateMap[e] = "open"
    BY <1>1, <1>a, OpenSame DEF Claim, StateMap
  <2>2. TaskMap[w] = Idle
    BY <1>1 DEF Claim, TaskMap, TaskOf, Idle
  <2>3. ~Runs!Held(e)
    BY <1>1, HeldSame DEF Claim, Take, Locked
  <2>4. work'[w].phase = "running" /\ work'[w].effect = e /\ \A v \in Workers \ {w} : work'[v] = work[v]
    BY <1>1 DEF Claim, TypeOK
  <2>5. TaskOf(w)' = [phase |-> "running", effect |-> e]
    BY <2>4 DEF TaskOf
  <2>6. TaskMap' = [TaskMap EXCEPT ![w] = [phase |-> "running", effect |-> e]]
    BY <2>4, <2>5, TaskChange
  <2> QED BY <2>1, <2>2, <2>3, <2>6 DEF Runs!Begin, StateMap, TaskMap, Runs!Idle, Idle
<1>2. ASSUME NEW e \in Effects, SkipSettled(w, e) \/ ClaimFails(w, e)
      PROVE  UNCHANGED <<StateMap, TaskMap>>
  BY <1>2, <1>a, TaskSame DEF SkipSettled, ClaimFails, TaskOf
<1>3. ASSUME HandlerSucceeds(w) PROVE Runs!Succeed(w)
  BY <1>3, <1>a, PhaseShows
     DEF HandlerSucceeds, Finishes, Runs!Succeed, Runs!Ends, StateMap, TaskMap
<1>4. ASSUME HandlerRefuses(w) PROVE Runs!Refuse(w)
  BY <1>4, <1>a, PhaseShows
     DEF HandlerRefuses, Finishes, Runs!Refuse, Runs!Ends, StateMap, TaskMap
<1>5. ASSUME HandlerFails(w) PROVE Runs!Fail(w)
  BY <1>5, <1>a, PhaseShows DEF HandlerFails, Runs!Fail, Runs!Ends, StateMap, TaskMap
<1>6. ASSUME HandlerRequeues(w) PROVE Runs!Requeue(w)
  BY <1>6, <1>a, EndShows DEF HandlerRequeues, Runs!Requeue, StateMap, TaskMap, Runs!Idle, Idle
<1>7. ASSUME CommitFails(w) PROVE Runs!CommitFails(w)
  BY <1>7, <1>a, EndShows DEF CommitFails, Runs!CommitFails, StateMap, TaskMap, Runs!Idle, Idle
<1>8. ASSUME CommitDone(w) PROVE Runs!Commit(w)
  <2> PICK e \in Effects : e = work[w].effect
    BY <1>8, BusyHasTask DEF CommitDone
  <2>1. row'[e].status = "DONE" /\ \A f \in Effects \ {e} : row'[f] = row[f]
    BY <1>8 DEF CommitDone, TypeOK, Row
  <2>2. StateMap' = [StateMap EXCEPT ![e] = "done"]
    <3>1. StateOf(e)' = "done"
      BY <2>1 DEF StateOf, OpenStatus
    <3> QED BY <2>1, <3>1, StateChange
  <2> QED BY <1>8, <2>2, EndShows DEF CommitDone, Runs!Commit, StateMap, TaskMap, Runs!Idle, Idle
<1>9. ASSUME Ack(w) PROVE UNCHANGED <<StateMap, TaskMap>>
  <2>1. work' = [work EXCEPT ![w] = Idle] /\ work[w].phase = "acking" /\ UNCHANGED row
    BY <1>9 DEF Ack
  <2>2. TaskOf(w)' = TaskOf(w)
    BY <2>1 DEF TaskOf, TypeOK, Idle
  <2>3. \A v \in Workers \ {w} : TaskOf(v)' = TaskOf(v)
    BY <2>1 DEF TaskOf, TypeOK
  <2> QED BY <2>1, <2>2, <2>3, <1>a, TaskSame
<1>10. ASSUME RecordFailedAttempt(w) PROVE Runs!Record(w)
  <2> PICK e \in Effects : e = work[w].effect
    BY <1>10, BusyHasTask DEF RecordFailedAttempt
  <2> DEFINE o == Outcome(work[w])
  <2>1. ~Runs!Held(e)
    BY <1>10, HeldSame DEF RecordFailedAttempt, Locked
  <2>2. /\ TaskMap' = [TaskMap EXCEPT ![w] = Idle]
        /\ TaskMap[w].phase = work[w].phase /\ TaskMap[w].effect = e
        /\ TaskMap[w].phase \in {"refused", "failed"}
    BY <1>10, EndShows DEF RecordFailedAttempt
  <2>3. \/ work[w].phase = "refused" /\ o.status = "DONE"
        \/ work[w].phase = "failed" /\ o.status \in {"FAILED"} \cup OpenStatus
    BY <1>10, BusyHasTask DEF RecordFailedAttempt, Outcome
  <2>4. CASE /\ o.status \in OpenStatus => KeyFree(e)
             /\ row'[e].status = o.status /\ \A f \in Effects \ {e} : row'[f] = row[f]
    <3>1. StateMap' = [StateMap EXCEPT ![e] = StateOf(e)']
      BY <2>4, StateChange
    <3>2. CASE work[w].phase = "refused"
      <4>1. StateOf(e)' = "done"
        BY <2>3, <2>4, <3>2 DEF StateOf, OpenStatus
      <4> QED BY <2>1, <2>2, <3>1, <3>2, <4>1 DEF Runs!Record, StateMap, TaskMap, Runs!Idle, Idle
    <3>3. CASE work[w].phase = "failed" /\ o.status = "FAILED"
      <4>1. StateOf(e)' = "failed"
        BY <2>4, <3>3 DEF StateOf, OpenStatus
      <4> QED BY <2>1, <2>2, <3>1, <3>3, <4>1 DEF Runs!Record, StateMap, TaskMap, Runs!Idle, Idle
    <3>4. CASE work[w].phase = "failed" /\ o.status \in OpenStatus
      <4>1. StateOf(e)' = "open" /\ Runs!KeyIsFree(e)
        BY <2>4, <3>4, KeySame DEF StateOf, OpenStatus
      <4> QED BY <2>1, <2>2, <3>1, <3>4, <4>1 DEF Runs!Record, StateMap, TaskMap, Runs!Idle, Idle
    <3> QED BY <2>3, <3>2, <3>3, <3>4
  <2>5. CASE o.status \in OpenStatus /\ ~KeyFree(e) /\ UNCHANGED row
    <3>1. work[w].phase = "failed" /\ ~Runs!KeyIsFree(e) /\ StateMap' = StateMap
      BY <2>3, <2>5, KeySame, <1>a DEF OpenStatus
    <3> QED BY <2>1, <2>2, <3>1 DEF Runs!Record, StateMap, TaskMap, Runs!Idle, Idle
  <2>6. \/ /\ o.status \in OpenStatus => KeyFree(e)
           /\ row' = [row EXCEPT ![e] = [@ EXCEPT !.status = o.status, !.attempts = o.attempts]]
        \/ o.status \in OpenStatus /\ ~KeyFree(e) /\ UNCHANGED row
    BY <1>10 DEF RecordFailedAttempt
  <2>7. ASSUME row' = [row EXCEPT ![e] = [@ EXCEPT !.status = o.status, !.attempts = o.attempts]]
        PROVE  row'[e].status = o.status /\ \A f \in Effects \ {e} : row'[f] = row[f]
    BY <2>7 DEF TypeOK, Row
  <2> QED BY <2>4, <2>5, <2>6, <2>7
<1>11. CASE \E e \in Effects : Claim(w, e)
  BY <1>11, <1>1 DEF Runs!RunsNext
<1>12. CASE \/ HandlerSucceeds(w) \/ HandlerRefuses(w) \/ HandlerFails(w) \/ HandlerRequeues(w)
            \/ CommitDone(w) \/ CommitFails(w) \/ RecordFailedAttempt(w)
  BY <1>12, <1>3, <1>4, <1>5, <1>6, <1>7, <1>8, <1>10 DEF Runs!RunsNext
<1> QED BY <1>2, <1>9, <1>11, <1>12 DEF WorkerStep

LEMMA RunsStep ==
    TypeOK /\ LockInv /\ WorkInv /\ [Next]_vars => [Runs!RunsNext]_<<StateMap, TaskMap>>
<1> SUFFICES ASSUME TypeOK, LockInv, WorkInv, [Next]_vars
             PROVE  Runs!RunsNext \/ UNCHANGED <<StateMap, TaskMap>>
  OBVIOUS
<1> USE DEF sending, history, budget
<1>a. ASSUME UNCHANGED work,
             \A f \in Effects : row'[f].status = row[f].status \/ (Open(f) /\ Open(f)')
      PROVE  UNCHANGED <<StateMap, TaskMap>>
  BY <1>a, StateSame, TaskSame DEF TaskOf
\* The row e is opened while nobody runs it.
<1>b. ASSUME NEW e \in Effects, UNCHANGED work, ~Locked(e), KeyFree(e),
             row[e].status \in {"DONE", "FAILED"}, Open(e)',
             \A f \in Effects \ {e} : row'[f] = row[f]
      PROVE  Runs!Reopen(e)
  <2>1. StateOf(e) \in {"done", "failed"} /\ StateOf(e)' = "open"
    BY <1>b DEF StateOf, Open, OpenStatus
  <2>2. StateMap' = [StateMap EXCEPT ![e] = "open"] /\ StateMap[e] \in {"done", "failed"}
    BY <1>b, <2>1, StateChange DEF StateMap
  <2>3. TaskMap' = TaskMap
    BY <1>b, TaskSame DEF TaskOf
  <2>4. ~Runs!Held(e) /\ Runs!KeyIsFree(e)
    BY <1>b, HeldSame, KeySame DEF Locked
  <2> QED BY <2>2, <2>3, <2>4 DEF Runs!Reopen, StateMap, TaskMap
<1>1. ASSUME NEW e \in Effects, ProducerStep(e)
      PROVE  Runs!RunsNext \/ UNCHANGED <<StateMap, TaskMap>>
  <2>1. ASSUME EnqueueOnly(e) \/ QueueEffect(e) PROVE Runs!Request(e)
    <3>1. /\ row[e].status = "ABSENT" /\ KeyFree(e) /\ UNCHANGED work
          /\ row'[e].status = "PENDING" /\ \A f \in Effects \ {e} : row'[f] = row[f]
      BY <2>1 DEF EnqueueOnly, QueueEffect, Insert, TypeOK
    <3>2. StateOf(e) = "absent" /\ StateOf(e)' = "open"
      BY <3>1 DEF StateOf, OpenStatus
    <3>3. StateMap' = [StateMap EXCEPT ![e] = "open"] /\ StateMap[e] = "absent"
      BY <3>1, <3>2, StateChange DEF StateMap
    <3>4. TaskMap' = TaskMap /\ Runs!KeyIsFree(e)
      BY <3>1, TaskSame, KeySame DEF TaskOf
    <3> QED BY <3>3, <3>4 DEF Runs!Request, StateMap, TaskMap
  <2>2. ASSUME RetryEffect(e) PROVE Runs!Reopen(e)
    <3>1. /\ row[e].status = "FAILED" /\ KeyFree(e) /\ ~Locked(e) /\ UNCHANGED work
          /\ row'[e].status = "PENDING" /\ \A f \in Effects \ {e} : row'[f] = row[f]
      BY <2>2 DEF RetryEffect, TypeOK
    <3> QED BY <3>1, <1>b DEF Open, OpenStatus
  <2>3. ASSUME MarkDispatched(e) PROVE Runs!Reopen(e) \/ UNCHANGED <<StateMap, TaskMap>>
    <3>1. /\ \A f \in Effects \ {e} : row'[f] = row[f]
          /\ row'[e].status = "DISPATCHED" /\ row[e].status # "ABSENT"
          /\ KeyFree(e) /\ ~Locked(e) /\ UNCHANGED work
      BY <2>3 DEF MarkDispatched, TypeOK, Row, WorkInv, DispatchInv
    <3>2. CASE Open(e)
      BY <3>1, <3>2, <1>a DEF Open, OpenStatus
    <3>3. CASE ~Open(e)
      <4>1. row[e].status \in {"DONE", "FAILED"} /\ Open(e)'
        BY <3>1, <3>3 DEF Open, OpenStatus, TypeOK, Row
      <4> QED BY <3>1, <4>1, <1>b
    <3> QED BY <3>2, <3>3
  <2>4. CASE QueueExisting(e) \/ Publish(e) \/ DispatchFails(e) \/ MarkFails(e)
    BY <2>4, <1>a DEF QueueExisting, Publish, DispatchFails, MarkFails
  <2> QED BY <1>1, <2>1, <2>2, <2>3, <2>4 DEF ProducerStep, Runs!RunsNext
<1>2. ASSUME NEW e \in Effects, Age(e) PROVE UNCHANGED <<StateMap, TaskMap>>
  <2>1. ASSUME NEW f \in Effects PROVE row'[f].status = row[f].status
    <3>1. row[f] \in Row /\ row[e] \in Row /\ row \in [Effects -> Row]
      BY DEF TypeOK
    <3>2. CASE row' = [row EXCEPT ![e].clock = "due"]
      BY <3>1, <3>2 DEF Row
    <3>3. CASE row' = [row EXCEPT ![e].clock = "stale"]
      BY <3>1, <3>3 DEF Row
    <3> QED BY <1>2, <3>2, <3>3 DEF Age
  <2>2. UNCHANGED work
    BY <1>2 DEF Age
  <2> QED BY <2>1, <2>2, <1>a
<1>3. ASSUME NEW w \in Workers, WorkerStep(w)
      PROVE  Runs!RunsNext \/ UNCHANGED <<StateMap, TaskMap>>
  BY <1>3, WorkerRuns
<1>4. ASSUME WorkerCrash PROVE Runs!Forget \/ UNCHANGED <<StateMap, TaskMap>>
  <2>1. UNCHANGED row /\ \A w \in Workers : work'[w] = Idle
    BY <1>4 DEF WorkerCrash, Redeliver
  <2>2. TaskMap' = [w \in Workers |-> Idle]
    BY <2>1 DEF TaskMap, TaskOf, Idle
  <2>3. StateMap' = StateMap
    BY <2>1, StateSame
  <2>4. CASE \A w \in Workers : TaskMap[w] = Idle
    BY <2>2, <2>3, <2>4 DEF TaskMap
  <2>5. CASE \E w \in Workers : TaskMap[w] # Idle
    BY <2>2, <2>3, <2>5 DEF Runs!Forget, StateMap, TaskMap, Runs!Idle, Idle
  <2> QED BY <2>4, <2>5
<1>5. ASSUME ConnectionLost PROVE UNCHANGED <<StateMap, TaskMap>>
  <2>1. ASSUME NEW w \in Workers PROVE TaskOf(w)' = TaskOf(w)
    <3>1. CASE work[w] = Idle
      BY <1>5, <3>1 DEF ConnectionLost, TaskOf
    <3>2. CASE work[w] # Idle
      <4>1. work[w] \in Task /\ work'[w] = [work[w] EXCEPT !.delivered = FALSE]
        BY <1>5, <3>2 DEF ConnectionLost, TypeOK
      <4> QED BY <4>1 DEF TaskOf, Task
    <3> QED BY <3>1, <3>2
  <2>2. StateMap' = StateMap
    BY <1>5, StateSame DEF ConnectionLost, Redeliver
  <2> QED BY <2>1, <2>2, TaskSame
<1>6. ASSUME NEW s \in Sweeps, SweepStep(s) PROVE UNCHANGED <<StateMap, TaskMap>>
  <2>1. CASE SweepCommit(s)
    <3>1. ASSUME NEW f \in Effects
          PROVE  row'[f].status = row[f].status \/ (Open(f) /\ Open(f)')
      <4>1. CASE sweep[s][f] = "sent"
        <5>1. Open(f)
          BY <4>1 DEF LockInv, LockedIsOpen, Locked
        <5> QED BY <2>1, <4>1, <5>1 DEF SweepCommit, Open, OpenStatus, TypeOK, Row
      <4>2. CASE sweep[s][f] # "sent"
        BY <2>1, <4>2 DEF SweepCommit
      <4> QED BY <4>1, <4>2
    <3> QED BY <2>1, <3>1, <1>a DEF SweepCommit
  <2>2. CASE UNCHANGED <<row, work>>
    BY <2>2, <1>a
  <2> QED BY <1>6, <2>1, <2>2 DEF SweepStep, SweepStart, SweepPublish, SweepPublishFails, SweepCrash
<1>7. CASE UNCHANGED vars
  BY <1>7, <1>a DEF vars
<1> QED BY <1>1, <1>2, <1>3, <1>4, <1>5, <1>6, <1>7 DEF Next, Runs!RunsNext

\* Every behaviour of the outbox is one of EffectRuns: its handlers are run
\* under the row lock, while their row is open, and settled as it says.
THEOREM OutboxImplementsRuns == Spec => ImplementsRuns
<1>1. Init => Runs!RunsInit
  <2> SUFFICES ASSUME Init PROVE Runs!RunsInit
    OBVIOUS
  <2>1. ASSUME NEW e \in Effects PROVE StateOf(e) = "absent"
    BY DEF Init, StateOf, OpenStatus
  <2>2. ASSUME NEW w \in Workers PROVE TaskOf(w) = Idle
    BY DEF Init, TaskOf, Idle
  <2> QED BY <2>1, <2>2 DEF Runs!RunsInit, Runs!Idle, Idle
<1>2. Init => LockInv /\ WorkInv
  BY DEF Init, LockInv, RowLockExclusive, LockedIsOpen, Locked, Holds, Idle, WorkInv,
         DispatchInv, CallInv
<1>3. TypeOK /\ LockInv /\ WorkInv /\ [Next]_vars => [Runs!RunsNext]_Runs!runVars
  BY RunsStep DEF StateMap, TaskMap, Runs!runVars
<1> QED BY <1>1, <1>2, <1>3, LockStep, WorkStep, Typing, PTL DEF Spec, ImplementsRuns, Runs!RunsSpec
=============================================================================
