------------------------------- MODULE Outbox -------------------------------
(***************************************************************************)
(* The pending_effects outbox: a table of effects to be performed, the     *)
(* RabbitMQ queues that carry their ids, the best-effort dispatch() run by *)
(* whoever creates an effect, the worker process, the reconciliation sweep *)
(* run by cron, and the manual retry.  Effects are identified by their row *)
(* id; the Polling ones are the SRI_AUTHORIZE rows, which carry a          *)
(* deduplication key and may answer "still processing".                    *)
(*                                                                         *)
(* Row locks: processEffect holds SELECT ... FOR UPDATE on its row while   *)
(* the handler runs, a sweep holds it on its whole batch, and every UPDATE *)
(* of a row waits for them.                                                *)
(***************************************************************************)
EXTENDS Naturals, FiniteSets

CONSTANTS
    Effects,        \* row ids
    Polling,        \* the ids of SRI_AUTHORIZE rows
    KeyOf,          \* the dedup_key of each Polling row
    Workers,        \* concurrent handleMessage calls in the worker process
    Sweeps,         \* concurrent reconcilePendingEffects calls
    MaxAttempts,    \* config.pendingEffects.maxAttempts
    BatchLimit,     \* config.queueReconciliation.batchLimit
    MaxInFlight,    \* bound: unfinished dispatch() calls per effect
    MaxQueued,      \* bound: messages per effect waiting in the broker
    MaxFailures,    \* bound: failures of an effect's handler
    MaxCrashes,     \* bound: crashes, lost connections, failed statements of the worker
    MaxRetries      \* bound: manual retries

ASSUME OutboxAssumption ==
    /\ Polling \subseteq Effects
    /\ IsFiniteSet(Workers)
    /\ MaxAttempts \in Nat \ {0} /\ BatchLimit \in Nat \ {0}
    /\ MaxInFlight \in Nat /\ MaxQueued \in Nat /\ MaxFailures \in Nat
    /\ MaxCrashes \in Nat /\ MaxRetries \in Nat

VARIABLES
    row,          \* the pending_effects table
    publishing,   \* dispatch() calls that have not published yet
    marking,      \* dispatch() calls that published and have not marked the row
    queue,        \* messages ready in the broker
    work,         \* what each concurrent handleMessage call is doing
    sweep,        \* the rows each sweep's transaction has locked
    failures,     \* history: failed runs of each effect's handler
    finished,     \* history: effects a run of which succeeded or had nothing left to do
    completed,    \* history: effects whose handler's success was committed
    overwritten,  \* history: settled effects whose status a late write changed
    crashes,      \* crashes, lost connections, failed statements so far
    retries       \* manual retries so far

sending == <<publishing, marking>>
history == <<finished, completed, overwritten>>
budget  == <<crashes, retries>>
vars    == <<row, sending, queue, work, sweep, failures, history, budget>>

-----------------------------------------------------------------------------
OpenStatus == {"PENDING", "DISPATCHED"}

\* clock is dispatch_attempted_at relative to the sweep's windows: NULL since
\* less ("new") or more ("due") than authorizeCheckDelayMinutes, or set less
\* ("fresh") or more ("stale") than the staleness window ago.
Row == [status   : {"ABSENT", "DONE", "FAILED"} \cup OpenStatus,
        attempts : Nat,
        clock    : {"new", "due", "fresh", "stale"}]

\* A handleMessage call.  It holds its row's lock while "running" and
\* "succeeded"; status and attempts are the row as it was read at the claim;
\* delivered while its message is the broker's unacknowledged delivery to it.
Phases == {"running", "succeeded", "refused", "failed", "acking"}
Idle   == [phase |-> "idle"]
Task   == [phase : Phases, effect : Effects, status : OpenStatus, attempts : Nat,
           delivered : BOOLEAN]

TypeOK ==
    /\ row \in [Effects -> Row]
    /\ publishing \in [Effects -> Nat] /\ marking \in [Effects -> Nat]
    /\ queue \in [Effects -> Nat]
    /\ work \in [Workers -> Task \cup {Idle}]
    /\ sweep \in [Sweeps -> [Effects -> {"free", "todo", "sent", "skipped"}]]
    /\ failures \in [Effects -> Nat]
    /\ finished \in SUBSET Effects /\ completed \in SUBSET Effects /\ overwritten \in SUBSET Effects
    /\ crashes \in Nat /\ retries \in Nat

Open(e) == row[e].status \in OpenStatus

Holds(w, e) == work[w].phase \in {"running", "succeeded"} /\ work[w].effect = e

Delivered(w) == work[w] # Idle /\ work[w].delivered

Locked(e) == \/ \E w \in Workers : Holds(w, e)
             \/ \E s \in Sweeps : sweep[s][e] # "free"

\* Mutant: the partial unique index is missing.
NoIndex(e) == e \in Effects

\* idx_pending_effects_dedup lets row e be open: no other open row has its key.
KeyFree(e) ==
    e \in Polling =>
        \A f \in Polling \ {e} : KeyOf[f] = KeyOf[e] => ~Open(f)

Init ==
    /\ row = [e \in Effects |-> [status |-> "ABSENT", attempts |-> 0, clock |-> "new"]]
    /\ publishing = [e \in Effects |-> 0] /\ marking = [e \in Effects |-> 0]
    /\ queue = [e \in Effects |-> 0]
    /\ work = [w \in Workers |-> Idle]
    /\ sweep = [s \in Sweeps |-> [e \in Effects |-> "free"]]
    /\ failures = [e \in Effects |-> 0]
    /\ finished = {} /\ completed = {} /\ overwritten = {}
    /\ crashes = 0 /\ retries = 0

-----------------------------------------------------------------------------
(* Producers: the API process, and handlers that create further effects.   *)

Insert(e) ==
    /\ row[e].status = "ABSENT" /\ KeyFree(e)
    /\ row' = [row EXCEPT ![e] = [status |-> "PENDING", attempts |-> 0, clock |-> "new"]]

StartDispatch(e) ==
    /\ publishing[e] + marking[e] < MaxInFlight
    /\ publishing' = [publishing EXCEPT ![e] = @ + 1]

\* enqueue() without dispatch(): sendToSri's SRI_AUTHORIZE row.
EnqueueOnly(e) ==
    /\ Insert(e)
    /\ UNCHANGED <<sending, queue, work, sweep, failures, history, budget>>

\* enqueue() then dispatch().
QueueEffect(e) ==
    /\ Insert(e) /\ StartDispatch(e)
    /\ UNCHANGED <<marking, queue, work, sweep, failures, history, budget>>

\* enqueue() finds an open row with the same key, waits for its lock (ON CONFLICT
\* DO UPDATE) and returns it; dispatch().
QueueExisting(e) ==
    /\ e \in Polling /\ Open(e) /\ ~Locked(e) /\ StartDispatch(e)
    /\ UNCHANGED <<row, marking, queue, work, sweep, failures, history, budget>>

\* retryEffect(): only a FAILED row is reset, and its key must be free.
RetryEffect(e) ==
    /\ row[e].status = "FAILED" /\ ~Locked(e) /\ KeyFree(e)
    /\ retries < MaxRetries /\ retries' = retries + 1
    /\ row' = [row EXCEPT ![e] = [status |-> "PENDING", attempts |-> 0, clock |-> "new"]]
    /\ StartDispatch(e)
    /\ UNCHANGED <<marking, queue, work, sweep, failures, history, crashes>>

Publish(e) ==
    /\ publishing[e] > 0 /\ queue[e] < MaxQueued
    /\ publishing' = [publishing EXCEPT ![e] = @ - 1]
    /\ marking' = [marking EXCEPT ![e] = @ + 1]
    /\ queue' = [queue EXCEPT ![e] = @ + 1]
    /\ UNCHANGED <<row, work, sweep, failures, history, budget>>

\* The publish is refused, or the process dies before it.
DispatchFails(e) ==
    /\ publishing[e] > 0
    /\ publishing' = [publishing EXCEPT ![e] = @ - 1]
    /\ UNCHANGED <<row, marking, queue, work, sweep, failures, history, budget>>

\* UPDATE ... SET status = st WHERE id = e, whatever the row's status is by now.
LateWrite(e, st) ==
    overwritten' = IF ~Open(e) /\ row[e].status # st THEN overwritten \cup {e} ELSE overwritten

MarkDispatched(e) ==
    /\ marking[e] > 0 /\ ~Locked(e) /\ KeyFree(e)
    /\ marking' = [marking EXCEPT ![e] = @ - 1]
    /\ row' = [row EXCEPT ![e].status = "DISPATCHED", ![e].clock = "fresh"]
    /\ LateWrite(e, "DISPATCHED")
    /\ UNCHANGED <<publishing, queue, work, sweep, failures, finished, completed, budget>>

\* The confirm timed out although the broker has the message, the process died,
\* or the UPDATE was refused by the unique index: dispatch() swallows it.
MarkFails(e) ==
    /\ marking[e] > 0
    /\ marking' = [marking EXCEPT ![e] = @ - 1]
    /\ UNCHANGED <<row, publishing, queue, work, sweep, failures, history, budget>>

-----------------------------------------------------------------------------
(* The worker process: handleMessage and processEffect.                    *)

Take(e) ==
    /\ queue[e] > 0 /\ ~Locked(e)
    /\ queue' = [queue EXCEPT ![e] = @ - 1]

SetPhase(w, p) == work' = [work EXCEPT ![w].phase = p]

\* Mutant: processEffect does not return early on a settled row.
ClaimAnyStatus(w, e) ==
    /\ work[w] = Idle /\ Take(e)
    /\ work' = [work EXCEPT ![w] = [phase |-> "running", effect |-> e,
                                    status |-> row[e].status, attempts |-> row[e].attempts,
                                    delivered |-> TRUE]]
    /\ UNCHANGED <<row, sending, sweep, failures, history, budget>>

Claim(w, e) ==
    /\ work[w] = Idle /\ Take(e) /\ Open(e)
    /\ work' = [work EXCEPT ![w] = [phase |-> "running", effect |-> e,
                                    status |-> row[e].status, attempts |-> row[e].attempts,
                                    delivered |-> TRUE]]
    /\ UNCHANGED <<row, sending, sweep, failures, history, budget>>

\* A message whose row is already settled is acknowledged and dropped.
SkipSettled(w, e) ==
    /\ work[w] = Idle /\ Take(e) /\ ~Open(e)
    /\ UNCHANGED <<row, sending, work, sweep, failures, history, budget>>

\* The claim's connection or SELECT fails: the message is rejected and dropped.
ClaimFails(w, e) ==
    /\ work[w] = Idle
    /\ queue[e] > 0 /\ queue' = [queue EXCEPT ![e] = @ - 1]
    /\ crashes < MaxCrashes /\ crashes' = crashes + 1
    /\ UNCHANGED <<row, sending, work, sweep, failures, history, retries>>

Finishes(w) ==
    /\ finished' = finished \cup {work[w].effect}
    /\ UNCHANGED <<row, sending, queue, sweep, failures, completed, overwritten, budget>>

HandlerSucceeds(w) ==
    work[w].phase = "running" /\ SetPhase(w, "succeeded") /\ Finishes(w)

\* { requeue: true }: the transaction commits unchanged and the message is acked.
HandlerRequeues(w) ==
    /\ work[w].phase = "running" /\ work[w].effect \in Polling
    /\ work' = [work EXCEPT ![w] = Idle]
    /\ UNCHANGED <<row, sending, queue, sweep, failures, history, budget>>

\* An AppError 400; ROLLBACK releases the row.
HandlerRefuses(w) ==
    work[w].phase = "running" /\ SetPhase(w, "refused") /\ Finishes(w)

\* Any other error; ROLLBACK releases the row.
HandlerFails(w) ==
    /\ work[w].phase = "running" /\ SetPhase(w, "failed")
    /\ failures[work[w].effect] < MaxFailures
    /\ failures' = [failures EXCEPT ![work[w].effect] = @ + 1]
    /\ UNCHANGED <<row, sending, queue, sweep, history, budget>>

CommitDone(w) ==
    /\ work[w].phase = "succeeded" /\ SetPhase(w, "acking")
    /\ row' = [row EXCEPT ![work[w].effect].status = "DONE"]
    /\ completed' = completed \cup {work[w].effect}
    /\ UNCHANGED <<sending, queue, sweep, failures, finished, overwritten, budget>>

\* The UPDATE or the COMMIT fails: the row is released as it was.
CommitFails(w) ==
    /\ work[w].phase = "succeeded" /\ SetPhase(w, "acking")
    /\ crashes < MaxCrashes /\ crashes' = crashes + 1
    /\ UNCHANGED <<row, sending, queue, sweep, failures, history, retries>>

\* Mutants: a refusal counts as an attempt; FAILED comes one attempt early; a
\* refusal is a failure.
RefusalCounted(t) ==
    [status |-> IF t.phase = "refused" THEN "DONE"
                ELSE IF t.attempts + 1 >= MaxAttempts THEN "FAILED" ELSE t.status,
     attempts |-> t.attempts + 1]

GivesUpEarly(t) ==
    IF t.phase = "refused" THEN [status |-> "DONE", attempts |-> t.attempts]
    ELSE [status |-> IF t.attempts + 2 >= MaxAttempts THEN "FAILED" ELSE t.status,
          attempts |-> t.attempts + 1]

RefusalFails(t) ==
    [status |-> IF t.attempts + 1 >= MaxAttempts THEN "FAILED" ELSE t.status,
     attempts |-> t.attempts + 1]

\* The outcome of a failed run as processEffect computes it from the row it
\* read at the claim.
Outcome(t) ==
    IF t.phase = "refused" THEN [status |-> "DONE", attempts |-> t.attempts]
    ELSE [status |-> IF t.attempts + 1 >= MaxAttempts THEN "FAILED" ELSE t.status,
          attempts |-> t.attempts + 1]

RecordFailedAttempt(w) ==
    LET e == work[w].effect
        o == Outcome(work[w])
    IN  /\ work[w].phase \in {"refused", "failed"} /\ ~Locked(e)
        /\ SetPhase(w, "acking")
        /\ \/ /\ o.status \in OpenStatus => KeyFree(e)
              /\ row' = [row EXCEPT ![e] = [@ EXCEPT !.status = o.status, !.attempts = o.attempts]]
              /\ LateWrite(e, o.status)
           \/ /\ o.status \in OpenStatus /\ ~KeyFree(e)   \* refused by the index
              /\ UNCHANGED <<row, overwritten>>
        /\ UNCHANGED <<sending, queue, sweep, failures, finished, completed, budget>>

Ack(w) ==
    /\ work[w].phase = "acking"
    /\ work' = [work EXCEPT ![w] = Idle]
    /\ UNCHANGED <<row, sending, queue, sweep, failures, history, budget>>

\* The broker puts every delivery that was not acknowledged back in its queue.
Redeliver ==
    /\ crashes < MaxCrashes /\ crashes' = crashes + 1
    /\ \E w \in Workers : Delivered(w)
    /\ queue' = [e \in Effects |->
                    queue[e] + Cardinality({w \in Workers : Delivered(w) /\ work[w].effect = e})]
    /\ UNCHANGED <<row, sending, sweep, failures, history, retries>>

\* The worker process dies: its open transactions roll back.
WorkerCrash == Redeliver /\ work' = [w \in Workers |-> Idle]

\* The broker connection is lost while the handlers run on; their acks will be void.
ConnectionLost ==
    /\ Redeliver
    /\ work' = [w \in Workers |-> IF work[w] = Idle THEN Idle
                                  ELSE [work[w] EXCEPT !.delivered = FALSE]]

-----------------------------------------------------------------------------
(* The reconciliation sweep, one transaction.                              *)

\* Mutant: the sweep forgets rows that were dispatched.
OnlyPendingStale(e) == row[e].status = "PENDING" /\ row[e].clock # "fresh"

StaleForReconciliation(e) ==
    /\ Open(e)
    /\ row[e].clock \in (IF e \in Polling THEN {"due"} ELSE {"new", "due"}) \cup {"stale"}

\* SELECT ... FOR UPDATE SKIP LOCKED LIMIT n, in no particular order.
SweepStart(s) ==
    LET found == {e \in Effects : StaleForReconciliation(e) /\ ~Locked(e)}
    IN  /\ \A e \in Effects : sweep[s][e] = "free"
        /\ \E batch \in SUBSET found \ {{}} :
              /\ Cardinality(batch) <= BatchLimit
              /\ batch = found \/ Cardinality(batch) = BatchLimit
              /\ sweep' = [sweep EXCEPT ![s] =
                              [e \in Effects |-> IF e \in batch THEN "todo" ELSE "free"]]
        /\ UNCHANGED <<row, sending, queue, work, failures, history, budget>>

SweepPublish(s, e) ==
    /\ sweep[s][e] = "todo" /\ queue[e] < MaxQueued
    /\ queue' = [queue EXCEPT ![e] = @ + 1]
    /\ sweep' = [sweep EXCEPT ![s][e] = "sent"]
    /\ UNCHANGED <<row, sending, work, failures, history, budget>>

\* The publish fails or times out; a timed-out message may be queued all the same.
SweepPublishFails(s, e) ==
    /\ sweep[s][e] = "todo"
    /\ sweep' = [sweep EXCEPT ![s][e] = "skipped"]
    /\ \/ queue' = queue
       \/ queue[e] < MaxQueued /\ queue' = [queue EXCEPT ![e] = @ + 1]
    /\ UNCHANGED <<row, sending, work, failures, history, budget>>

SweepEnds(s) == sweep' = [sweep EXCEPT ![s] = [e \in Effects |-> "free"]]

SweepCommit(s) ==
    /\ \E e \in Effects : sweep[s][e] # "free"
    /\ \A e \in Effects : sweep[s][e] # "todo"
    /\ row' = [e \in Effects |-> IF sweep[s][e] = "sent"
                                 THEN [row[e] EXCEPT !.status = "DISPATCHED", !.clock = "fresh"]
                                 ELSE row[e]]
    /\ SweepEnds(s)
    /\ UNCHANGED <<sending, queue, work, failures, history, budget>>

\* The process dies inside the transaction: nothing is marked.
SweepCrash(s) ==
    /\ \E e \in Effects : sweep[s][e] # "free"
    /\ crashes < MaxCrashes /\ crashes' = crashes + 1
    /\ SweepEnds(s)
    /\ UNCHANGED <<row, sending, queue, work, failures, history, retries>>

\* Time passes for an open row.
Age(e) ==
    /\ Open(e)
    /\ \/ row[e].clock = "new" /\ row' = [row EXCEPT ![e].clock = "due"]
       \/ row[e].clock = "fresh" /\ row' = [row EXCEPT ![e].clock = "stale"]
    /\ UNCHANGED <<sending, queue, work, sweep, failures, history, budget>>

-----------------------------------------------------------------------------
ProducerStep(e) == \/ EnqueueOnly(e) \/ QueueEffect(e) \/ QueueExisting(e) \/ RetryEffect(e)
                   \/ Publish(e) \/ DispatchFails(e) \/ MarkDispatched(e) \/ MarkFails(e)

WorkerStep(w) == \/ \E e \in Effects : Claim(w, e) \/ SkipSettled(w, e) \/ ClaimFails(w, e)
                 \/ HandlerSucceeds(w) \/ HandlerRequeues(w) \/ HandlerRefuses(w) \/ HandlerFails(w)
                 \/ CommitDone(w) \/ CommitFails(w) \/ RecordFailedAttempt(w) \/ Ack(w)

SweepStep(s) == \/ SweepStart(s) \/ SweepCommit(s) \/ SweepCrash(s)
                \/ \E e \in Effects : SweepPublish(s, e) \/ SweepPublishFails(s, e)

Next == \/ \E e \in Effects : ProducerStep(e) \/ Age(e)
        \/ \E w \in Workers : WorkerStep(w)
        \/ WorkerCrash \/ ConnectionLost
        \/ \E s \in Sweeps : SweepStep(s)

Spec == Init /\ [][Next]_vars

(***************************************************************************)
(* Fairness.  The broker and the worker keep delivering, so a message that *)
(* is deliverable again and again is delivered; a handler that runs comes  *)
(* to an end (its failures are bounded: outages end); transactions commit; *)
(* time passes; cron keeps starting sweeps and a sweep that publishes      *)
(* again and again succeeds in the end.  Nothing is asked for polled rows. *)
(***************************************************************************)
HandlerEnds(w) == \/ HandlerSucceeds(w) \/ HandlerRequeues(w)
                  \/ HandlerRefuses(w) \/ HandlerFails(w)

Fairness ==
    /\ \A e \in Effects \ Polling :
          /\ SF_vars(\E w \in Workers : Claim(w, e) \/ SkipSettled(w, e))
          /\ SF_vars(\E s \in Sweeps : SweepPublish(s, e))
    /\ \A e \in Effects : WF_vars(Age(e))
    /\ \A w \in Workers :
          /\ WF_vars(HandlerEnds(w)) /\ WF_vars(CommitDone(w))
          /\ SF_vars(RecordFailedAttempt(w)) /\ WF_vars(Ack(w))
    /\ \A s \in Sweeps :
          /\ WF_vars(SweepStart(s)) /\ WF_vars(SweepCommit(s))
          /\ \A e \in Effects : WF_vars(SweepPublish(s, e) \/ SweepPublishFails(s, e))

FairSpec == Spec /\ Fairness

-----------------------------------------------------------------------------
(* Properties.                                                             *)

\* At any time a row is locked by at most one transaction, a worker's or a
\* sweep's: its handler never runs twice at once, however often its message
\* is delivered.
RowLockExclusive ==
    \A e \in Effects :
        /\ \A v, w \in Workers : Holds(v, e) /\ Holds(w, e) => v = w
        /\ \A s, t \in Sweeps : sweep[s][e] # "free" /\ sweep[t][e] # "free" => s = t
        /\ \A w \in Workers, s \in Sweeps : ~(Holds(w, e) /\ sweep[s][e] # "free")

\* No two workers run SRI_AUTHORIZE for the same document at once, even on
\* different rows: the partial unique index and the row locks together.
OneHandlerPerKey ==
    \A v, w \in Workers : \A e, f \in Polling :
        Holds(v, e) /\ Holds(w, f) /\ KeyOf[e] = KeyOf[f] => v = w

\* A handler whose success was committed runs again only for a row whose DONE a
\* late write (markDispatched, recordFailedAttempt) overwrote.
CompletedNotRerun ==
    \A w \in Workers :
        work[w].phase = "running" => work[w].effect \notin completed \ overwritten

\* Whatever stale values late writes store, attempt_count never exceeds the runs
\* that really failed, nor does the count a running handler will record.
FailuresCounted ==
    /\ \A e \in Effects : row[e].attempts <= failures[e]
    /\ \A w \in Workers : work[w].phase = "failed" =>
                              work[w].attempts < failures[work[w].effect]

\* The outbox keeps its promise: a row becomes DONE only once a run of its
\* handler succeeded or was told by the state machine that nothing was left to
\* do, becomes FAILED only after MaxAttempts failed runs, and is open whenever
\* its handler runs.
StateOf(e) == CASE row[e].status = "ABSENT" -> "absent"
                [] row[e].status \in OpenStatus -> "open"
                [] row[e].status = "DONE" -> "done"
                [] OTHER -> "failed"

Promise == INSTANCE EffectPromise WITH state <- [e \in Effects |-> StateOf(e)]

KeepsPromise == Promise!Spec

\* Without its messages, dispatches and sweeps the outbox is EffectRuns: rows
\* whose handlers run under the row lock while they are open, and are settled by
\* the commit or by recordFailedAttempt.
TaskOf(w) == IF work[w].phase \in {"running", "succeeded", "refused", "failed"}
             THEN [phase |-> work[w].phase, effect |-> work[w].effect]
             ELSE Idle

Runs == INSTANCE EffectRuns WITH effect <- [e \in Effects |-> StateOf(e)],
                                 task <- [w \in Workers |-> TaskOf(w)]

ImplementsRuns == Runs!RunsSpec

\* An effect that is not polled is settled, DONE or FAILED, some time after it
\* was enqueued: it is not lost in the broker, in a crash or between sweeps.
EveryEffectSettles == \A e \in Effects \ Polling : Open(e) ~> ~Open(e)
=============================================================================
