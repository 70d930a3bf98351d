----------------------------- MODULE EffectRuns -----------------------------
(***************************************************************************)
(* The outbox as its producers and handlers see it: rows that are open or  *)
(* settled, and runs of their handlers by concurrent handleMessage calls.  *)
(* The broker, the dispatches and the sweeps are hidden: an open row may   *)
(* be delivered at any time, any number of times.  Outbox implements this  *)
(* specification, so a component composed with it may use it instead.      *)
(***************************************************************************)

CONSTANTS
    Effects,    \* row ids
    Polling,    \* the ids of SRI_AUTHORIZE rows
    KeyOf,      \* the dedup_key of each Polling row
    Workers     \* concurrent handleMessage calls in the worker process

VARIABLES
    effect,     \* the status of each row, PENDING and DISPATCHED being "open"
    task        \* what each handleMessage call is doing

runVars == <<effect, task>>

Idle == [phase |-> "idle"]
Phases == {"running", "succeeded", "refused", "failed"}

RunsTypeOK ==
    /\ effect \in [Effects -> {"absent", "open", "done", "failed"}]
    /\ task \in [Workers -> [phase : Phases, effect : Effects] \cup {Idle}]

RunsInit == /\ effect = [e \in Effects |-> "absent"]
            /\ task = [w \in Workers |-> Idle]

\* The row lock, SELECT ... FOR UPDATE until the commit or the rollback.
Held(e) == \E w \in Workers : task[w].phase \in {"running", "succeeded"} /\ task[w].effect = e

\* Mutant: the rows carry no key.
NoKey(e) == e \in Effects

KeyIsFree(e) ==
    e \in Polling =>
        \A f \in Polling \ {e} : KeyOf[f] = KeyOf[e] => effect[f] # "open"

Request(e) == /\ effect[e] = "absent" /\ KeyIsFree(e)
              /\ effect' = [effect EXCEPT ![e] = "open"]
              /\ UNCHANGED task

Begin(w, e) == /\ task[w] = Idle /\ effect[e] = "open" /\ ~Held(e)
               /\ task' = [task EXCEPT ![w] = [phase |-> "running", effect |-> e]]
               /\ UNCHANGED effect

Ends(w, p) == /\ task[w].phase = "running"
              /\ task' = [task EXCEPT ![w].phase = p]
              /\ UNCHANGED effect

Succeed(w) == Ends(w, "succeeded")
Refuse(w)  == Ends(w, "refused")
Fail(w)    == Ends(w, "failed")

\* { requeue: true }: the row stays as it is.
Requeue(w) == /\ task[w].phase = "running" /\ task[w].effect \in Polling
              /\ task' = [task EXCEPT ![w] = Idle]
              /\ UNCHANGED effect

Commit(w) == /\ task[w].phase = "succeeded"
             /\ effect' = [effect EXCEPT ![task[w].effect] = "done"]
             /\ task' = [task EXCEPT ![w] = Idle]

\* The UPDATE or the COMMIT fails: the row is released as it was.
CommitFails(w) == /\ task[w].phase = "succeeded"
                  /\ task' = [task EXCEPT ![w] = Idle]
                  /\ UNCHANGED effect

\* recordFailedAttempt, after the rollback: a refused run is DONE, a failed one
\* FAILED or open according to attempt_count; the unique index may forbid open.
Record(w) ==
    LET e == task[w].effect
    IN  /\ task[w].phase \in {"refused", "failed"} /\ ~Held(e)
        /\ task' = [task EXCEPT ![w] = Idle]
        /\ \/ task[w].phase = "refused" /\ effect' = [effect EXCEPT ![e] = "done"]
           \/ task[w].phase = "failed" /\ effect' = [effect EXCEPT ![e] = "failed"]
           \/ /\ task[w].phase = "failed" /\ KeyIsFree(e)
              /\ effect' = [effect EXCEPT ![e] = "open"]
           \/ task[w].phase = "failed" /\ ~KeyIsFree(e) /\ UNCHANGED effect

\* A manual retry, or a late markDispatched.
Reopen(e) == /\ effect[e] \in {"done", "failed"} /\ ~Held(e) /\ KeyIsFree(e)
             /\ effect' = [effect EXCEPT ![e] = "open"]
             /\ UNCHANGED task

\* The worker process dies: its transactions roll back, its runs are forgotten.
Forget == /\ \E w \in Workers : task[w] # Idle
          /\ task' = [w \in Workers |-> Idle]
          /\ UNCHANGED effect

RunsNext == \/ \E e \in Effects : Request(e) \/ Reopen(e)
            \/ \E w \in Workers :
                  \/ \E e \in Effects : Begin(w, e)
                  \/ Succeed(w) \/ Refuse(w) \/ Fail(w) \/ Requeue(w) \/ Commit(w)
                  \/ CommitFails(w) \/ Record(w)
            \/ Forget

RunsSpec == RunsInit /\ [][RunsNext]_runVars
=============================================================================
