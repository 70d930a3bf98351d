---------------------------- MODULE EffectPromise ----------------------------
(***************************************************************************)
(* What the outbox promises for one effect, whatever happens to messages,  *)
(* processes and late writes: it is DONE only once a run of its handler    *)
(* finished, it is given up only after MaxAttempts failed runs, and its    *)
(* handler runs only while the effect is open.                             *)
(***************************************************************************)
EXTENDS Naturals

CONSTANTS Effects, MaxAttempts

VARIABLES state,      \* "absent", "open", "done" or "failed"
          finished,   \* effects some run of which had nothing left to do
          failures    \* how many runs of each effect's handler failed

promiseVars == <<state, finished, failures>>

Init ==
    /\ state = [e \in Effects |-> "absent"]
    /\ finished = {}
    /\ failures = [e \in Effects |-> 0]

Becomes(e, st) == state' = [state EXCEPT ![e] = st]

Request(e) == /\ state[e] = "absent" /\ Becomes(e, "open")
              /\ UNCHANGED <<finished, failures>>

Finish(e) == /\ state[e] = "open" /\ finished' = finished \cup {e}
             /\ UNCHANGED <<state, failures>>

Fail(e) == /\ state[e] = "open" /\ failures' = [failures EXCEPT ![e] = @ + 1]
           /\ UNCHANGED <<state, finished>>

Done(e) == /\ state[e] # "absent" /\ e \in finished /\ Becomes(e, "done")
           /\ UNCHANGED <<finished, failures>>

GiveUp(e) == /\ state[e] # "absent" /\ failures[e] >= MaxAttempts /\ Becomes(e, "failed")
             /\ UNCHANGED <<finished, failures>>

Reopen(e) == /\ state[e] \in {"done", "failed"} /\ Becomes(e, "open")
             /\ UNCHANGED <<finished, failures>>

Next == \E e \in Effects : \/ Request(e) \/ Finish(e) \/ Fail(e)
                           \/ Done(e) \/ GiveUp(e) \/ Reopen(e)

Spec == Init /\ [][Next]_promiseVars
=============================================================================
