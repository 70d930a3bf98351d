------------------------------ MODULE MCOutbox ------------------------------
(***************************************************************************)
(* Outbox for TLC, in three instances that one run checks: in every        *)
(* behaviour `about` says what it is about, and so how much of what there  *)
(* is may be used.  "row": one row with every failure, late mark and       *)
(* manual retry.  "rows": two rows of one document, two workers and two    *)
(* overlapping sweeps.  "reopened": two rows of one document, one of them  *)
(* opened again when it is settled.                                        *)
(***************************************************************************)
EXTENDS Outbox, TLC

CONSTANTS poll1, poll2, doc1, w1, w2, s1, s2

VARIABLE about

MCKeyOf == [e \in Polling |-> doc1]

\* At most so many rows created, sweeps at work and rows being dispatched; messages of
\* a row; failures, crashes and manual retries.
Limits ==
    [row      |-> [rows |-> 1, sweeps |-> 1, dispatches |-> 1, queued |-> 2, failures |-> 3,
                   crashes |-> 1, retries |-> 1],
     rows     |-> [rows |-> 2, sweeps |-> 2, dispatches |-> 0, queued |-> 1, failures |-> 1,
                   crashes |-> 1, retries |-> 0],
     reopened |-> [rows |-> 2, sweeps |-> 1, dispatches |-> 0, queued |-> 1, failures |-> 2,
                   crashes |-> 0, retries |-> 1]]

Within(limit) ==
    /\ Cardinality({e \in Effects : row'[e].status # "ABSENT"}) <= limit.rows
    /\ Cardinality({s \in Sweeps : \E e \in Effects : sweep'[s][e] # "free"}) <= limit.sweeps
    /\ Cardinality({e \in Effects : publishing'[e] + marking'[e] > 0}) <= limit.dispatches
    /\ \A e \in Effects : queue'[e] <= limit.queued
    /\ failures'[poll1] + failures'[poll2] <= limit.failures
    /\ crashes' <= limit.crashes /\ retries' <= limit.retries

OutboxInit == Init /\ about \in DOMAIN Limits

OutboxNext == Next /\ Within(Limits[about]) /\ UNCHANGED about

OutboxSpec == OutboxInit /\ [][OutboxNext]_<<vars, about>>

Symmetry == Permutations(Workers) \cup Permutations(Sweeps) \cup Permutations(Polling)
=============================================================================
