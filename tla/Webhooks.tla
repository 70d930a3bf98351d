------------------------------ MODULE Webhooks ------------------------------
(***************************************************************************)
(* The deliveries of one notification to the webhook endpoints of its      *)
(* tenant: the WEBHOOK_FANOUT effects it is announced with, one for its    *)
(* creation and one for each later update, and the retry job.              *)
(*                                                                         *)
(* An effect is handled at least once and several may be handled at a time *)
(* (Outbox).  Endpoints are switched on and off as Endpoints shows.        *)
(* The payload is the notification as read at the time, and is left out.   *)
(***************************************************************************)
EXTENDS Naturals, FiniteSets

CONSTANTS
    Hooks,         \* webhook_endpoints subscribed to the notification's type
    Fanouts,       \* WEBHOOK_FANOUT effects of the notification
    RetryJobs,     \* processDueRetries(), run by cron again and again
    RetryDelays,   \* the length of RETRY_DELAYS_SECONDS
    HookFailures   \* bound: statements that fail, and crashes

ASSUME HookBounds == RetryDelays \in Nat /\ HookFailures \in Nat

VARIABLES
    active,        \* the endpoints that are active
    fanout,        \* what each effect's handler is doing
    delivery,      \* webhook_deliveries, by the effect that created the row
    retry,         \* what each job is doing
    hookFailures,  \* failures so far
    sends,         \* history: requests made for a row
    untold,        \* history: rows whose last request's outcome was not written
    shared,        \* history: rows two jobs had in hand at once
    together       \* history: endpoints two handlers passed the dedup guard with at once

hookHistory == <<sends, untold, shared, together>>
webhooksVars == <<active, fanout, delivery, retry, hookFailures, hookHistory>>

Rows == Fanouts \X Hooks

FanoutTask == [at : {"none", "queued", "listed", "walking", "posting", "marking", "done"},
               listed : SUBSET Hooks, todo : SUBSET Hooks, hook : SUBSET Hooks]
RetryTask == [at : {"idle", "walking", "marking"}, todo : SUBSET Rows,
              row : SUBSET Rows, was : [Rows -> Nat]]

WebhooksTypeOK ==
    /\ active \subseteq Hooks /\ fanout \in [Fanouts -> FanoutTask]
    /\ delivery \in [Rows -> [status : {"ABSENT", "PENDING", "RETRYING", "SUCCESS", "FAILED"},
                              count : Nat]]
    /\ retry \in [RetryJobs -> RetryTask] /\ hookFailures \in Nat
    /\ sends \in [Rows -> Nat] /\ untold \subseteq Rows /\ shared \subseteq Rows
    /\ together \subseteq Hooks

NoFanout == [at |-> "none", listed |-> {}, todo |-> {}, hook |-> {}]
NoRetry == [at |-> "idle", todo |-> {}, row |-> {}, was |-> [r \in Rows |-> 0]]

WebhooksInit ==
    /\ active = Hooks
    /\ fanout = [f \in Fanouts |-> NoFanout]
    /\ delivery = [r \in Rows |-> [status |-> "ABSENT", count |-> 0]]
    /\ retry = [j \in RetryJobs |-> NoRetry]
    /\ hookFailures = 0 /\ sends = [r \in Rows |-> 0]
    /\ untold = {} /\ shared = {} /\ together = {}

HookFailure == hookFailures < HookFailures /\ hookFailures' = hookFailures + 1

-----------------------------------------------------------------------------
(* The tenant switches endpoints, and the notification is written and      *)
(* announced once more.                                                    *)

Switches(w) ==
    /\ active' = IF w \in active THEN active \ {w} ELSE active \cup {w}
    /\ UNCHANGED <<fanout, delivery, retry, hookFailures, hookHistory>>

Announces(f) ==
    /\ fanout[f].at = "none"
    /\ fanout' = [fanout EXCEPT ![f].at = "queued"]
    /\ UNCHANGED <<active, delivery, retry, hookFailures, hookHistory>>

-----------------------------------------------------------------------------
(* fanOut(), in the handler of one effect.                                 *)

HasRow(f, w) == delivery[<<f, w>>].status # "ABSENT"

\* Past the guard, a handler creates a row for each endpoint it still has.
Walkers(w) == {f \in Fanouts : fanout[f].at \in {"walking", "posting", "marking"}
                               /\ w \in fanout[f].todo}

Meets(f) == together' = together \cup {w \in fanout[f].todo : Walkers(w) # {}}

\* The notification, then the endpoints subscribed to its type.
ListsEndpoints(f) ==
    /\ fanout[f].at = "queued"
    /\ fanout' = [fanout EXCEPT ![f] = [@ EXCEPT !.at = "listed", !.listed = active, !.todo = active]]
    /\ UNCHANGED <<active, delivery, retry, hookFailures, hookHistory>>

\* The dedup guard: an endpoint with a delivery row is skipped.
SkipsDelivered(f) ==
    /\ fanout[f].at = "listed" /\ Meets(f)
    /\ fanout' = [fanout EXCEPT ![f].at = "walking",
                                ![f].todo = {w \in @ : \A g \in Fanouts : ~HasRow(g, w)}]
    /\ UNCHANGED <<active, delivery, retry, hookFailures, sends, untold, shared>>

CreatesDelivery(f, w) ==
    /\ fanout[f].at = "walking" /\ w \in fanout[f].todo
    /\ fanout' = [fanout EXCEPT ![f].at = "posting", ![f].hook = {w}, ![f].todo = @ \ {w}]
    /\ delivery' = [delivery EXCEPT ![<<f, w>>] = [status |-> "PENDING", count |-> 0]]
    /\ UNCHANGED <<active, retry, hookFailures, hookHistory>>

\* The INSERT fails: the endpoint is passed over, with a warning.
CreateFails(f, w) ==
    /\ fanout[f].at = "walking" /\ w \in fanout[f].todo /\ HookFailure
    /\ fanout' = [fanout EXCEPT ![f].todo = @ \ {w}, ![f].listed = @ \ {w}]
    /\ UNCHANGED <<active, delivery, retry, hookHistory>>

\* A request for row r.  What two jobs send at once is not counted.
Sent(r) == sends' = IF r \in shared THEN sends ELSE [sends EXCEPT ![r] = @ + 1]

Posts(f) ==
    /\ fanout[f].at = "posting"
    /\ fanout' = [fanout EXCEPT ![f].at = "marking"]
    /\ \E w \in fanout[f].hook : Sent(<<f, w>>)
    /\ UNCHANGED <<active, delivery, retry, hookFailures, untold, shared, together>>

\* The row as markSuccess() leaves it, which counts on, or markFailure(), which counts
\* from what its caller read.
Marked(row, ok, was) ==
    IF ok THEN [status |-> "SUCCESS", count |-> row.count + 1]
    ELSE [status |-> IF was < RetryDelays THEN "RETRYING" ELSE "FAILED", count |-> was + 1]

\* On with the next endpoint.
WalksOn(f) == fanout' = [fanout EXCEPT ![f] = [@ EXCEPT !.at = "walking", !.hook = {}]]

\* Mutant: a request that failed leaves the row as it is.
MarksSuccessOnly(f) ==
    /\ fanout[f].at = "marking" /\ WalksOn(f)
    /\ \E ok \in BOOLEAN :
          delivery' = [r \in Rows |-> IF ok /\ r \in {f} \X fanout[f].hook
                                      THEN Marked(delivery[r], ok, 0) ELSE delivery[r]]
    /\ UNCHANGED <<active, retry, hookFailures, hookHistory>>

Marks(f) ==
    /\ fanout[f].at = "marking" /\ WalksOn(f)
    /\ \E ok \in BOOLEAN :
          delivery' = [r \in Rows |-> IF r \in {f} \X fanout[f].hook
                                      THEN Marked(delivery[r], ok, 0) ELSE delivery[r]]
    /\ UNCHANGED <<active, retry, hookFailures, hookHistory>>

\* The UPDATE fails: a warning, and on with the next endpoint.
MarkFails(f) ==
    /\ fanout[f].at = "marking" /\ HookFailure /\ WalksOn(f)
    /\ untold' = untold \cup ({f} \X fanout[f].hook)
    /\ UNCHANGED <<active, delivery, retry, sends, shared, together>>

Completes(f) ==
    /\ fanout[f].at = "walking" /\ fanout[f].todo = {}
    /\ fanout' = [fanout EXCEPT ![f].at = "done"]
    /\ UNCHANGED <<active, delivery, retry, hookFailures, hookHistory>>

\* The worker crashes, or a lookup fails: the effect is handled again from the start,
\* also when it is only its DONE that was not written.
HandlerFails(f) ==
    /\ fanout[f].at \notin {"none", "queued"} /\ HookFailure
    /\ fanout' = [fanout EXCEPT ![f] = [NoFanout EXCEPT !.at = "queued"]]
    /\ untold' = untold \cup ({f} \X fanout[f].hook)
    /\ UNCHANGED <<active, delivery, retry, sends, shared, together>>

-----------------------------------------------------------------------------
(* processDueRetries().                                                    *)

Due == {r \in Rows : delivery[r].status = "RETRYING" /\ r[2] \in active}

InHand(j) == retry[j].todo \cup retry[j].row

\* Some of the due rows are past their next_retry_at, and at most 100 are taken.
FindsDue(j) ==
    /\ retry[j].at = "idle"
    /\ \E due \in SUBSET Due \ {{}} :
          /\ retry' = [retry EXCEPT ![j] =
                          [NoRetry EXCEPT !.at = "walking", !.todo = due,
                              !.was = [r \in Rows |-> IF r \in due THEN delivery[r].count ELSE 0]]]
          /\ shared' = shared \cup (due \cap UNION {InHand(k) : k \in RetryJobs \ {j}})
    /\ UNCHANGED <<active, fanout, delivery, hookFailures, sends, untold, together>>

Resends(j, r) ==
    /\ retry[j].at = "walking" /\ r \in retry[j].todo /\ Sent(r)
    /\ retry' = [retry EXCEPT ![j].at = "marking", ![j].row = {r}, ![j].todo = @ \ {r}]
    /\ UNCHANGED <<active, fanout, delivery, hookFailures, untold, shared, together>>

\* On with the next row.
GoesOn(j, r) == retry' = [retry EXCEPT ![j].at = "walking", ![j].row = {}, ![j].todo = @ \ {r},
                                       ![j].was[r] = 0]

MarksRetry(j, r) ==
    /\ retry[j].row = {r} /\ GoesOn(j, r)
    /\ \E ok \in BOOLEAN : delivery' = [delivery EXCEPT ![r] = Marked(@, ok, retry[j].was[r])]
    /\ UNCHANGED <<active, fanout, hookFailures, hookHistory>>

\* The notification is not read, or the outcome is not written.
RetrySkips(j, r) ==
    /\ HookFailure /\ GoesOn(j, r)
    /\ \/ retry[j].at = "walking" /\ r \in retry[j].todo /\ UNCHANGED untold
       \/ retry[j].row = {r} /\ untold' = untold \cup {r}
    /\ UNCHANGED <<active, fanout, delivery, sends, shared, together>>

\* The job is through with its rows, or its process ends.
JobEnds(j) ==
    /\ \/ retry[j].at = "walking" /\ retry[j].todo = {} /\ UNCHANGED <<hookFailures, untold>>
       \/ retry[j].at # "idle" /\ HookFailure /\ untold' = untold \cup retry[j].row
    /\ retry' = [retry EXCEPT ![j] = NoRetry]
    /\ UNCHANGED <<active, fanout, delivery, sends, shared, together>>

-----------------------------------------------------------------------------
FanoutStep(f) ==
    \/ Announces(f) \/ ListsEndpoints(f) \/ SkipsDelivered(f) \/ Posts(f) \/ Marks(f)
    \/ MarkFails(f) \/ Completes(f) \/ HandlerFails(f)
    \/ \E w \in Hooks : CreatesDelivery(f, w) \/ CreateFails(f, w)

RetryStep(j) ==
    \/ FindsDue(j) \/ JobEnds(j)
    \/ \E r \in Rows : Resends(j, r) \/ MarksRetry(j, r) \/ RetrySkips(j, r)

WebhooksNext ==
    \/ \E w \in Hooks : Switches(w)
    \/ \E f \in Fanouts : FanoutStep(f)
    \/ \E j \in RetryJobs : RetryStep(j)

WebhooksSpec == WebhooksInit /\ [][WebhooksNext]_webhooksVars

-----------------------------------------------------------------------------
(* Properties.                                                             *)

\* A row that is PENDING is about to be sent and marked by the handler that created
\* it.  The exception is an outcome nobody wrote, because the process ended or the
\* UPDATE failed: such a row stays PENDING, no retry looks for it, and the guard
\* passes over its endpoint (webhook-delivery.service.js:139-169).
PendingIsHeld ==
    \A r \in Rows : delivery[r].status = "PENDING" => fanout[r[1]].hook = {r[2]} \/ r \in untold

HookInFlight(r) == \/ fanout[r[1]].hook = {r[2]}
                   \/ \E j \in RetryJobs : retry[j].row = {r}

\* attempt_count is the number of requests made for the row, and there are three at
\* most, unless two jobs had the row at once or an outcome was not written
\* (webhook-delivery.model.js:57-76, webhook-delivery.service.js:184-217).
CountTellsRequests ==
    \A r \in Rows \ (shared \cup untold) :
        /\ ~HookInFlight(r) => delivery[r].count = sends[r]
        /\ sends[r] <= RetryDelays + 1

\* An endpoint has two delivery rows for one notification only if two effects of it
\* were past the dedup guard at once: no handling sends what an earlier one sent, a
\* redelivery of the same effect or, which the guard does not tell apart, the fan-out of
\* a later update (webhook-delivery.service.js:134-143).
OneRowForEndpoint ==
    \A w \in Hooks \ together : Cardinality({f \in Fanouts : HasRow(f, w)}) <= 1

\* A fan-out that is done has sent to each endpoint it listed, as the documentation has
\* it: "A webhook payload is fired for each update to the aggregated row (including
\* count increments)" (docs/site/en/endpoints/notifications.md:63).  It does not hold: the
\* guard looks for the notification's rows, and an update of an aggregated notification
\* has the rows of the first fan-out (webhook-delivery.service.js:139-143).
EveryUpdateFires ==
    \A f \in Fanouts : fanout[f].at = "done" => \A w \in fanout[f].listed : HasRow(f, w)

\* An endpoint's deliveries are neither forgotten nor made twice, and their rows count
\* the requests, within the bounds each part states (webhook-delivery.service.js:127-217).
DeliveriesAreKept == PendingIsHeld /\ OneRowForEndpoint /\ CountTellsRequests
=============================================================================
