----------------------------- MODULE MCProgress -----------------------------
(***************************************************************************)
(* What must happen in the end, checked in one run: the outbox, the        *)
(* transmission of a document and the payment by card, each under its own  *)
(* fairness.  They share no state, and in every behaviour one of them      *)
(* moves: nothing of the others is enabled before their first step, so     *)
(* that their fairness asks for nothing.                                   *)
(***************************************************************************)
EXTENDS Naturals, TLC

CONSTANTS doc1, send1, send2, check1, check2, check3, w1, s1, r1, a1, c1, c2, j1

VARIABLES
    part,                                                         \* the module that moves
    row, publishing, marking, queue, work, sweep, handlerFailures, finished, completed,
    overwritten, crashes, retries,                                \* Outbox
    effect, run, doc, sri, hand, req, fanout, mail, interrupted, adopted, overlapped,
    misread, unheard, disturbances,                               \* DocumentTransmission
    payment, ends, session, attempt, charge, task, failures, unrecorded, misexpired,
    half                                                          \* CardPayment

Sent    == {send1, send2}
Checked == {check1, check2, check3}
Rows    == Sent \cup Checked
DocOf   == [e \in Rows |-> doc1]
KeyOf   == [e \in Checked |-> doc1]
Workers == {w1}

DeliveredRows == {send1, check1}
DeliveredKeys == {check1}
DeliveredKeyOf == [e \in DeliveredKeys |-> doc1]
Sweeps  == {s1}

Docs == {doc1}
Requests == {r1}
Attempts == {a1}
Confirms == {c1, c2}
Jobs == {j1}

Delivery == INSTANCE Outbox WITH
    Effects <- DeliveredRows, Polling <- DeliveredKeys, KeyOf <- DeliveredKeyOf,
    MaxAttempts <- 1, BatchLimit <- 2, MaxInFlight <- 0,
    MaxQueued <- 1, MaxFailures <- 1, MaxCrashes <- 1, MaxRetries <- 0,
    failures <- handlerFailures

Transmission == INSTANCE DocumentTransmission WITH
    Sends <- Sent, Polling <- Checked, Effects <- Rows, MaxXml <- 2, MaxDisturbances <- 1,
    task <- run

Card == INSTANCE CardPayment WITH
    MaxPending <- 2, MaxFailures <- 1

deliveryVars == <<row, publishing, marking, queue, work, sweep, handlerFailures, finished, completed,
                  overwritten, crashes, retries>>
transmissionVars == <<effect, run, doc, sri, hand, req, fanout, mail, interrupted, adopted,
                      overlapped, misread, unheard, disturbances>>
cardVars == <<payment, ends, session, attempt, charge, task, failures, unrecorded, misexpired, half>>

ProgressInit ==
    /\ part \in {"delivery", "transmission", "card"}
    /\ Delivery!Init /\ Transmission!Init /\ Card!Init

ProgressNext ==
    /\ UNCHANGED part
    /\ \/ /\ part = "delivery" /\ Delivery!Next
          /\ UNCHANGED <<transmissionVars, cardVars>>
       \/ /\ part = "transmission" /\ Transmission!Next
          /\ UNCHANGED <<deliveryVars, cardVars>>
       \/ /\ part = "card" /\ Card!Next
          /\ UNCHANGED <<deliveryVars, transmissionVars>>

ProgressSpec ==
    /\ ProgressInit
    /\ [][ProgressNext]_<<part, deliveryVars, transmissionVars, cardVars>>
    /\ Delivery!Fairness /\ Transmission!Fairness /\ Card!Fairness

\* An effect that is not polled is settled some time after it was enqueued: it is not
\* lost in the broker, in a crash or between sweeps (queue-reconciliation.service.js,
\* worker.js).
EveryEffectSettles == Delivery!EveryEffectSettles

\* A document does not wait for ever to be sent or for the SRI's answer, unless a step
\* was lost or a row of its own gave up (document-transmission.service.js, effects/index.js).
DocumentsMoveOn == Transmission!DocumentsMoveOn

\* A captured charge is credited in the end, but for the holes CardPayment names
\* (payphone-payment.service.js).
CapturedIsCredited == Card!CapturedIsCredited
=============================================================================
