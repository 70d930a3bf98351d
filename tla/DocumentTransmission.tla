------------------------ MODULE DocumentTransmission ------------------------
(***************************************************************************)
(* A document's way to the tax authority (SRI): the API requests that send *)
(* it, check it, rebuild it and void it, the SRI_SEND and SRI_AUTHORIZE    *)
(* handlers the worker runs for the rows of the outbox (EffectRuns), and   *)
(* the SRI itself.                                                         *)
(*                                                                         *)
(* Every request and every handler reads the document first, decides, and  *)
(* writes later in statements of its own: between two of its steps the     *)
(* others run.  The status column is written without a condition; only the *)
(* trigger of migration 096 looks at the row's current status.             *)
(***************************************************************************)
EXTENDS Naturals, EffectRuns

CONSTANTS
    Docs,             \* documents, created SIGNED
    Sends,            \* the ids of SRI_SEND rows
    DocOf,            \* the document_id of each row
    Requests,         \* concurrent API requests
    MaxXml,           \* bound: signed versions of one document
    MaxDisturbances   \* bound: failures, crashes, unusable answers, manual retries, late marks

ASSUME TransmissionAssumption ==
    /\ Effects = Sends \cup Polling /\ Sends \cap Polling = {}
    /\ DocOf \in [Effects -> Docs]
    /\ KeyOf = [e \in Polling |-> DocOf[e]]
    /\ MaxXml \in Nat /\ MaxDisturbances \in Nat

VARIABLES
    doc,          \* the documents table: status and version of the signed XML
    sri,          \* what the SRI holds under each access key, and its verdict
    hand,         \* where each running handler is, what it read and was told
    req,          \* the API requests in progress
    fanout,       \* documents whose notification and WEBHOOK_FANOUT row exist
    mail,         \* documents whose INVOICE_AUTHORIZED_EMAIL row exists
    interrupted,  \* history: documents a request or handler left half way
    adopted,      \* history: documents whose check reused an open row
    overlapped,   \* history: documents two SRI_SEND handlers submitted at once
    misread,      \* history: documents of which an answer without a verdict was taken for a no
    unheard,      \* history: documents the SRI took in without its answer's being recorded
    disturbances  \* so far

emitted == <<fanout, mail>>
told    == <<misread, unheard>>
history == <<interrupted, adopted, overlapped, told>>
vars == <<runVars, doc, sri, hand, req, emitted, history, disturbances>>

-----------------------------------------------------------------------------
Status == {"SIGNED", "PENDING_SEND", "RECEIVED", "RETURNED",
           "AUTHORIZED", "NOT_AUTHORIZED", "VOIDED"}

Transitions ==
    [SIGNED         |-> {"PENDING_SEND"},
     PENDING_SEND   |-> {"RECEIVED", "RETURNED"},
     RECEIVED       |-> {"AUTHORIZED", "NOT_AUTHORIZED"},
     RETURNED       |-> {"SIGNED"},
     NOT_AUTHORIZED |-> {"SIGNED"},
     AUTHORIZED     |-> {"VOIDED"},
     VOIDED         |-> {}]

CanTransition(d, to) == to \in Transitions[doc[d].status]

\* The trigger also lets an UPDATE keep the status.
TriggerAllows(d, to) == to = doc[d].status \/ CanTransition(d, to)

Places == {"start", "sending", "sent", "received", "asking", "asked",
           "authorized", "notified", "end"}
Answers == {"none", "RECIBIDA", "DEVUELTA", "43", "70", "AUTORIZADO", "NO AUTORIZADO", "other"}
Operations == {"send", "check", "rebuild", "void"}

NoHand == [at |-> "start", xml |-> 0, answer |-> "none"]
NoRequest == [at |-> "none"]

TypeOK ==
    /\ RunsTypeOK
    /\ doc \in [Docs -> [status : Status, xml : Nat]]
    /\ sri \in [Docs -> [verdict : {"none", "processing", "authorized", "rejected"}, xml : Nat]]
    /\ hand \in [Workers -> [at : Places, xml : Nat, answer : Answers]]
    /\ req \in [Requests -> [at : {"write", "enqueue"}, op : Operations, doc : Docs] \cup {NoRequest}]
    /\ fanout \in SUBSET Docs /\ mail \in SUBSET Docs
    /\ interrupted \in SUBSET Docs /\ adopted \in SUBSET Docs
    /\ overlapped \in SUBSET Docs /\ misread \in SUBSET Docs /\ unheard \in SUBSET Docs
    /\ disturbances \in Nat

Init ==
    /\ RunsInit
    /\ doc = [d \in Docs |-> [status |-> "SIGNED", xml |-> 1]]
    /\ sri = [d \in Docs |-> [verdict |-> "none", xml |-> 0]]
    /\ hand = [w \in Workers |-> NoHand]
    /\ req = [r \in Requests |-> NoRequest]
    /\ fanout = {} /\ mail = {}
    /\ interrupted = {} /\ adopted = {} /\ overlapped = {} /\ misread = {} /\ unheard = {}
    /\ disturbances = 0

Disturbed == /\ disturbances < MaxDisturbances
             /\ disturbances' = disturbances + 1

SetStatus(d, st) == doc' = [doc EXCEPT ![d].status = st]

\* enqueue() with the key of d's SRI_AUTHORIZE rows: an open row is waited for
\* and returned as it is, otherwise a new one is inserted.
ReusesCheck(d) == /\ \E e \in Polling : KeyOf[e] = d /\ effect[e] = "open" /\ ~Held(e)
                  /\ UNCHANGED effect

CreatesCheck(d) == \E e \in Polling : KeyOf[e] = d /\ Request(e)

-----------------------------------------------------------------------------
(* API requests.                                                           *)

Starts(r, op, d, at) ==
    /\ req[r] = NoRequest
    /\ req' = [req EXCEPT ![r] = [at |-> at, op |-> op, doc |-> d]]
    /\ UNCHANGED <<runVars, doc, sri, hand, emitted, history, disturbances>>

Returns(r) == req' = [req EXCEPT ![r] = NoRequest]

At(r, op, at) == req[r] # NoRequest /\ req[r].op = op /\ req[r].at = at

ReadToSend(r, d)    == CanTransition(d, "PENDING_SEND") /\ Starts(r, "send", d, "write")
ReadToCheck(r, d)   == CanTransition(d, "AUTHORIZED") /\ Starts(r, "check", d, "enqueue")
ReadToRebuild(r, d) == CanTransition(d, "SIGNED") /\ Starts(r, "rebuild", d, "write")
ReadToVoid(r, d)    == doc[d].status = "AUTHORIZED" /\ Starts(r, "void", d, "write")

SetPendingSend(r) ==
    LET d == req[r].doc
    IN  /\ At(r, "send", "write")
        /\ \/ /\ TriggerAllows(d, "PENDING_SEND") /\ SetStatus(d, "PENDING_SEND")
              /\ req' = [req EXCEPT ![r].at = "enqueue"]
           \/ ~TriggerAllows(d, "PENDING_SEND") /\ Returns(r) /\ UNCHANGED doc
        /\ UNCHANGED <<runVars, sri, hand, emitted, history, disturbances>>

\* Mutant: rows keep their deduplication key once settled.
EnqueueSendOnce(r) ==
    /\ At(r, "send", "enqueue") /\ Returns(r)
    /\ \/ \E e \in Sends : DocOf[e] = req[r].doc /\ effect[e] # "absent" /\ UNCHANGED runVars
       \/ /\ \A e \in Sends : DocOf[e] = req[r].doc => effect[e] = "absent"
          /\ \E e \in Sends : DocOf[e] = req[r].doc /\ Request(e)
    /\ UNCHANGED <<doc, sri, hand, emitted, history, disturbances>>

EnqueueSend(r) ==
    /\ At(r, "send", "enqueue") /\ Returns(r)
    /\ \E e \in Sends : DocOf[e] = req[r].doc /\ Request(e)
    /\ UNCHANGED <<doc, sri, hand, emitted, history, disturbances>>

EnqueueRequestedCheck(r) ==
    /\ At(r, "check", "enqueue") /\ Returns(r)
    /\ ReusesCheck(req[r].doc) \/ CreatesCheck(req[r].doc)
    /\ UNCHANGED <<task, doc, sri, hand, emitted, history, disturbances>>

\* One transaction: the new XML, the line items and the status.
CommitRebuild(r) ==
    LET d == req[r].doc
    IN  /\ At(r, "rebuild", "write") /\ Returns(r)
        /\ \/ /\ TriggerAllows(d, "SIGNED") /\ doc[d].xml < MaxXml
              /\ doc' = [doc EXCEPT ![d] = [status |-> "SIGNED", xml |-> @.xml + 1]]
           \/ ~TriggerAllows(d, "SIGNED") /\ UNCHANGED doc
        /\ UNCHANGED <<runVars, sri, hand, emitted, history, disturbances>>

SetVoided(r) ==
    LET d == req[r].doc
    IN  /\ At(r, "void", "write") /\ Returns(r)
        /\ TriggerAllows(d, "VOIDED") /\ SetStatus(d, "VOIDED")
        /\ UNCHANGED <<runVars, sri, hand, emitted, history, disturbances>>

\* The process dies or a statement fails: what was written stays written.
RequestDies(r) ==
    /\ req[r] # NoRequest /\ Returns(r) /\ Disturbed
    /\ interrupted' = IF At(r, "send", "enqueue") THEN interrupted \cup {req[r].doc}
                      ELSE interrupted
    /\ UNCHANGED <<runVars, doc, sri, hand, emitted, adopted, overlapped, told>>

\* The manual retry of a FAILED row, or a late markDispatched.
ReopenRow(e) ==
    /\ Reopen(e) /\ Disturbed
    /\ UNCHANGED <<doc, sri, hand, req, emitted, history>>

-----------------------------------------------------------------------------
(* The worker: the SRI_SEND and SRI_AUTHORIZE handlers.                     *)

DocAt(w) == DocOf[task[w].effect]

Running(w, rows, at) ==
    task[w].phase = "running" /\ task[w].effect \in rows /\ hand[w].at = at

Moves(w, at) == hand' = [hand EXCEPT ![w].at = at]

Hears(w, at, answer) == hand' = [hand EXCEPT ![w].at = at, ![w].answer = answer]

\* Where the handler was is forgotten with its run.
LetsGo(w) == hand' = [hand EXCEPT ![w] = NoHand]

Claim(w, e) ==
    /\ Begin(w, e)
    /\ UNCHANGED <<doc, sri, hand, req, emitted, history, disturbances>>

\* Another SRI_SEND handler has read d and not written its status yet.
BeingSent(d) ==
    \E v \in Workers : /\ Running(v, Sends, "sending") \/ Running(v, Sends, "sent")
                       /\ DocAt(v) = d

ReadForSend(w) ==
    LET d == DocAt(w)
    IN  /\ Running(w, Sends, "start") /\ CanTransition(d, "RECEIVED")
        /\ hand' = [hand EXCEPT ![w].at = "sending", ![w].xml = doc[d].xml]
        /\ overlapped' = IF BeingSent(d) THEN overlapped \cup {d} ELSE overlapped
        /\ UNCHANGED <<runVars, doc, sri, req, emitted, interrupted, adopted, told, disturbances>>

ReadForCheck(w) ==
    /\ Running(w, Polling, "start") /\ CanTransition(DocAt(w), "AUTHORIZED")
    /\ Moves(w, "asking")
    /\ UNCHANGED <<runVars, doc, sri, req, emitted, history, disturbances>>

\* assertTransition throws an AppError 400.
RefuseStale(w) ==
    /\ \/ Running(w, Sends, "start") /\ ~CanTransition(DocAt(w), "RECEIVED")
       \/ Running(w, Polling, "start") /\ ~CanTransition(DocAt(w), "AUTHORIZED")
    /\ Refuse(w) /\ LetsGo(w)
    /\ UNCHANGED <<doc, sri, req, emitted, history, disturbances>>

\* The SRI takes in a version of d, or returns it: it keeps one version per
\* access key, until it rejects it.  Any answer may also come without an
\* `estado`, or with one of no known meaning.
Accepts(d, xml) == sri' = [sri EXCEPT ![d] = [verdict |-> "processing", xml |-> xml]]

Reception(w, answer) ==
    LET d == DocAt(w)
    IN  /\ Running(w, Sends, "sending")
        /\ \/ /\ sri[d].verdict \in {"none", "rejected"}
              /\ \/ answer \in {"RECIBIDA", "other"} /\ Accepts(d, hand[w].xml)
                 \/ answer \in {"DEVUELTA", "other"} /\ UNCHANGED sri
           \/ sri[d].verdict = "processing" /\ answer \in {"70", "other"} /\ UNCHANGED sri
           \/ sri[d].verdict = "authorized" /\ answer \in {"43", "other"} /\ UNCHANGED sri

\* An answer "other" is not a yes, and misread when it should not count as a no.
Reads(d, answer, no) ==
    \/ answer # "other" /\ UNCHANGED <<misread, disturbances>>
    \/ /\ answer = "other" /\ Disturbed
       /\ misread' = IF no THEN misread ELSE misread \cup {d}

Submit(w) ==
    \E answer \in Answers :
        /\ Reception(w, answer) /\ Hears(w, "sent", answer)
        /\ Reads(DocAt(w), answer, sri'[DocAt(w)].verdict \in {"none", "rejected"})
        /\ UNCHANGED <<runVars, doc, req, emitted, interrupted, adopted, overlapped, unheard>>

\* The answer is lost; fetchWithRetry submits the same envelope again.
SubmitLost(w) ==
    /\ \E answer \in Answers : Reception(w, answer)
    /\ unheard' = IF sri' # sri THEN unheard \cup {DocAt(w)} ELSE unheard
    /\ UNCHANGED <<runVars, doc, hand, req, emitted, interrupted, adopted, overlapped, misread,
                   disturbances>>

\* The UPDATE of the status and the step that follows it; the trigger's refusal
\* is an error like any other.
Writes(w, st, next) ==
    \/ TriggerAllows(DocAt(w), st) /\ SetStatus(DocAt(w), st)
       /\ hand' = [hand EXCEPT ![w] = [NoHand EXCEPT !.at = next]]
       /\ UNCHANGED runVars
    \/ ~TriggerAllows(DocAt(w), st) /\ Fail(w) /\ LetsGo(w) /\ UNCHANGED doc

TakenIn(w) == hand[w].answer \in {"RECIBIDA", "70"}

SetReceived(w) ==
    /\ Running(w, Sends, "sent")
    /\ IF TakenIn(w) THEN Writes(w, "RECEIVED", "received") ELSE Writes(w, "RETURNED", "end")
    /\ UNCHANGED <<sri, req, emitted, history, disturbances>>

\* Mutant: sendToSri leaves the check to the client.
NoCheck(w) ==
    /\ Running(w, Sends, "received") /\ Moves(w, "end")
    /\ UNCHANGED <<runVars, doc, sri, req, emitted, history, disturbances>>

EnqueueCheck(w) ==
    LET d == DocAt(w)
    IN  /\ Running(w, Sends, "received") /\ Moves(w, "end")
        /\ \/ ReusesCheck(d) /\ adopted' = adopted \cup {d}
           \/ CreatesCheck(d) /\ UNCHANGED adopted
        /\ UNCHANGED <<task, doc, sri, req, emitted, interrupted, overlapped, told, disturbances>>

\* Mutant: result.pending is not looked at.
AskAnything(w) ==
    /\ Running(w, Polling, "asking") /\ Hears(w, "asked", "EN PROCESO")
    /\ UNCHANGED <<runVars, doc, sri, req, emitted, history, disturbances>>

\* Whatever is neither AUTORIZADO nor "no comprobantes yet" counts as a no.
Ask(w) ==
    LET verdict == sri[DocAt(w)].verdict
    IN  /\ Running(w, Polling, "asking")
        /\ \E answer \in {"AUTORIZADO", "NO AUTORIZADO", "other"} :
              /\ answer = "AUTORIZADO" => verdict = "authorized"
              /\ answer = "NO AUTORIZADO" => verdict = "rejected"
              /\ Hears(w, "asked", answer)
              /\ Reads(DocAt(w), answer, verdict = "rejected")
        /\ UNCHANGED <<runVars, doc, sri, req, emitted, interrupted, adopted, overlapped, unheard>>

\* Mutant: "still processing" ends the effect.
DoneWhenPending(w) ==
    /\ Running(w, Polling, "asking") /\ sri[DocAt(w)].verdict \in {"none", "processing"}
    /\ Moves(w, "end")
    /\ UNCHANGED <<runVars, doc, sri, req, emitted, history, disturbances>>

AskAgainLater(w) ==
    /\ Running(w, Polling, "asking") /\ sri[DocAt(w)].verdict \in {"none", "processing"}
    /\ Requeue(w) /\ LetsGo(w)
    /\ UNCHANGED <<doc, sri, req, emitted, history, disturbances>>

SetVerdict(w) ==
    /\ Running(w, Polling, "asked")
    /\ IF hand[w].answer = "AUTORIZADO" THEN Writes(w, "AUTHORIZED", "authorized")
       ELSE Writes(w, "NOT_AUTHORIZED", "end")
    /\ UNCHANGED <<sri, req, emitted, history, disturbances>>

\* createDocumentAuthorized, which enqueues WEBHOOK_FANOUT.
Notify(w) ==
    /\ Running(w, Polling, "authorized") /\ Moves(w, "notified")
    /\ fanout' = fanout \cup {DocAt(w)}
    /\ UNCHANGED <<runVars, doc, sri, req, mail, history, disturbances>>

\* Mutant: the INSERT of the e-mail's row is not awaited.
UnawaitedEmail(w) ==
    /\ Running(w, Polling, "notified") /\ Moves(w, "end")
    /\ mail' \in {mail, mail \cup {DocAt(w)}}
    /\ UNCHANGED <<runVars, doc, sri, req, fanout, history, disturbances>>

QueueEmail(w) ==
    /\ Running(w, Polling, "notified") /\ Moves(w, "end")
    /\ mail' = mail \cup {DocAt(w)}
    /\ UNCHANGED <<runVars, doc, sri, req, fanout, history, disturbances>>

HandlerReturns(w) ==
    /\ task[w].phase = "running" /\ hand[w].at = "end" /\ Succeed(w) /\ LetsGo(w)
    /\ UNCHANGED <<doc, sri, req, emitted, history, disturbances>>

CommitDone(w) ==
    Commit(w) /\ UNCHANGED <<doc, sri, hand, req, emitted, history, disturbances>>

CommitLost(w) ==
    CommitFails(w) /\ Disturbed /\ UNCHANGED <<doc, sri, hand, req, emitted, history>>

RecordOutcome(w) ==
    Record(w) /\ UNCHANGED <<doc, sri, hand, req, emitted, history, disturbances>>

\* The status is written and a row that must follow it is not.
HalfWay(w) == /\ task[w].phase = "running"
              /\ hand[w].at \in {"received", "authorized", "notified"}

\* The SRI took the submission in and the status does not say so yet.
Heard(w) == Running(w, Sends, "sent") /\ TakenIn(w)

Interrupts(ws) ==
    /\ interrupted' = interrupted \cup {DocAt(w) : w \in {v \in ws : HalfWay(v)}}
    /\ unheard' = unheard \cup {DocAt(w) : w \in {v \in ws : Heard(v)}}

\* A call to the SRI or a statement of the handler fails.
HandlerFails(w) ==
    /\ Fail(w) /\ Disturbed /\ Interrupts({w}) /\ LetsGo(w)
    /\ UNCHANGED <<doc, sri, req, emitted, adopted, overlapped, misread>>

WorkerCrash ==
    /\ Forget /\ Disturbed /\ Interrupts(Workers)
    /\ hand' = [w \in Workers |-> NoHand]
    /\ UNCHANGED <<doc, sri, req, emitted, adopted, overlapped, misread>>

SriDecides(d) ==
    /\ sri[d].verdict = "processing"
    /\ \E verdict \in {"authorized", "rejected"} : sri' = [sri EXCEPT ![d].verdict = verdict]
    /\ UNCHANGED <<runVars, doc, hand, req, emitted, history, disturbances>>

-----------------------------------------------------------------------------
RequestStep(r) ==
    \/ \E d \in Docs : \/ ReadToSend(r, d) \/ ReadToCheck(r, d)
                       \/ ReadToRebuild(r, d) \/ ReadToVoid(r, d)
    \/ SetPendingSend(r) \/ EnqueueSend(r) \/ EnqueueRequestedCheck(r)
    \/ CommitRebuild(r) \/ SetVoided(r) \/ RequestDies(r)

SendStep(w)  == \/ ReadForSend(w) \/ Submit(w) \/ SubmitLost(w)
                \/ SetReceived(w) \/ EnqueueCheck(w)
CheckStep(w) == \/ ReadForCheck(w) \/ Ask(w) \/ AskAgainLater(w)
                \/ SetVerdict(w) \/ Notify(w) \/ QueueEmail(w)

WorkerStep(w) == \/ \E e \in Effects : Claim(w, e)
                 \/ RefuseStale(w) \/ SendStep(w) \/ CheckStep(w)
                 \/ HandlerReturns(w) \/ CommitDone(w) \/ CommitLost(w)
                 \/ RecordOutcome(w) \/ HandlerFails(w)

Next == \/ \E r \in Requests : RequestStep(r)
        \/ \E w \in Workers : WorkerStep(w)
        \/ \E e \in Effects : ReopenRow(e)
        \/ \E d \in Docs : SriDecides(d)
        \/ WorkerCrash

Spec == Init /\ [][Next]_vars

(***************************************************************************)
(* Fairness.  An open row is delivered again and again (Outbox), so it is  *)
(* claimed; a handler goes on to its end, the SRI answering in the end     *)
(* (its failures are bounded); a request's next statement runs; the SRI    *)
(* decides what it took in.                                                *)
(***************************************************************************)
Progress(w) == \/ RefuseStale(w) \/ ReadForSend(w) \/ Submit(w) \/ SetReceived(w)
               \/ EnqueueCheck(w) \/ CheckStep(w)
               \/ HandlerReturns(w) \/ CommitDone(w) \/ RecordOutcome(w)

Fairness ==
    /\ \A e \in Effects : WF_vars(\E w \in Workers : Claim(w, e))
    /\ \A w \in Workers : WF_vars(Progress(w))
    /\ \A r \in Requests : WF_vars(EnqueueSend(r))
    /\ \A d \in Docs : WF_vars(SriDecides(d))

FairSpec == Spec /\ Fairness

-----------------------------------------------------------------------------
(* Properties.                                                             *)

SriHolds(d) == sri[d].verdict \in {"processing", "authorized"}

RowsOf(d, rows) == {e \in rows : DocOf[e] = d}

Unsettled(e) == effect[e] \in {"open", "failed"}

\* The API reports no more than the SRI did.  AUTHORIZED is always the SRI's verdict.
\* RECEIVED and AUTHORIZED speak of the version the SRI holds, and NOT_AUTHORIZED is a
\* rejection, unless two SRI_SEND handlers submitted the document at once or an answer
\* without a verdict was taken for a no.  A document with none of these behind it, and
\* whose submissions were all heard, is RETURNED only when the SRI does not hold it.
StatusIsTheSris ==
    /\ \A d \in Docs : doc[d].status \in {"AUTHORIZED", "VOIDED"} => sri[d].verdict = "authorized"
    /\ \A d \in Docs \ (overlapped \cup misread) :
          /\ doc[d].status \in {"RECEIVED", "AUTHORIZED", "VOIDED"} => sri[d].xml = doc[d].xml
          /\ doc[d].status = "NOT_AUTHORIZED" => sri[d].verdict = "rejected"
          /\ d \notin unheard /\ doc[d].status = "RETURNED" => ~SriHolds(d)

\* A row or a request in progress that will, or on a manual retry can, take d on.
HasSend(d) == \/ \E e \in RowsOf(d, Sends) : Unsettled(e)
              \/ \E r \in Requests : At(r, "send", "enqueue") /\ req[r].doc = d

HasCheck(d) == \/ \E e \in RowsOf(d, Polling) : Unsettled(e)
               \/ \E w \in Workers : Running(w, Sends, "received") /\ DocAt(w) = d

BeingAnnounced(d) == \E w \in Workers : HalfWay(w) /\ DocAt(w) = d

\* A PENDING_SEND document has an SRI_SEND row that will be run, or can be
\* retried, unless queueSend was cut between its two statements.
PendingHasSend ==
    \A d \in Docs \ interrupted : doc[d].status = "PENDING_SEND" => HasSend(d)

\* A RECEIVED document has an SRI_AUTHORIZE row that will be run, unless
\* sendToSri was cut before its enqueue, or found an open row to reuse.
ReceivedHasCheck ==
    \A d \in Docs \ (interrupted \cup adopted) : doc[d].status = "RECEIVED" => HasCheck(d)

\* An authorized document's notification, webhooks and e-mail are created,
\* unless checkAuthorization was cut after it wrote the status.
AuthorizedIsAnnounced ==
    \A d \in Docs \ interrupted :
        doc[d].status \in {"AUTHORIZED", "VOIDED"} => d \in fanout \cap mail \/ BeingAnnounced(d)

\* A document does not stay PENDING_SEND or RECEIVED, nor go from one to the other for
\* ever: the SRI's answer reaches it, unless a step above was lost or a row of its own
\* gave up and waits for the manual retry.
Waiting(d) == doc[d].status \in {"PENDING_SEND", "RECEIVED"}

Stuck(d) == \/ d \in interrupted \cup adopted
            \/ \E e \in Effects : DocOf[e] = d /\ effect[e] = "failed"

DocumentsMoveOn == \A d \in Docs : Waiting(d) ~> ~Waiting(d) \/ Stuck(d)

\* ADR-022: "a crash between 'decided this should happen' and 'it happened' no
\* longer loses work anywhere": a PENDING_SEND document keeps a row to send it.
CrashKeepsSend == \A d \in Docs : doc[d].status = "PENDING_SEND" => HasSend(d)
=============================================================================
