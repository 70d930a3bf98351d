--------------------------- MODULE DocumentEmail ---------------------------
(***************************************************************************)
(* The e-mail that sends one authorized document to its buyer: the         *)
(* INVOICE_AUTHORIZED_EMAIL effect, the tenant's two ways to send it       *)
(* again, and Mailgun's events about what was sent.                        *)
(*                                                                         *)
(* A sender reads the document, mails it, and then writes its e-mail       *)
(* status together with the document's status as it read it, which the     *)
(* trigger on documents refuses once the document is voided.  The effect   *)
(* is handled at least once, by one handler at a time (Outbox).            *)
(***************************************************************************)
EXTENDS Naturals, FiniteSets

CONSTANTS
    Handlings,     \* the times the effect is handled
    Retries,       \* retrySingleEmail() calls
    Sweeps,        \* retryFailedEmails() calls
    MaxMails,      \* bound: mails sent
    MaxReports,    \* bound: Mailgun events in hand at a time
    MailFailures   \* bound: mails refused, statements that fail, and crashes

ASSUME MailBounds == MaxMails \in Nat /\ MailFailures \in Nat

VARIABLES
    invoice,       \* documents: status, email_status and email_message_id (0 is NULL)
    sender,        \* what each of the senders is doing
    settled,       \* the effect is DONE
    mail,          \* what became of each message sent
    reports,       \* events that found the document by its message id, about to be written
    mailFailures,  \* failures so far
    resent,        \* history: why the buyer may have been sent it twice
    crossed        \* history: another message was recorded while an event was in hand

emailVars == <<invoice, sender, settled, mail, reports, mailFailures, resent, crossed>>

Senders == Handlings \cup Retries \cup Sweeps
MailStates == {"PENDING", "SENT", "FAILED", "SKIPPED", "DELIVERED", "COMPLAINED"}
Fates == {"underway", "delivered", "bounced", "complained"}
Reports == (1 .. MaxMails) \X {"DELIVERED", "FAILED", "COMPLAINED"}

EmailTypeOK ==
    /\ invoice \in [status : {"AUTHORIZED", "VOIDED"}, mail : MailStates, message : 0 .. MaxMails]
    /\ sender \in [Senders -> [at : {"idle", "read", "sent", "off", "refused", "done"},
                               status : {"AUTHORIZED", "VOIDED"}, message : 0 .. MaxMails]]
    /\ settled \in BOOLEAN
    /\ \E n \in 0 .. MaxMails : mail \in [1 .. n -> Fates]
    /\ reports \subseteq Reports /\ mailFailures \in Nat /\ crossed \in BOOLEAN
    /\ resent \subseteq {"forced", "voided", "unwritten", "overlap", "bounced", "handled"}

NoSender == [at |-> "idle", status |-> "AUTHORIZED", message |-> 0]

EmailInit ==
    /\ invoice = [status |-> "AUTHORIZED", mail |-> "PENDING", message |-> 0]
    /\ sender = [s \in Senders |-> NoSender]
    /\ settled = FALSE /\ mail = [n \in {} |-> "underway"]
    /\ reports = {} /\ mailFailures = 0 /\ resent = {} /\ crossed = FALSE

MailFailure == mailFailures < MailFailures /\ mailFailures' = mailFailures + 1
Mails == Cardinality(DOMAIN mail)
Sending == {s \in Senders : sender[s].at \notin {"idle", "done"}}

-----------------------------------------------------------------------------
(* Who sends it, and when.                                                 *)

Sends(s) ==
    sender' = [sender EXCEPT ![s] = [NoSender EXCEPT !.at = "read", !.status = invoice.status]]

\* Two at once, or the effect once more after something was sent, mail it again.
Risks(s) ==
    resent' = resent \cup (IF Sending # {} THEN {"overlap"} ELSE {})
                     \cup (IF s \in Handlings /\ Mails > 0 THEN {"handled"} ELSE {})

\* The effect's handler looks at neither status.
Handles(s) ==
    /\ ~settled /\ Handlings \cap Sending = {} /\ sender[s].at = "idle"
    /\ Sends(s) /\ Risks(s)
    /\ UNCHANGED <<invoice, settled, mail, mailFailures, reports, crossed>>

\* Mutant: only SENT counts as delivered.
SentOnly == invoice.mail = "SENT"

AlreadyDelivered == invoice.mail \in {"SENT", "DELIVERED", "COMPLAINED"}

\* retrySingleEmail().
RetriesOne(s, force) ==
    /\ sender[s].at = "idle" /\ invoice.status = "AUTHORIZED" /\ (AlreadyDelivered => force)
    /\ Sends(s)
    /\ resent' = resent \cup (IF Sending # {} THEN {"overlap"} ELSE {})
                        \cup (IF AlreadyDelivered THEN {"forced"} ELSE {})
    /\ UNCHANGED <<invoice, settled, mail, mailFailures, reports, crossed>>

\* retryFailedEmails(): the documents are read first, and mailed one by one.
RetriesFailed(s) ==
    /\ sender[s].at = "idle" /\ invoice.status = "AUTHORIZED" /\ invoice.mail \in {"PENDING", "FAILED"}
    /\ Sends(s) /\ Risks(s)
    /\ UNCHANGED <<invoice, settled, mail, mailFailures, reports, crossed>>

-----------------------------------------------------------------------------
(* sendInvoiceAuthorized(), and what is written afterwards.                *)

Moves(s, place) == sender' = [sender EXCEPT ![s].at = place]

\* The row has another message id from then on, and an event of the former one is in hand.
Crosses == crossed' = (crossed \/ (reports # {} /\ invoice'.message # invoice.message))

IsMailed(s) ==
    /\ sender[s].at = "read" /\ Mails < MaxMails
    /\ mail' = [n \in 1 .. Mails + 1 |-> IF n <= Mails THEN mail[n] ELSE "underway"]
    /\ sender' = [sender EXCEPT ![s].at = "sent", ![s].message = Mails + 1]
    /\ UNCHANGED <<invoice, settled, mailFailures, resent, reports, crossed>>

\* There is no address, or sending is off.
IsSkipped(s) ==
    /\ sender[s].at = "read" /\ Moves(s, "off")
    /\ UNCHANGED <<invoice, settled, mail, mailFailures, resent, reports, crossed>>

\* The provider refuses it, or it cannot be rendered.
IsRefused(s) ==
    /\ sender[s].at = "read" /\ MailFailure /\ Moves(s, "refused")
    /\ UNCHANGED <<invoice, settled, mail, resent, reports, crossed>>

\* updateStatus() may write the status it read: the trigger lets AUTHORIZED become VOIDED
\* only, and an unchanged status pass.
Allowed(s) == invoice.status = sender[s].status \/ sender[s].status = "VOIDED"

\* updateStatus() and the event, and for a handler DONE.
WritesSent(s) ==
    /\ sender[s].at \in {"sent", "off"} /\ Allowed(s) /\ Moves(s, "done")
    /\ invoice' = IF sender[s].at = "sent"
                  THEN [status |-> sender[s].status, mail |-> "SENT", message |-> sender[s].message]
                  ELSE [invoice EXCEPT !.status = sender[s].status, !.mail = "SKIPPED"]
    /\ settled' = (settled \/ s \in Handlings) /\ Crosses
    /\ UNCHANGED <<mail, mailFailures, resent, reports>>

\* The trigger refuses the write, and in the catch the write of FAILED too: the effect is
\* left to be handled again, the job ends with its other documents not mailed.
IsOverruled(s) ==
    /\ sender[s].at \in {"sent", "off", "refused"} /\ ~Allowed(s) /\ Moves(s, "done")
    /\ resent' = IF sender[s].at = "sent" THEN resent \cup {"voided"} ELSE resent
    /\ UNCHANGED <<invoice, settled, mail, mailFailures, reports, crossed>>

\* The catch: FAILED.  The effect is handled again later.
WritesFailed(s) ==
    /\ sender[s].at = "refused" /\ Allowed(s) /\ Moves(s, "done")
    /\ invoice' = [invoice EXCEPT !.status = sender[s].status, !.mail = "FAILED"]
    /\ UNCHANGED <<settled, mail, mailFailures, resent, reports, crossed>>

\* A statement fails, or the process ends.  When SENT or its event is not written the
\* catch writes FAILED, the message's id being written or not; and a handler may end
\* between SENT and DONE.
SenderFails(s) ==
    /\ sender[s].at \notin {"idle", "done"} /\ MailFailure /\ Moves(s, "done")
    /\ resent' = IF sender[s].at = "sent" THEN resent \cup {"unwritten"} ELSE resent
    /\ \/ UNCHANGED invoice
       \/ /\ sender[s].at = "sent" /\ Allowed(s)
          /\ \E written \in {"SENT", "FAILED"}, id \in {invoice.message, sender[s].message} :
                /\ written = "SENT" => id = sender[s].message
                /\ invoice' = [status |-> sender[s].status, mail |-> written, message |-> id]
    /\ Crosses /\ UNCHANGED <<settled, mail, reports>>

\* voidDocument().
IsVoided ==
    /\ invoice.status = "AUTHORIZED" /\ invoice' = [invoice EXCEPT !.status = "VOIDED"]
    /\ UNCHANGED <<sender, settled, mail, mailFailures, resent, reports, crossed>>

-----------------------------------------------------------------------------
(* processEvent().  An event about a message is sent again until it is     *)
(* answered, and overtaken by later ones: any event that was once true may *)
(* arrive.                                                                 *)

\* A message is delivered, and its buyer may complain; or it bounces for good.
HasFate(n) ==
    /\ \E fate \in Fates :
          /\ \/ mail[n] = "underway" /\ fate \in {"delivered", "bounced"}
             \/ mail[n] = "delivered" /\ fate = "complained"
          /\ mail' = [mail EXCEPT ![n] = fate]
    /\ UNCHANGED <<invoice, sender, settled, mailFailures, resent, reports, crossed>>

Events(n) == CASE mail[n] = "delivered" -> {"DELIVERED"} [] mail[n] = "bounced" -> {"FAILED"}
               [] mail[n] = "complained" -> {"DELIVERED", "COMPLAINED"} [] OTHER -> {}

\* Mutant: the event is taken for the document's latest message.
HearsOfAny(n) ==
    /\ invoice.message # 0 /\ Cardinality(reports) < MaxReports
    /\ \E status \in Events(n) : reports' = reports \cup {<<n, status>>}
    /\ UNCHANGED <<invoice, sender, settled, mail, mailFailures, resent, crossed>>

\* The document is found by the message id it has.  A temporary failure changes nothing.
HearsOf(n) ==
    /\ invoice.message = n /\ Cardinality(reports) < MaxReports
    /\ \E status \in Events(n) : reports' = reports \cup {<<n, status>>}
    /\ UNCHANGED <<invoice, sender, settled, mail, mailFailures, resent, crossed>>

\* Whatever the row's e-mail status and message are by then, the status is overwritten.
WritesReport(report) ==
    /\ report \in reports /\ reports' = reports \ {report}
    /\ invoice' = [invoice EXCEPT !.mail = report[2]]
    /\ resent' = IF report[2] = "FAILED" THEN resent \cup {"bounced"} ELSE resent
    /\ UNCHANGED <<sender, settled, mail, mailFailures, crossed>>

-----------------------------------------------------------------------------
SenderStep(s) == IsMailed(s) \/ IsSkipped(s) \/ IsRefused(s) \/ WritesSent(s) \/ IsOverruled(s)
                 \/ WritesFailed(s) \/ SenderFails(s)

EmailNext ==
    \/ \E s \in Handlings : Handles(s)
    \/ \E s \in Retries, force \in BOOLEAN : RetriesOne(s, force)
    \/ \E s \in Sweeps : RetriesFailed(s)
    \/ \E s \in Senders : SenderStep(s)
    \/ \E n \in DOMAIN mail : HasFate(n) \/ HearsOf(n)
    \/ \E report \in reports : WritesReport(report)
    \/ IsVoided

EmailSpec == EmailInit /\ [][EmailNext]_emailVars

-----------------------------------------------------------------------------
(* Properties.                                                             *)

\* The buyer is sent a document twice only if the tenant forced it, the first message
\* bounced, a void or a failure kept SENT from being written, two senders read it at
\* once, or the effect was handled again after the tenant's own retry
\* (document-email.service.js:17-99, effects/index.js:82-106).
MailedOnce == Mails <= 1 \/ resent # {}

\* An e-mail status of DELIVERED or COMPLAINED is true of the message the document
\* names, the one sent last by a sender that wrote it, however late or often the events
\* of this and of earlier messages arrive; unless another message was recorded between
\* the look-up of an event's document and the writing of its status
\* (mailgun-webhook.service.js:48-94, document.model.js:115-134).
StatusIsOfMessage == ~crossed =>
    /\ invoice.mail = "DELIVERED" => mail[invoice.message] \in {"delivered", "complained"}
    /\ invoice.mail = "COMPLAINED" => mail[invoice.message] = "complained"
=============================================================================
