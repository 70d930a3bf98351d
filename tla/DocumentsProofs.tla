-------------------------- MODULE DocumentsProofs --------------------------
(***************************************************************************)
(* Proofs about what a tenant holds and what leaves the system: its        *)
(* issuers and webhook endpoints stay within its plan; the e-mail of a     *)
(* document, the deliveries to endpoints, the mails of notifications and   *)
(* verification links are what the database says of them; and about        *)
(* MCDocuments, which holds these together, for any issuers, endpoints,    *)
(* senders, handlers, jobs, calls, notifications and failures.             *)
(***************************************************************************)
EXTENDS MCDocuments, FiniteSetTheorems, TLAPS

-----------------------------------------------------------------------------
(* DocumentEmail: one message, and a status that is true of it.            *)

EmailSender == [at : {"idle", "read", "sent", "off", "refused", "done"},
                status : {"AUTHORIZED", "VOIDED"}, message : 0 .. MaxMails]

Busy(snd, s) == snd[s].at \notin {"idle", "done"}

\* While nothing that may send twice has happened, one sender is at work; after the first
\* message it is the one that sent it, or it wrote that it did.
SentOnce(inv, snd, mails) ==
    /\ \A s, t \in Senders : Busy(snd, s) /\ Busy(snd, t) => s = t
    /\ mails <= 1
    /\ mails >= 1 =>
          \/ \E s \in Senders : snd[s].at = "sent"
          \/ /\ \A s \in Senders : ~Busy(snd, s)
             /\ inv.mail \in {"SENT", "DELIVERED", "COMPLAINED"}

\* A status is true of a message's fate.
Tells(status, fate) == /\ status = "DELIVERED" => fate \in {"delivered", "complained"}
                       /\ status = "COMPLAINED" => fate = "complained"

\* An event in hand is true of its message; while no other message was recorded meanwhile
\* it is an event of the message the document names, whose fate the status tells.
Truthful(inv, ml, rep, cr) ==
    /\ \A r \in rep : r[1] \in DOMAIN ml /\ Tells(r[2], ml[r[1]])
    /\ ~cr => /\ \A r \in rep : r[1] = inv.message
              /\ inv.mail \in {"DELIVERED", "COMPLAINED"} =>
                    inv.message \in DOMAIN ml /\ Tells(inv.mail, ml[inv.message])

EmailInv ==
    /\ EmailTypeOK
    /\ resent = {} => SentOnce(invoice, sender, Mails)
    /\ Truthful(invoice, mail, reports, crossed)

\* The messages are numbered, and counted by the last one.
LEMMA MailsAre ==
    ASSUME EmailTypeOK
    PROVE  /\ Mails \in 0 .. MaxMails
           /\ mail \in [1 .. Mails -> Fates] /\ DOMAIN mail = 1 .. Mails
  <1>1. PICK n \in 0 .. MaxMails : mail \in [1 .. n -> Fates]
    BY DEF EmailTypeOK
  <1>2. n \in Nat /\ 1 \in Int /\ n \in Int
    BY <1>1, MailBounds
  <1>3. Cardinality(1 .. n) = IF 1 > n THEN 0 ELSE n - 1 + 1
    BY <1>2, FS_Interval
  <1>4. Mails = n
    BY <1>1, <1>2, <1>3 DEF Mails
  <1> QED BY <1>1, <1>4

\* The types of the variables, one by one.
LEMMA EmailTypes ==
    ASSUME EmailTypeOK
    PROVE  /\ sender \in [Senders -> EmailSender] /\ 0 \in 0 .. MaxMails
           /\ invoice \in [status : {"AUTHORIZED", "VOIDED"}, mail : MailStates,
                           message : 0 .. MaxMails]
           /\ Mails \in Nat /\ Mails <= MaxMails
           /\ resent \subseteq {"forced", "voided", "unwritten", "overlap", "bounced", "handled"}
  <1>1. Mails \in 0 .. MaxMails
    BY MailsAre
  <1>2. 0 \in 0 .. MaxMails /\ Mails \in Nat /\ Mails <= MaxMails
    BY <1>1, MailBounds
  <1> QED BY <1>2 DEF EmailTypeOK, EmailSender

\* Nothing was sent yet.
LEMMA EmailBegins == EmailInit => EmailInv
  <1> SUFFICES ASSUME EmailInit PROVE EmailInv
    OBVIOUS
  <1>1. /\ mail = [n \in 1 .. 0 |-> "underway"] /\ mail \in [1 .. 0 -> Fates]
        /\ 0 \in 0 .. MaxMails
    BY MailBounds DEF EmailInit, Fates
  <1>2. EmailTypeOK
    BY <1>1, MailBounds DEF EmailInit, EmailTypeOK, NoSender, MailStates
  <1>3. Mails = 0
    BY <1>1, <1>2, MailsAre
  <1>4. SentOnce(invoice, sender, Mails)
    BY <1>3 DEF EmailInit, SentOnce, Busy, NoSender
  <1> QED BY <1>2, <1>4 DEF EmailInit, EmailInv, Truthful

\* A sender begins: alone, and only while nothing was sent, or the risk is on record.
LEMMA SenderBegins ==
    ASSUME EmailInv, NEW s \in Senders, sender[s].at = "idle", Sends(s),
           UNCHANGED <<invoice, settled, mail, mailFailures, reports, crossed>>,
           resent' \subseteq {"forced", "voided", "unwritten", "overlap", "bounced", "handled"},
           resent' = {} => resent = {} /\ Sending = {} /\ (Mails > 0 => ~AlreadyDelivered)
    PROVE  EmailInv'
  <1> DEFINE t == [NoSender EXCEPT !.at = "read", !.status = invoice.status]
  <1>1. t \in EmailSender /\ t.at = "read"
    <2>1. invoice.status \in {"AUTHORIZED", "VOIDED"} /\ 0 \in 0 .. MaxMails
      BY EmailTypes DEF EmailInv
    <2> QED BY <2>1 DEF EmailSender, NoSender
  <1>2. sender \in [Senders -> EmailSender] /\ Mails' = Mails /\ Mails \in Nat
    BY EmailTypes DEF EmailInv, Mails
  <1>3. sender' = [sender EXCEPT ![s] = t]
    BY DEF Sends
  <1> HIDE DEF t
  <1>4. /\ sender' \in [Senders -> EmailSender] /\ sender'[s] = t
        /\ \A u \in Senders \ {s} : sender'[u] = sender[u]
    BY <1>1, <1>2, <1>3
  <1>5. EmailTypeOK'
    BY <1>4 DEF EmailInv, EmailTypeOK, EmailSender
  <1>6. ASSUME resent' = {} PROVE SentOnce(invoice, sender', Mails)
    <2>1. \A u \in Senders : ~Busy(sender, u)
      BY <1>6 DEF Sending, Busy
    <2>2. SentOnce(invoice, sender, Mails) /\ (Mails > 0 => ~AlreadyDelivered)
      BY <1>6 DEF EmailInv
    <2>3. ~(Mails >= 1)
      BY <1>2, <2>1, <2>2 DEF SentOnce, Busy, AlreadyDelivered
    <2> QED BY <1>2, <1>4, <2>1, <2>2, <2>3 DEF SentOnce, Busy
  <1> QED BY <1>2, <1>5, <1>6 DEF EmailInv

\* The three ways to begin.
LEMMA BeginningsKeep ==
    ASSUME EmailInv,
           \/ \E s \in Handlings : Handles(s)
           \/ \E s \in Retries, force \in BOOLEAN : RetriesOne(s, force)
           \/ \E s \in Sweeps : RetriesFailed(s)
    PROVE  EmailInv'
  <1>0. /\ resent \subseteq {"forced", "voided", "unwritten", "overlap", "bounced", "handled"}
        /\ Mails \in Nat
    BY EmailTypes DEF EmailInv
  <1>1. ASSUME NEW s \in Handlings, Handles(s) PROVE EmailInv'
    <2>1. resent' = {} => resent = {} /\ Sending = {} /\ ~(Mails > 0)
      BY <1>1 DEF Handles, Risks
    <2>2. resent' \subseteq {"forced", "voided", "unwritten", "overlap", "bounced", "handled"}
      BY <1>0, <1>1 DEF Handles, Risks
    <2> QED BY <1>1, <2>1, <2>2, SenderBegins DEF Handles, Senders
  <1>2. ASSUME NEW s \in Retries, NEW force \in BOOLEAN, RetriesOne(s, force) PROVE EmailInv'
    <2>1. resent' = {} => resent = {} /\ Sending = {} /\ ~AlreadyDelivered
      BY <1>2 DEF RetriesOne
    <2>2. resent' \subseteq {"forced", "voided", "unwritten", "overlap", "bounced", "handled"}
      BY <1>0, <1>2 DEF RetriesOne
    <2> QED BY <1>2, <2>1, <2>2, SenderBegins DEF RetriesOne, Senders
  <1>3. ASSUME NEW s \in Sweeps, RetriesFailed(s) PROVE EmailInv'
    <2>1. resent' = {} => resent = {} /\ Sending = {} /\ ~AlreadyDelivered
      BY <1>3 DEF RetriesFailed, Risks, AlreadyDelivered
    <2>2. resent' \subseteq {"forced", "voided", "unwritten", "overlap", "bounced", "handled"}
      BY <1>0, <1>3 DEF RetriesFailed, Risks
    <2> QED BY <1>3, <2>1, <2>2, SenderBegins DEF RetriesFailed, Senders
  <1> QED BY <1>1, <1>2, <1>3

\* A sender that goes on, or is done, does not make the first message the second: it had
\* not sent it, or it writes that it has, or the risk is on record.
LEMMA SenderMoves ==
    ASSUME EmailInv, NEW s \in Senders, NEW t \in EmailSender, Busy(sender, s),
           sender' = [sender EXCEPT ![s] = t], UNCHANGED mail, t.at # "read",
           t.at = "sent" => sender[s].at = "sent",
           resent' = {} => resent = {},
           resent' = {} /\ sender[s].at = "sent" =>
               t.at = "done" /\ invoice'.mail \in {"SENT", "DELIVERED", "COMPLAINED"}
    PROVE  resent' = {} => SentOnce(invoice', sender', Mails')
  <1> SUFFICES ASSUME resent' = {} PROVE SentOnce(invoice', sender', Mails')
    OBVIOUS
  <1>1. sender \in [Senders -> EmailSender] /\ Mails' = Mails /\ Mails \in Nat
    BY EmailTypes DEF EmailInv, Mails
  <1>2. sender'[s] = t /\ \A u \in Senders \ {s} : sender'[u] = sender[u]
    BY <1>1
  <1>3. SentOnce(invoice, sender, Mails)
    BY DEF EmailInv
  <1>4. \A u \in Senders \ {s} : ~Busy(sender, u) /\ ~Busy(sender', u)
    BY <1>2, <1>3 DEF SentOnce, Busy
  <1>5. CASE sender[s].at = "sent"
    BY <1>1, <1>2, <1>3, <1>4, <1>5 DEF SentOnce, Busy
  <1>6. CASE sender[s].at # "sent"
    <2>1. ~(Mails >= 1)
      BY <1>3, <1>4, <1>6 DEF SentOnce, Busy
    <2> QED BY <1>1, <1>3, <1>4, <2>1 DEF SentOnce
  <1> QED BY <1>5, <1>6

\* An e-mail status that no event wrote says nothing of a message's fate.
LEMMA StatusWritten ==
    ASSUME EmailInv, UNCHANGED <<mail, reports>>,
           (crossed' = crossed /\ invoice'.message = invoice.message) \/ Crosses,
           invoice' = invoice \/ invoice'.mail \in {"PENDING", "SENT", "FAILED", "SKIPPED"}
    PROVE  Truthful(invoice', mail', reports', crossed')
  BY DEF EmailInv, Truthful, Crosses

\* The row as a sender writes it.
Invoice == [status : {"AUTHORIZED", "VOIDED"}, mail : MailStates, message : 0 .. MaxMails]

\* Every step of a sender but the sending itself.
LEMMA SenderKeeps ==
    ASSUME EmailInv, NEW s \in Senders,
           \/ IsSkipped(s) \/ IsRefused(s) \/ WritesSent(s) \/ IsOverruled(s)
           \/ WritesFailed(s) \/ SenderFails(s)
    PROVE  EmailInv'
  <1>0. /\ sender \in [Senders -> EmailSender] /\ invoice \in Invoice
        /\ sender[s] \in EmailSender /\ EmailTypeOK
        /\ resent \subseteq {"forced", "voided", "unwritten", "overlap", "bounced", "handled"}
    BY EmailTypes DEF EmailInv, Invoice
  <1>1. ASSUME NEW p \in {"off", "refused", "done"}, Moves(s, p), Busy(sender, s),
               invoice' \in Invoice, mailFailures' \in Nat, settled' \in BOOLEAN,
               UNCHANGED <<mail, reports>>,
               (crossed' = crossed /\ invoice'.message = invoice.message) \/ Crosses,
               invoice' = invoice \/ invoice'.mail \in {"PENDING", "SENT", "FAILED", "SKIPPED"},
               resent' \in {resent, resent \cup {"voided"}, resent \cup {"unwritten"}},
               resent' = {} /\ sender[s].at = "sent" => p = "done" /\ invoice'.mail = "SENT"
        PROVE  EmailInv'
    <2> DEFINE t == [sender[s] EXCEPT !.at = p]
    <2>1. t \in EmailSender /\ t.at = p
      BY <1>0, <1>1 DEF EmailSender
    <2>2. sender' = [sender EXCEPT ![s] = t]
      BY <1>0, <1>1 DEF Moves
    <2> HIDE DEF t
    <2>3. sender' \in [Senders -> EmailSender]
      BY <1>0, <2>1, <2>2
    <2>4. resent' \subseteq {"forced", "voided", "unwritten", "overlap", "bounced", "handled"}
      BY <1>0, <1>1
    <2>5. EmailTypeOK'
      <3>1. crossed' \in BOOLEAN /\ reports' \subseteq Reports
        BY <1>0, <1>1 DEF EmailTypeOK, Crosses
      <3> QED BY <1>0, <1>1, <2>3, <2>4, <3>1 DEF EmailTypeOK, EmailSender, Invoice
    <2>6. resent' = {} => SentOnce(invoice', sender', Mails')
      BY <1>1, <2>1, <2>2, SenderMoves
    <2>7. Truthful(invoice', mail', reports', crossed')
      BY <1>1, StatusWritten
    <2> QED BY <2>5, <2>6, <2>7 DEF EmailInv
  <1>2. /\ mailFailures \in Nat /\ settled \in BOOLEAN
        /\ MailFailure => mailFailures' \in Nat
    BY <1>0 DEF EmailTypeOK, MailFailure
  <1>3. CASE IsSkipped(s)
    <2>1. /\ Moves(s, "off") /\ sender[s].at = "read" /\ Busy(sender, s)
          /\ UNCHANGED <<invoice, settled, mail, mailFailures, resent, reports, crossed>>
      BY <1>3 DEF IsSkipped, Busy
    <2> QED BY <1>0, <1>1, <1>2, <2>1
  <1>4. CASE IsRefused(s)
    <2>1. /\ Moves(s, "refused") /\ sender[s].at = "read" /\ Busy(sender, s)
          /\ MailFailure /\ UNCHANGED <<invoice, settled, mail, resent, reports, crossed>>
      BY <1>4 DEF IsRefused, Busy
    <2> QED BY <1>0, <1>1, <1>2, <2>1
  <1>5. CASE WritesSent(s)
    <2>1. /\ Moves(s, "done") /\ sender[s].at \in {"sent", "off"} /\ Busy(sender, s)
          /\ settled' \in BOOLEAN /\ UNCHANGED <<mail, mailFailures, resent, reports>> /\ Crosses
      BY <1>2, <1>5 DEF WritesSent, Busy
    <2>2. /\ invoice' \in Invoice /\ invoice'.mail \in {"SENT", "SKIPPED"}
          /\ sender[s].at = "sent" => invoice'.mail = "SENT"
      <3>1. CASE sender[s].at = "sent"
        <4>1. invoice' = [status |-> sender[s].status, mail |-> "SENT",
                          message |-> sender[s].message]
          BY <1>5, <3>1 DEF WritesSent
        <4> QED BY <1>0, <4>1 DEF Invoice, EmailSender, MailStates
      <3>2. CASE sender[s].at # "sent"
        <4>1. invoice' = [invoice EXCEPT !.status = sender[s].status, !.mail = "SKIPPED"]
          BY <1>5, <3>2 DEF WritesSent
        <4> QED BY <1>0, <3>2, <4>1 DEF Invoice, EmailSender, MailStates
      <3> QED BY <3>1, <3>2
    <2> QED BY <1>0, <1>1, <1>2, <2>1, <2>2
  <1>6. CASE IsOverruled(s)
    <2>1. /\ Moves(s, "done") /\ Busy(sender, s)
          /\ UNCHANGED <<invoice, settled, mail, mailFailures, reports, crossed>>
          /\ resent' \in {resent, resent \cup {"voided"}}
          /\ sender[s].at = "sent" => resent' # {}
      BY <1>6 DEF IsOverruled, Busy
    <2> QED BY <1>0, <1>1, <1>2, <2>1
  <1>7. CASE WritesFailed(s)
    <2>1. /\ Moves(s, "done") /\ Busy(sender, s) /\ sender[s].at = "refused"
          /\ UNCHANGED <<settled, mail, mailFailures, resent, reports, crossed>>
          /\ invoice' = [invoice EXCEPT !.status = sender[s].status, !.mail = "FAILED"]
      BY <1>7 DEF WritesFailed, Busy
    <2>2. invoice' \in Invoice /\ invoice'.mail = "FAILED" /\ invoice'.message = invoice.message
      BY <1>0, <2>1 DEF Invoice, EmailSender, MailStates
    <2> QED BY <1>0, <1>1, <1>2, <2>1, <2>2
  <1>8. CASE SenderFails(s)
    <2>1. /\ Moves(s, "done") /\ Busy(sender, s) /\ MailFailure
          /\ UNCHANGED <<settled, mail, reports>> /\ Crosses
          /\ resent' \in {resent, resent \cup {"unwritten"}}
          /\ sender[s].at = "sent" => resent' # {}
      BY <1>8 DEF SenderFails, Busy
    <2>2. CASE UNCHANGED invoice
      BY <1>0, <1>1, <1>2, <2>1, <2>2
    <2>3. CASE ~UNCHANGED invoice
      <3>1. PICK written \in {"SENT", "FAILED"}, id \in {invoice.message, sender[s].message} :
               invoice' = [status |-> sender[s].status, mail |-> written, message |-> id]
        BY <1>8, <2>3 DEF SenderFails
      <3>2. invoice' \in Invoice /\ invoice'.mail \in {"SENT", "FAILED"}
        BY <1>0, <3>1 DEF Invoice, EmailSender, MailStates
      <3> QED BY <1>0, <1>1, <1>2, <2>1, <3>2
    <2> QED BY <2>2, <2>3
  <1> QED BY <1>3, <1>4, <1>5, <1>6, <1>7, <1>8

\* The sending: the first message, unless something that may send twice happened.
LEMMA MailedKeeps ==
    ASSUME EmailInv, NEW s \in Senders, IsMailed(s)
    PROVE  EmailInv'
  <1> DEFINE n == Mails + 1
             t == [sender[s] EXCEPT !.at = "sent", !.message = n]
  <1>0. /\ sender \in [Senders -> EmailSender] /\ sender[s] \in EmailSender /\ EmailTypeOK
        /\ Mails \in Nat /\ n \in 1 .. MaxMails /\ n \in 0 .. MaxMails
        /\ mail \in [1 .. Mails -> Fates]
        /\ sender[s].at = "read"
    <2>1. /\ sender \in [Senders -> EmailSender] /\ EmailTypeOK /\ Mails \in Nat
          /\ mail \in [1 .. Mails -> Fates]
      BY EmailTypes, MailsAre DEF EmailInv
    <2>2. sender[s].at = "read" /\ Mails < MaxMails
      BY DEF IsMailed
    <2>3. n \in 1 .. MaxMails /\ n \in 0 .. MaxMails
      BY <2>1, <2>2, MailBounds
    <2> QED BY <2>1, <2>2, <2>3
  <1>1. /\ mail' = [m \in 1 .. n |-> IF m <= Mails THEN mail[m] ELSE "underway"]
        /\ sender' = [sender EXCEPT ![s] = t]
        /\ UNCHANGED <<invoice, settled, mailFailures, resent, reports, crossed>>
    BY <1>0 DEF IsMailed
  <1>2. t \in EmailSender /\ t.at = "sent"
    <2> HIDE DEF n
    <2> QED BY <1>0 DEF EmailSender
  <1>n. /\ n \in Nat /\ n \in Int /\ n >= 1 /\ ~(1 > n) /\ n - 1 + 1 = n
        /\ Mails >= 1 => n > 1
    BY <1>0
  <1> HIDE DEF t
  <1>3. mail' \in [1 .. n -> Fates] /\ \A m \in 1 .. Mails : mail'[m] = mail[m]
    <2>1. ASSUME NEW m \in 1 .. n
          PROVE  (IF m <= Mails THEN mail[m] ELSE "underway") \in Fates
      <3>1. CASE m <= Mails
        <4>1. m \in 1 .. Mails
          BY <1>0, <3>1
        <4> QED BY <1>0, <3>1, <4>1
      <3>2. CASE ~(m <= Mails)
        BY <3>2 DEF Fates
      <3> QED BY <3>1, <3>2
    <2>2. \A m \in 1 .. Mails : m \in 1 .. n /\ m <= Mails
      BY <1>0 DEF n
    <2> HIDE DEF n
    <2> QED BY <1>1, <2>1, <2>2
  <1>4. /\ sender' \in [Senders -> EmailSender] /\ sender'[s] = t
        /\ \A u \in Senders \ {s} : sender'[u] = sender[u]
    BY <1>0, <1>1, <1>2
  <1>5. EmailTypeOK'
    BY <1>0, <1>1, <1>3, <1>4 DEF EmailTypeOK, EmailSender
  <1>6. Mails' = n
    <2>1. DOMAIN mail' = 1 .. n
      BY <1>3
    <2>2. Cardinality(1 .. n) = n
      <3> HIDE DEF n
      <3>1. Cardinality(1 .. n) = IF 1 > n THEN 0 ELSE n - 1 + 1
        BY <1>n, FS_Interval
      <3> QED BY <1>n, <3>1
    <2> QED BY <2>1, <2>2 DEF Mails
  <1>7. ASSUME resent' = {} PROVE SentOnce(invoice', sender', Mails')
    <2>1. SentOnce(invoice, sender, Mails)
      BY <1>1, <1>7 DEF EmailInv
    <2>2. \A u \in Senders \ {s} : ~Busy(sender, u) /\ ~Busy(sender', u)
      BY <1>0, <1>4, <2>1 DEF SentOnce, Busy
    <2>3. ~(Mails >= 1)
      BY <1>0, <2>1, <2>2 DEF SentOnce, Busy
    <2>4. Mails' <= 1
      BY <1>0, <1>6, <2>3
    <2> QED BY <1>2, <1>4, <2>2, <2>4 DEF SentOnce
  <1>8. Truthful(invoice', mail', reports', crossed')
    <2>1. DOMAIN mail = 1 .. Mails /\ DOMAIN mail' = 1 .. n /\ 1 .. Mails \subseteq 1 .. n
      BY <1>0, <1>3
    <2> QED BY <1>1, <1>3, <2>1 DEF EmailInv, Truthful
  <1> QED BY <1>5, <1>7, <1>8 DEF EmailInv

\* Mailgun's part, and a void: nobody sends.
LEMMA EventsKeep ==
    ASSUME EmailInv,
           \/ IsVoided
           \/ \E n \in DOMAIN mail : HasFate(n) \/ HearsOf(n)
           \/ \E report \in reports : WritesReport(report)
    PROVE  EmailInv'
  <1>0. /\ EmailTypeOK /\ invoice \in Invoice /\ Mails \in 0 .. MaxMails
        /\ mail \in [1 .. Mails -> Fates] /\ DOMAIN mail = 1 .. Mails
        /\ resent \subseteq {"forced", "voided", "unwritten", "overlap", "bounced", "handled"}
        /\ reports \subseteq Reports /\ crossed \in BOOLEAN
    BY EmailTypes, MailsAre DEF EmailInv, Invoice, EmailTypeOK
  <1>1. CASE IsVoided
    <2>1. /\ invoice' = [invoice EXCEPT !.status = "VOIDED"]
          /\ UNCHANGED <<sender, settled, mail, mailFailures, resent, reports, crossed>>
          /\ Mails' = Mails
      BY <1>1 DEF IsVoided, Mails
    <2>2. /\ invoice' \in Invoice /\ invoice'.mail = invoice.mail
          /\ invoice'.message = invoice.message
      BY <1>0, <2>1 DEF Invoice
    <2>3. EmailTypeOK'
      BY <1>0, <2>1, <2>2 DEF EmailTypeOK, Invoice
    <2> QED BY <2>1, <2>2, <2>3 DEF EmailInv, SentOnce, Truthful, Busy
  <1>2. ASSUME NEW n \in DOMAIN mail, HasFate(n) PROVE EmailInv'
    <2>1. PICK fate \in Fates :
             /\ \/ mail[n] = "underway" /\ fate \in {"delivered", "bounced"}
                \/ mail[n] = "delivered" /\ fate = "complained"
             /\ mail' = [mail EXCEPT ![n] = fate]
      BY <1>2 DEF HasFate
    <2>2. UNCHANGED <<invoice, sender, settled, mailFailures, resent, reports, crossed>>
      BY <1>2 DEF HasFate
    <2>3. mail' \in [1 .. Mails -> Fates] /\ DOMAIN mail' = DOMAIN mail
      BY <1>0, <2>1
    <2>4. Mails' = Mails
      BY <2>3 DEF Mails
    <2>5. EmailTypeOK'
      BY <1>0, <2>2, <2>3 DEF EmailTypeOK
    <2>6. Truthful(invoice', mail', reports', crossed')
      <3>1. \A m \in DOMAIN mail : mail'[m] = mail[m] \/ (m = n /\ mail'[m] = fate)
        BY <1>0, <2>1
      <3>2. ASSUME NEW status, NEW m \in DOMAIN mail, Tells(status, mail[m])
            PROVE  Tells(status, mail'[m])
        BY <2>1, <3>1, <3>2 DEF Tells
      <3> QED BY <2>2, <2>3, <3>2 DEF EmailInv, Truthful
    <2> QED BY <2>2, <2>4, <2>5, <2>6 DEF EmailInv, SentOnce, Busy
  <1>3. ASSUME NEW n \in DOMAIN mail, HearsOf(n) PROVE EmailInv'
    <2>1. PICK status \in Events(n) : reports' = reports \cup {<<n, status>>}
      BY <1>3 DEF HearsOf
    <2>2. /\ invoice.message = n
          /\ UNCHANGED <<invoice, sender, settled, mail, mailFailures, resent, crossed>>
          /\ Mails' = Mails
      BY <1>3 DEF HearsOf, Mails
    <2>3. status \in {"DELIVERED", "FAILED", "COMPLAINED"} /\ Tells(status, mail[n])
      <3>1. CASE mail[n] = "delivered"
        BY <2>1, <3>1 DEF Events, Tells
      <3>2. CASE mail[n] = "bounced"
        BY <2>1, <3>2 DEF Events, Tells
      <3>3. CASE mail[n] = "complained"
        BY <2>1, <3>3 DEF Events, Tells
      <3>4. CASE mail[n] = "underway"
        BY <2>1, <3>4 DEF Events, Tells
      <3> QED BY <1>0, <3>1, <3>2, <3>3, <3>4 DEF Fates
    <2>4. n \in 1 .. MaxMails
      BY <1>0, MailBounds
    <2>5. EmailTypeOK'
      BY <1>0, <2>1, <2>2, <2>3, <2>4 DEF EmailTypeOK, Reports
    <2>6. Truthful(invoice', mail', reports', crossed')
      BY <2>1, <2>2, <2>3 DEF EmailInv, Truthful
    <2> QED BY <2>2, <2>5, <2>6 DEF EmailInv, SentOnce, Busy
  <1>4. ASSUME NEW report \in reports, WritesReport(report) PROVE EmailInv'
    <2>1. /\ invoice' = [invoice EXCEPT !.mail = report[2]] /\ reports' = reports \ {report}
          /\ resent' = IF report[2] = "FAILED" THEN resent \cup {"bounced"} ELSE resent
          /\ UNCHANGED <<sender, settled, mail, mailFailures, crossed>> /\ Mails' = Mails
      BY <1>4 DEF WritesReport, Mails
    <2>2. report[2] \in {"DELIVERED", "FAILED", "COMPLAINED"}
      BY <1>0, <1>4 DEF Reports
    <2>3. /\ invoice' \in Invoice /\ invoice'.mail = report[2]
          /\ invoice'.message = invoice.message
      BY <1>0, <2>1, <2>2 DEF Invoice, MailStates
    <2>4. EmailTypeOK'
      BY <1>0, <2>1, <2>3 DEF EmailTypeOK, Invoice
    <2>5. Truthful(invoice', mail', reports', crossed')
      BY <1>4, <2>1, <2>3 DEF EmailInv, Truthful
    <2>6. ASSUME resent' = {} PROVE SentOnce(invoice', sender', Mails')
      <3>1. resent = {} /\ report[2] \in {"DELIVERED", "COMPLAINED"}
        BY <2>1, <2>2, <2>6
      <3>2. SentOnce(invoice, sender, Mails)
        BY <3>1 DEF EmailInv
      <3> QED BY <2>1, <2>3, <3>1, <3>2 DEF SentOnce, Busy
    <2> QED BY <2>4, <2>5, <2>6 DEF EmailInv
  <1> QED BY <1>1, <1>2, <1>3, <1>4

\* Every step keeps the e-mail's invariant.
LEMMA EmailKeeps == EmailInv /\ [EmailNext]_emailVars => EmailInv'
  <1>1. EmailInv /\ UNCHANGED emailVars => EmailInv'
    BY DEF EmailInv, EmailTypeOK, SentOnce, Truthful, Busy, Mails, emailVars
  <1> QED BY <1>1, BeginningsKeep, SenderKeeps, MailedKeeps, EventsKeep
          DEF EmailNext, SenderStep

\* The inductive invariant holds.
LEMMA EmailHolds == EmailSpec => []EmailInv
  BY EmailBegins, EmailKeeps, PTL DEF EmailSpec

\* The buyer is sent a document twice only if the tenant forced it, the first message
\* bounced, a void or a failure kept SENT from being written, two senders overlapped, or
\* the effect was handled after another sender; however many senders there are.
THEOREM DocumentMailedOnce == EmailSpec => []MailedOnce
<1>1. EmailInv => MailedOnce
  BY DEF EmailInv, SentOnce, MailedOnce
<1> QED BY <1>1, EmailHolds, PTL

\* DELIVERED and COMPLAINED are true of the message the document names, however late, and
\* in whatever order, the events of this and of earlier messages arrive, unless another
\* message is recorded between an event's look-up of the document and its write.
THEOREM StatusIsTrueOfMessage == EmailSpec => []StatusIsOfMessage
<1>1. EmailInv => StatusIsOfMessage
  BY DEF EmailInv, Truthful, Tells, StatusIsOfMessage
<1> QED BY <1>1, EmailHolds, PTL

-----------------------------------------------------------------------------
(* The deliveries to the webhook endpoints.                                *)

\* A handler has one row in hand when it posts or marks; it created that row, which is
\* PENDING, and has no row yet for the endpoints it still has.
HandlerOK(fo, dl) ==
    \A f \in Fanouts :
        /\ fo[f].at \notin {"posting", "marking"} => fo[f].hook = {}
        /\ fo[f].at \in {"posting", "marking"} =>
              \E w \in Hooks : fo[f].hook = {w} /\ dl[<<f, w>>].status = "PENDING"
        /\ fo[f].at \in {"walking", "posting", "marking"} =>
              \A w \in fo[f].todo : dl[<<f, w>>].status = "ABSENT"

\* A job has rows in hand that were sent before, and one at most whose outcome is due.
JobOK(rt, dl) ==
    \A j \in RetryJobs :
        /\ rt[j].at = "idle" => rt[j].todo = {}
        /\ rt[j].at # "marking" => rt[j].row = {}
        /\ \A r \in rt[j].row : rt[j].row = {r}
        /\ \A r \in rt[j].todo \cup rt[j].row : dl[r].status \notin {"ABSENT", "PENDING"}

\* Unless two handlers passed the guard for an endpoint at once, one of them is past it
\* at a time, and then there is no row for the endpoint; and there is one row at most.
GuardOK(fo, dl, tog) ==
    \A w \in Hooks \ tog : \A f, g \in Fanouts :
        LET Walks(h) == fo[h].at \in {"walking", "posting", "marking"} /\ w \in fo[h].todo
        IN  /\ Walks(f) /\ Walks(g) => f = g
            /\ Walks(f) => dl[<<g, w>>].status = "ABSENT"
            /\ dl[<<f, w>>].status # "ABSENT" /\ dl[<<g, w>>].status # "ABSENT" => f = g

\* A row nobody sends, and the requests for it.
Settled(r, dl, rt, snd) ==
    /\ dl[r].status = "RETRYING" => dl[r].count <= RetryDelays
    /\ dl[r].status # "RETRYING" =>
          /\ dl[r].count <= RetryDelays + 1
          /\ \A j \in RetryJobs : r \notin rt[j].todo \cup rt[j].row
    /\ \A j \in RetryJobs : r \in rt[j].todo \cup rt[j].row => rt[j].was[r] = dl[r].count
    /\ \A j, k \in RetryJobs :
          r \in rt[j].todo \cup rt[j].row /\ r \in rt[k].todo \cup rt[k].row => j = k
    /\ (\A j \in RetryJobs : r \notin rt[j].row) => snd[r] = dl[r].count
    /\ (\E j \in RetryJobs : r \in rt[j].row) => snd[r] = dl[r].count + 1

\* What a row counts, unless two jobs had it at once or an outcome was not written.
RowOK(r, dl, fo, rt, snd) ==
    /\ dl[r].status = "ABSENT" => dl[r].count = 0 /\ snd[r] = 0
    /\ dl[r].status = "PENDING" =>
          dl[r].count = 0 /\ snd[r] = IF fo[r[1]].at = "posting" THEN 0 ELSE 1
    /\ dl[r].status \notin {"ABSENT", "PENDING"} => Settled(r, dl, rt, snd)

Row == [status : {"ABSENT", "PENDING", "RETRYING", "SUCCESS", "FAILED"}, count : Nat]

\* A row once marked.
LEMMA MarkedRow ==
    ASSUME NEW row \in Row, NEW ok \in BOOLEAN, NEW was \in Nat
    PROVE  /\ Marked(row, ok, was) \in Row
           /\ Marked(row, ok, was).status \notin {"ABSENT", "PENDING"}
           /\ Marked(row, ok, was).count = IF ok THEN row.count + 1 ELSE was + 1
           /\ Marked(row, ok, was).status = "RETRYING" => ~ok /\ was < RetryDelays
  BY HookBounds DEF Marked, Row

\* The types of the variables, one by one.
LEMMA HookTypes ==
    ASSUME WebhooksTypeOK
    PROVE  /\ active \subseteq Hooks /\ fanout \in [Fanouts -> FanoutTask]
           /\ delivery \in [Rows -> Row] /\ retry \in [RetryJobs -> RetryTask]
           /\ sends \in [Rows -> Nat]
  BY DEF WebhooksTypeOK, Row

\* An effect's handler moves, and no other, and no job.
HandlerMoves(f, task) ==
    /\ task \in FanoutTask /\ fanout' = [fanout EXCEPT ![f] = task]
    /\ UNCHANGED <<active, retry, shared>>

\* A step of a handler: what it does to its task.
LEMMA HandlerIsMoved ==
    ASSUME WebhooksTypeOK, NEW f \in Fanouts, FanoutStep(f)
    PROVE  HandlerMoves(f, fanout'[f])
  <1>1. fanout \in [Fanouts -> FanoutTask] /\ active \subseteq Hooks /\ fanout[f] \in FanoutTask
    BY HookTypes
  <1> USE <1>1 DEF HandlerMoves, hookHistory, FanoutTask
  <1>2. CASE Announces(f)
    BY <1>2 DEF Announces
  <1>3. CASE ListsEndpoints(f)
    BY <1>3 DEF ListsEndpoints
  <1>4. CASE SkipsDelivered(f)
    BY <1>4 DEF SkipsDelivered, Meets
  <1>5. CASE Posts(f)
    BY <1>5 DEF Posts
  <1>6. CASE Marks(f)
    BY <1>6 DEF Marks, WalksOn
  <1>7. CASE MarkFails(f)
    BY <1>7 DEF MarkFails, WalksOn
  <1>8. CASE Completes(f)
    BY <1>8 DEF Completes
  <1>9. CASE HandlerFails(f)
    BY <1>9 DEF HandlerFails, NoFanout
  <1>10. ASSUME NEW w \in Hooks, CreatesDelivery(f, w) PROVE HandlerMoves(f, fanout'[f])
    BY <1>10 DEF CreatesDelivery
  <1>11. ASSUME NEW w \in Hooks, CreateFails(f, w) PROVE HandlerMoves(f, fanout'[f])
    BY <1>11 DEF CreateFails
  <1> QED BY <1>2, <1>3, <1>4, <1>5, <1>6, <1>7, <1>8, <1>9, <1>10, <1>11 DEF FanoutStep

\* A retry job moves, and no other, and no handler.
JobMoves(j, task) ==
    /\ task \in RetryTask /\ retry' = [retry EXCEPT ![j] = task]
    /\ UNCHANGED <<active, fanout, together>>

\* The task of a job that has sent for a row, and of one that is through with it.
LEMMA JobGoesOn ==
    ASSUME NEW old \in RetryTask, NEW r \in Rows
    PROVE  /\ [old EXCEPT !.at = "marking", !.row = {r}, !.todo = @ \ {r}] \in RetryTask
           /\ [old EXCEPT !.at = "walking", !.row = {}, !.todo = @ \ {r}, !.was[r] = 0]
                 \in RetryTask
  BY DEF RetryTask

\* A step of a job: what it does to its task.
LEMMA JobIsMoved ==
    ASSUME WebhooksTypeOK, NEW j \in RetryJobs, RetryStep(j)
    PROVE  JobMoves(j, retry'[j])
  <1>1. /\ retry \in [RetryJobs -> RetryTask] /\ retry[j] \in RetryTask
        /\ delivery \in [Rows -> Row]
    BY HookTypes
  <1>0. NoRetry \in RetryTask
    BY DEF NoRetry, RetryTask
  <1> USE <1>0, <1>1 DEF JobMoves, RetryTask
  <1>2. CASE FindsDue(j)
    <2>1. PICK due \in SUBSET Due :
             retry' = [retry EXCEPT ![j] =
                         [NoRetry EXCEPT !.at = "walking", !.todo = due,
                            !.was = [r \in Rows |-> IF r \in due THEN delivery[r].count ELSE 0]]]
      BY <1>2 DEF FindsDue
    <2>2. due \subseteq Rows /\ \A r \in Rows : delivery[r].count \in Nat
      BY <2>1 DEF Due, Row
    <2>3. [r \in Rows |-> IF r \in due THEN delivery[r].count ELSE 0] \in [Rows -> Nat]
      BY <2>2
    <2> QED BY <1>2, <2>1, <2>2, <2>3 DEF FindsDue
  <1>3. CASE JobEnds(j)
    BY <1>3 DEF JobEnds
  <1>4. ASSUME NEW r \in Rows, Resends(j, r) PROVE JobMoves(j, retry'[j])
    <2> DEFINE t == [retry[j] EXCEPT !.at = "marking", !.row = {r}, !.todo = @ \ {r}]
    <2>1. retry' = [retry EXCEPT ![j] = t]
      BY <1>4 DEF Resends
    <2>2. t \in RetryTask
      BY JobGoesOn
    <2> HIDE DEF t
    <2> QED BY <1>4, <2>1, <2>2 DEF Resends
  <1>0a. ASSUME NEW r \in Rows, GoesOn(j, r)
         PROVE  retry' = [retry EXCEPT ![j] = retry'[j]] /\ retry'[j] \in RetryTask
    <2> DEFINE t == [retry[j] EXCEPT !.at = "walking", !.row = {}, !.todo = @ \ {r}, !.was[r] = 0]
    <2>1. retry' = [retry EXCEPT ![j] = t]
      BY <1>0a DEF GoesOn
    <2>2. t \in RetryTask
      BY JobGoesOn
    <2> HIDE DEF t
    <2> QED BY <2>1, <2>2
  <1>5. ASSUME NEW r \in Rows, MarksRetry(j, r) PROVE JobMoves(j, retry'[j])
    BY <1>0a, <1>5 DEF MarksRetry, hookHistory
  <1>6. ASSUME NEW r \in Rows, RetrySkips(j, r) PROVE JobMoves(j, retry'[j])
    BY <1>0a, <1>6 DEF RetrySkips
  <1> QED BY <1>2, <1>3, <1>4, <1>5, <1>6 DEF RetryStep

\* A row is that of an effect and an endpoint.
LEMMA RowIsPair ==
    /\ \A r \in Rows : r[1] \in Fanouts /\ r[2] \in Hooks /\ r = <<r[1], r[2]>>
    /\ \A f \in Fanouts, w \in Hooks : <<f, w>> \in Rows /\ <<f, w>>[1] = f /\ <<f, w>>[2] = w
  BY DEF Rows

\* Rows that are settled with their handler are not the handler's any more.
Begun(row) == row.status \in {"ABSENT", "PENDING"}

\* The rows a handler's step leaves as they are: another's, and those already marked.
LEMMA HandlerRows ==
    ASSUME WebhooksTypeOK, HandlerOK(fanout, delivery), NEW f \in Fanouts, FanoutStep(f)
    PROVE  /\ delivery' \in [Rows -> Row] /\ sends' \in [Rows -> Nat]
           /\ untold \subseteq untold' /\ untold' \subseteq Rows
           /\ together \subseteq together' /\ together' \subseteq Hooks
           /\ hookFailures' \in Nat
           /\ \A r \in Rows : r[1] # f \/ ~Begun(delivery[r]) =>
                 delivery'[r] = delivery[r] /\ sends'[r] = sends[r]
  <1> DEFINE Kept == \A r \in Rows : r[1] # f \/ ~Begun(delivery[r]) =>
                        delivery'[r] = delivery[r] /\ sends'[r] = sends[r]
             Typed == /\ delivery' \in [Rows -> Row] /\ sends' \in [Rows -> Nat]
                      /\ untold \subseteq untold' /\ untold' \subseteq Rows
                      /\ together \subseteq together' /\ together' \subseteq Hooks
                      /\ hookFailures' \in Nat
  <1>0. /\ fanout \in [Fanouts -> FanoutTask] /\ fanout[f] \in FanoutTask
        /\ delivery \in [Rows -> Row] /\ sends \in [Rows -> Nat]
        /\ untold \subseteq Rows /\ together \subseteq Hooks /\ hookFailures \in Nat
    BY HookTypes DEF WebhooksTypeOK
  <1>1. fanout[f].todo \subseteq Hooks /\ fanout[f].hook \subseteq Hooks
    BY <1>0 DEF FanoutTask
  <1>2. CASE Announces(f) \/ ListsEndpoints(f) \/ Completes(f)
    BY <1>0, <1>2 DEF Announces, ListsEndpoints, Completes, hookHistory
  <1>3. CASE SkipsDelivered(f)
    BY <1>0, <1>1, <1>3 DEF SkipsDelivered, Meets
  <1>4. CASE Posts(f)
    <2>1. fanout[f].at = "posting" /\ UNCHANGED <<delivery, hookFailures, untold, together>>
      BY <1>4 DEF Posts
    <2>0. PICK w \in Hooks : fanout[f].hook = {w} /\ Begun(delivery[<<f, w>>])
      BY <2>1 DEF HandlerOK, Begun
    <2>2. Sent(<<f, w>>) /\ <<f, w>> \in Rows
      BY <1>4, <2>0, RowIsPair DEF Posts
    <2>3. Begun(delivery[<<f, w>>])
      BY <2>0
    <2>4. /\ sends' \in [Rows -> Nat]
          /\ \A r \in Rows \ {<<f, w>>} : sends'[r] = sends[r]
      BY <1>0, <2>2 DEF Sent
    <2>5. Kept
      BY <2>1, <2>3, <2>4
    <2> QED BY <1>0, <2>1, <2>4, <2>5
  <1>5. CASE Marks(f)
    <2>1. /\ fanout[f].at = "marking"
          /\ UNCHANGED <<hookFailures, sends, untold, together>>
      BY <1>5 DEF Marks, hookHistory
    <2>2. PICK w \in Hooks : fanout[f].hook = {w} /\ Begun(delivery[<<f, w>>])
      BY <2>1 DEF HandlerOK, Begun
    <2>3. PICK ok \in BOOLEAN :
             delivery' = [r \in Rows |-> IF r = <<f, w>> THEN Marked(delivery[r], ok, 0)
                                         ELSE delivery[r]]
      <3>1. PICK ok \in BOOLEAN :
               delivery' = [r \in Rows |-> IF r \in {f} \X {w} THEN Marked(delivery[r], ok, 0)
                                           ELSE delivery[r]]
        BY <1>5, <2>2 DEF Marks
      <3>2. \A r : r \in {f} \X {w} <=> r = <<f, w>>
        OBVIOUS
      <3> QED BY <3>1, <3>2
    <2>4. \A r \in Rows : Marked(delivery[r], ok, 0) \in Row
      BY <1>0, MarkedRow
    <2>5. delivery' \in [Rows -> Row]
      BY <1>0, <2>3, <2>4
    <2>6. Kept
      <3>1. ASSUME NEW r \in Rows, r[1] # f \/ ~Begun(delivery[r]) PROVE r # <<f, w>>
        BY <2>2, <3>1, RowIsPair
      <3> QED BY <2>1, <2>3, <3>1
    <2> QED BY <1>0, <2>1, <2>5, <2>6
  <1>6. CASE MarkFails(f) \/ HandlerFails(f)
    <2>1. {f} \X fanout[f].hook \subseteq Rows
      BY <1>1 DEF Rows
    <2>2. /\ UNCHANGED <<delivery, sends, together>>
          /\ hookFailures' = hookFailures + 1
          /\ untold' = untold \cup ({f} \X fanout[f].hook)
      BY <1>6 DEF MarkFails, HandlerFails, HookFailure
    <2> QED BY <1>0, <2>1, <2>2
  <1>7. ASSUME NEW w \in Hooks, CreatesDelivery(f, w) PROVE Typed /\ Kept
    <2>1. /\ fanout[f].at = "walking" /\ w \in fanout[f].todo /\ <<f, w>> \in Rows
          /\ delivery' = [delivery EXCEPT ![<<f, w>>] = [status |-> "PENDING", count |-> 0]]
          /\ UNCHANGED <<hookFailures, sends, untold, together>>
      BY <1>7, RowIsPair DEF CreatesDelivery, hookHistory
    <2>2. Begun(delivery[<<f, w>>])
      BY <2>1 DEF HandlerOK, Begun
    <2>3. [status |-> "PENDING", count |-> 0] \in Row
      BY DEF Row
    <2>4. delivery' \in [Rows -> Row]
      BY <1>0, <2>1, <2>3
    <2>5. Kept
      <3>1. ASSUME NEW r \in Rows, r[1] # f \/ ~Begun(delivery[r]) PROVE r # <<f, w>>
        BY <2>2, <3>1, RowIsPair
      <3> QED BY <1>0, <2>1, <3>1
    <2> QED BY <1>0, <2>1, <2>4, <2>5
  <1>8. ASSUME NEW w \in Hooks, CreateFails(f, w) PROVE Typed /\ Kept
    BY <1>0, <1>8 DEF CreateFails, hookHistory, HookFailure
  <1> QED BY <1>2, <1>3, <1>4, <1>5, <1>6, <1>7, <1>8 DEF FanoutStep

\* A job's step marks one row at most, that it has in hand and that was sent before.
LEMMA JobRows ==
    ASSUME WebhooksTypeOK, JobOK(retry, delivery), NEW j \in RetryJobs, RetryStep(j)
    PROVE  /\ delivery' \in [Rows -> Row] /\ sends' \in [Rows -> Nat]
           /\ untold \subseteq untold' /\ untold' \subseteq Rows
           /\ shared \subseteq shared' /\ shared' \subseteq Rows
           /\ hookFailures' \in Nat
           /\ \A r \in Rows : /\ Begun(delivery'[r]) <=> Begun(delivery[r])
                              /\ Begun(delivery[r]) => /\ delivery'[r] = delivery[r]
                                                       /\ sends'[r] = sends[r]
  <1> DEFINE Kept == \A r \in Rows : /\ Begun(delivery'[r]) <=> Begun(delivery[r])
                                     /\ Begun(delivery[r]) => /\ delivery'[r] = delivery[r]
                                                              /\ sends'[r] = sends[r]
             Typed == /\ delivery' \in [Rows -> Row] /\ sends' \in [Rows -> Nat]
                      /\ untold \subseteq untold' /\ untold' \subseteq Rows
                      /\ shared \subseteq shared' /\ shared' \subseteq Rows
                      /\ hookFailures' \in Nat
  <1>0. /\ retry \in [RetryJobs -> RetryTask] /\ retry[j] \in RetryTask
        /\ delivery \in [Rows -> Row] /\ sends \in [Rows -> Nat]
        /\ untold \subseteq Rows /\ shared \subseteq Rows /\ hookFailures \in Nat
    BY HookTypes DEF WebhooksTypeOK
  <1>1. /\ retry[j].todo \subseteq Rows /\ retry[j].row \subseteq Rows
        /\ retry[j].was \in [Rows -> Nat]
        /\ \A r \in retry[j].todo \cup retry[j].row : ~Begun(delivery[r])
    BY <1>0 DEF RetryTask, JobOK, Begun
  <1>2. CASE FindsDue(j)
    <2>1. UNCHANGED <<delivery, sends, untold, hookFailures>> /\ shared \subseteq shared'
      BY <1>2 DEF FindsDue
    <2>2. shared' \subseteq Rows
      BY <1>0, <1>2 DEF FindsDue, Due
    <2> QED BY <1>0, <2>1, <2>2
  <1>3. CASE JobEnds(j)
    BY <1>0, <1>1, <1>3 DEF JobEnds, HookFailure
  <1>4. ASSUME NEW r \in Rows, Resends(j, r) PROVE Typed /\ Kept
    BY <1>0, <1>1, <1>4 DEF Resends, Sent
  <1>5. ASSUME NEW r \in Rows, MarksRetry(j, r) PROVE Typed /\ Kept
    <2>1. PICK ok \in BOOLEAN : delivery' = [delivery EXCEPT ![r] = Marked(@, ok, retry[j].was[r])]
      BY <1>5 DEF MarksRetry
    <2>2. r \in retry[j].row /\ ~Begun(delivery[r])
      BY <1>1, <1>5 DEF MarksRetry
    <2>3. delivery[r] \in Row /\ retry[j].was[r] \in Nat
      BY <1>0, <1>1
    <2> DEFINE row == Marked(delivery[r], ok, retry[j].was[r])
    <2>4. row \in Row /\ ~Begun(row)
      BY <2>3, MarkedRow DEF Begun
    <2>5. delivery' = [delivery EXCEPT ![r] = row]
      BY <2>1
    <2> HIDE DEF row
    <2>6. UNCHANGED <<sends, untold, shared, hookFailures>>
      BY <1>5 DEF MarksRetry, hookHistory
    <2> QED BY <1>0, <2>2, <2>4, <2>5, <2>6
  <1>6. ASSUME NEW r \in Rows, RetrySkips(j, r) PROVE Typed /\ Kept
    BY <1>0, <1>1, <1>6 DEF RetrySkips, HookFailure
  <1> QED BY <1>2, <1>3, <1>4, <1>5, <1>6 DEF RetryStep

\* The types survive every step.
LEMMA HookTypesKeep ==
    ASSUME WebhooksTypeOK, HandlerOK(fanout, delivery), JobOK(retry, delivery), WebhooksNext
    PROVE  WebhooksTypeOK'
  <1>1. CASE \E w \in Hooks : Switches(w)
    BY <1>1 DEF Switches, WebhooksTypeOK, hookHistory
  <1>2. ASSUME NEW f \in Fanouts, FanoutStep(f) PROVE WebhooksTypeOK'
    <2>1. HandlerMoves(f, fanout'[f])
      BY <1>2, HandlerIsMoved
    <2> QED BY <1>2, <2>1, HandlerRows DEF WebhooksTypeOK, HandlerMoves, Row
  <1>3. ASSUME NEW j \in RetryJobs, RetryStep(j) PROVE WebhooksTypeOK'
    <2>1. JobMoves(j, retry'[j])
      BY <1>3, JobIsMoved
    <2> QED BY <1>3, <2>1, JobRows DEF WebhooksTypeOK, JobMoves, Row
  <1> QED BY <1>1, <1>2, <1>3 DEF WebhooksNext

\* A handler's step keeps what holds of the handlers' tasks and their rows.
LEMMA HandlersStay ==
    ASSUME WebhooksTypeOK, HandlerOK(fanout, delivery), NEW f \in Fanouts, FanoutStep(f)
    PROVE  HandlerOK(fanout', delivery')
  <1> DEFINE OK(g) == /\ fanout'[g].at \notin {"posting", "marking"} => fanout'[g].hook = {}
                      /\ fanout'[g].at \in {"posting", "marking"} =>
                            \E w \in Hooks : fanout'[g].hook = {w}
                                             /\ delivery'[<<g, w>>].status = "PENDING"
                      /\ fanout'[g].at \in {"walking", "posting", "marking"} =>
                            \A w \in fanout'[g].todo : delivery'[<<g, w>>].status = "ABSENT"
  <1>0. /\ fanout \in [Fanouts -> FanoutTask] /\ fanout[f] \in FanoutTask
        /\ delivery \in [Rows -> Row]
        /\ HandlerMoves(f, fanout'[f])
    BY HookTypes, HandlerIsMoved
  <1>1. /\ \A g \in Fanouts : fanout[g].todo \subseteq Hooks
        /\ fanout[f].todo \subseteq Hooks /\ fanout[f].hook \subseteq Hooks
        /\ \A w \in Hooks : <<f, w>> \in Rows
    BY <1>0, RowIsPair DEF FanoutTask
  <1>2. ASSUME NEW g \in Fanouts \ {f} PROVE OK(g)
    <2>1. fanout'[g] = fanout[g]
      BY <1>0 DEF HandlerMoves
    <2>2. \A w \in Hooks : delivery'[<<g, w>>] = delivery[<<g, w>>]
      BY HandlerRows, RowIsPair
    <2> QED BY <1>1, <2>1, <2>2 DEF HandlerOK
  <1>3. OK(f)
    <2>1. CASE Announces(f) \/ ListsEndpoints(f) \/ Completes(f)
      <3>1. /\ fanout[f].at \in {"none", "queued", "walking"}
            /\ fanout'[f].at \in {"queued", "listed", "done"}
            /\ fanout'[f].hook = fanout[f].hook
        <4>1. CASE Announces(f)
          BY <1>0, <4>1 DEF Announces, FanoutTask
        <4>2. CASE ListsEndpoints(f)
          BY <1>0, <4>2 DEF ListsEndpoints, FanoutTask
        <4>3. CASE Completes(f)
          BY <1>0, <4>3 DEF Completes, FanoutTask
        <4> QED BY <2>1, <4>1, <4>2, <4>3
      <3> QED BY <3>1 DEF HandlerOK
    <2>2. CASE SkipsDelivered(f)
      <3>1. /\ fanout[f].at = "listed" /\ delivery' = delivery
            /\ fanout'[f].at = "walking" /\ fanout'[f].hook = fanout[f].hook
            /\ fanout'[f].todo = {w \in fanout[f].todo : \A g \in Fanouts : ~HasRow(g, w)}
        BY <1>0, <2>2 DEF SkipsDelivered
      <3> QED BY <3>1 DEF HandlerOK, HasRow
    <2>3. CASE Posts(f)
      BY <1>0, <2>3 DEF Posts, HandlerOK
    <2>4. CASE Marks(f)
      <3>1. /\ fanout[f].at = "marking" /\ fanout'[f].at = "walking" /\ fanout'[f].hook = {}
            /\ fanout'[f].todo = fanout[f].todo
        BY <1>0, <2>4 DEF Marks, WalksOn
      <3>2. PICK v \in Hooks : fanout[f].hook = {v} /\ delivery[<<f, v>>].status = "PENDING"
        BY <3>1 DEF HandlerOK
      <3>3. PICK ok \in BOOLEAN :
               delivery' = [r \in Rows |-> IF r \in {f} \X {v} THEN Marked(delivery[r], ok, 0)
                                           ELSE delivery[r]]
        BY <2>4, <3>2 DEF Marks
      <3>4. ASSUME NEW w \in fanout[f].todo PROVE delivery'[<<f, w>>].status = "ABSENT"
        <4>1. <<f, w>> \in Rows /\ delivery[<<f, w>>].status = "ABSENT"
          BY <1>1, <3>1 DEF HandlerOK
        <4>2. <<f, w>> \notin {f} \X {v}
          BY <3>2, <4>1
        <4> QED BY <3>3, <4>1, <4>2
      <3> QED BY <3>1, <3>4
    <2>5. CASE MarkFails(f) \/ HandlerFails(f)
      <3>1. /\ delivery' = delivery /\ fanout'[f].hook = {}
            /\ \/ fanout'[f].at = "queued"
               \/ /\ fanout'[f].at = "walking" /\ fanout[f].at = "marking"
                  /\ fanout'[f].todo = fanout[f].todo
        <4>1. CASE MarkFails(f)
          BY <1>0, <4>1 DEF MarkFails, WalksOn, FanoutTask
        <4>2. CASE HandlerFails(f)
          BY <1>0, <4>2 DEF HandlerFails, NoFanout
        <4> QED BY <2>5, <4>1, <4>2
      <3> QED BY <3>1 DEF HandlerOK
    <2>6. ASSUME NEW w \in Hooks, CreatesDelivery(f, w) PROVE OK(f)
      <3>1. /\ fanout[f].at = "walking" /\ fanout'[f].at = "posting" /\ fanout'[f].hook = {w}
            /\ fanout'[f].todo = fanout[f].todo \ {w}
            /\ delivery' = [delivery EXCEPT ![<<f, w>>] = [status |-> "PENDING", count |-> 0]]
        BY <1>0, <2>6 DEF CreatesDelivery
      <3>2. delivery'[<<f, w>>].status = "PENDING"
        BY <1>0, <1>1, <3>1
      <3>3. ASSUME NEW v \in fanout'[f].todo PROVE delivery'[<<f, v>>].status = "ABSENT"
        <4>1. v \in fanout[f].todo /\ v # w /\ <<f, v>> \in Rows
          BY <1>1, <3>1
        <4>2. delivery[<<f, v>>].status = "ABSENT"
          BY <3>1, <4>1 DEF HandlerOK
        <4> QED BY <1>0, <3>1, <4>1, <4>2
      <3> QED BY <3>1, <3>2, <3>3
    <2>7. ASSUME NEW w \in Hooks, CreateFails(f, w) PROVE OK(f)
      <3>1. /\ fanout[f].at = "walking" /\ fanout'[f].at = "walking"
            /\ fanout'[f].hook = fanout[f].hook
            /\ fanout'[f].todo = fanout[f].todo \ {w} /\ delivery' = delivery
        BY <1>0, <2>7 DEF CreateFails
      <3> QED BY <3>1 DEF HandlerOK
    <2> QED BY <2>1, <2>2, <2>3, <2>4, <2>5, <2>6, <2>7 DEF FanoutStep
  <1> HIDE DEF OK
  <1>4. \A g \in Fanouts : OK(g)
    BY <1>2, <1>3
  <1> QED BY <1>4 DEF OK, HandlerOK

\* A handler forgets a row it has not marked only where the outcome is not written.
LEMMA HandlerHoldsPending ==
    ASSUME WebhooksTypeOK, HandlerOK(fanout, delivery), PendingIsHeld,
           NEW f \in Fanouts, FanoutStep(f)
    PROVE  PendingIsHeld'
  <1>0. /\ fanout \in [Fanouts -> FanoutTask] /\ fanout[f] \in FanoutTask
        /\ delivery \in [Rows -> Row]
        /\ HandlerMoves(f, fanout'[f]) /\ untold \subseteq untold'
    BY HookTypes, HandlerIsMoved, HandlerRows
  <1> SUFFICES ASSUME NEW r \in Rows, delivery'[r].status = "PENDING"
               PROVE  fanout'[r[1]].hook = {r[2]} \/ r \in untold'
    BY DEF PendingIsHeld
  <1>r. r[1] \in Fanouts /\ r[2] \in Hooks /\ r = <<r[1], r[2]>>
    BY RowIsPair
  <1>1. CASE r[1] # f
    <2>1. delivery'[r] = delivery[r] /\ fanout'[r[1]] = fanout[r[1]]
      BY <1>0, <1>1, <1>r, HandlerRows DEF HandlerMoves
    <2> QED BY <1>0, <2>1 DEF PendingIsHeld
  <1>2. CASE r[1] = f
    <2>1. CASE Announces(f) \/ ListsEndpoints(f) \/ Completes(f) \/ SkipsDelivered(f) \/ Posts(f)
      <3>1. delivery' = delivery /\ fanout'[f].hook = fanout[f].hook
        <4>1. CASE Announces(f)
          BY <1>0, <4>1 DEF Announces, FanoutTask
        <4>2. CASE ListsEndpoints(f)
          BY <1>0, <4>2 DEF ListsEndpoints, FanoutTask
        <4>3. CASE Completes(f)
          BY <1>0, <4>3 DEF Completes, FanoutTask
        <4>4. CASE SkipsDelivered(f)
          BY <1>0, <4>4 DEF SkipsDelivered, FanoutTask
        <4>5. CASE Posts(f)
          BY <1>0, <4>5 DEF Posts, FanoutTask
        <4> QED BY <2>1, <4>1, <4>2, <4>3, <4>4, <4>5
      <3> QED BY <1>0, <1>2, <3>1 DEF PendingIsHeld
    <2>2. CASE Marks(f)
      <3>1. PICK ok \in BOOLEAN :
               delivery' = [q \in Rows |-> IF q \in {f} \X fanout[f].hook
                                           THEN Marked(delivery[q], ok, 0) ELSE delivery[q]]
        BY <2>2 DEF Marks
      <3>2. Marked(delivery[r], ok, 0).status # "PENDING"
        BY <1>0, MarkedRow
      <3>3. r \notin {f} \X fanout[f].hook /\ delivery'[r] = delivery[r]
        BY <3>1, <3>2
      <3>4. r[2] \notin fanout[f].hook
        BY <1>2, <1>r, <3>3
      <3> QED BY <1>0, <1>2, <3>3, <3>4 DEF PendingIsHeld
    <2>3. CASE MarkFails(f) \/ HandlerFails(f)
      <3>1. delivery' = delivery /\ untold' = untold \cup ({f} \X fanout[f].hook)
        BY <2>3 DEF MarkFails, HandlerFails
      <3>2. fanout[f].hook = {r[2]} => r \in {f} \X fanout[f].hook
        BY <1>2, <1>r
      <3> QED BY <1>2, <3>1, <3>2 DEF PendingIsHeld
    <2>4. ASSUME NEW w \in Hooks, CreatesDelivery(f, w)
          PROVE  fanout'[r[1]].hook = {r[2]} \/ r \in untold'
      <3>1. /\ fanout[f].at = "walking" /\ fanout'[f].hook = {w}
            /\ delivery' = [delivery EXCEPT ![<<f, w>>] = [status |-> "PENDING", count |-> 0]]
        BY <1>0, <2>4 DEF CreatesDelivery
      <3>2. fanout[f].hook = {}
        BY <3>1 DEF HandlerOK
      <3>3. CASE r = <<f, w>>
        BY <1>2, <3>1, <3>3
      <3>4. CASE r # <<f, w>>
        BY <1>0, <1>2, <3>1, <3>2, <3>4 DEF PendingIsHeld
      <3> QED BY <3>3, <3>4
    <2>5. ASSUME NEW w \in Hooks, CreateFails(f, w)
          PROVE  fanout'[r[1]].hook = {r[2]} \/ r \in untold'
      <3>1. delivery' = delivery /\ fanout'[f].hook = fanout[f].hook
        BY <1>0, <2>5 DEF CreateFails
      <3> QED BY <1>0, <1>2, <3>1 DEF PendingIsHeld
    <2> QED BY <2>1, <2>2, <2>3, <2>4, <2>5 DEF FanoutStep
  <1> QED BY <1>1, <1>2

\* A handler's step leaves the rows the jobs have in hand.
LEMMA HandlerSparesJobs ==
    ASSUME WebhooksTypeOK, HandlerOK(fanout, delivery), JobOK(retry, delivery),
           NEW f \in Fanouts, FanoutStep(f)
    PROVE  JobOK(retry', delivery')
  <1>1. retry' = retry /\ retry \in [RetryJobs -> RetryTask]
    BY HookTypes, HandlerIsMoved DEF HandlerMoves
  <1>2. \A r \in Rows : ~Begun(delivery[r]) => delivery'[r] = delivery[r]
    BY HandlerRows
  <1>3. \A j \in RetryJobs : retry[j].todo \cup retry[j].row \subseteq Rows
    BY <1>1 DEF RetryTask
  <1> QED BY <1>1, <1>2, <1>3 DEF JobOK, Begun

\* A job's step keeps what holds of the jobs' rows.
LEMMA JobsStay ==
    ASSUME WebhooksTypeOK, JobOK(retry, delivery), NEW j \in RetryJobs, RetryStep(j)
    PROVE  JobOK(retry', delivery')
  <1> DEFINE Hand(k) == retry'[k].todo \cup retry'[k].row
             OK(k) == /\ retry'[k].at = "idle" => retry'[k].todo = {}
                      /\ retry'[k].at # "marking" => retry'[k].row = {}
                      /\ \A r \in retry'[k].row : retry'[k].row = {r}
                      /\ \A r \in Hand(k) : delivery'[r].status \notin {"ABSENT", "PENDING"}
  <1>0. /\ retry \in [RetryJobs -> RetryTask] /\ retry[j] \in RetryTask
        /\ JobMoves(j, retry'[j])
        /\ \A r \in Rows : ~Begun(delivery[r]) => ~Begun(delivery'[r])
        /\ \A k \in RetryJobs : retry[k].todo \cup retry[k].row \subseteq Rows
    BY HookTypes, JobIsMoved, JobRows DEF RetryTask
  <1>1. ASSUME NEW k \in RetryJobs \ {j} PROVE OK(k)
    <2>1. retry'[k] = retry[k]
      BY <1>0 DEF JobMoves
    <2> QED BY <1>0, <2>1 DEF JobOK, Begun
  <1>2. OK(j)
    <2>1. ASSUME Hand(j) \subseteq retry[j].todo \cup retry[j].row
          PROVE  \A r \in Hand(j) : delivery'[r].status \notin {"ABSENT", "PENDING"}
      BY <1>0, <2>1 DEF JobOK, Begun
    <2>2. CASE FindsDue(j)
      <3>1. PICK due \in SUBSET Due :
               retry' = [retry EXCEPT ![j] =
                         [NoRetry EXCEPT !.at = "walking", !.todo = due,
                            !.was = [r \in Rows |-> IF r \in due THEN delivery[r].count ELSE 0]]]
        BY <2>2 DEF FindsDue
      <3>2. retry'[j].at = "walking" /\ retry'[j].todo = due /\ retry'[j].row = {}
        BY <1>0, <3>1 DEF NoRetry
      <3>3. \A r \in due : r \in Rows /\ ~Begun(delivery[r])
        BY <3>1 DEF Due, Begun
      <3> QED BY <1>0, <3>2, <3>3 DEF Begun
    <2>3. CASE JobEnds(j)
      BY <1>0, <2>3 DEF JobEnds, NoRetry
    <2>4. ASSUME NEW r \in Rows, Resends(j, r) PROVE OK(j)
      <3>1. /\ retry'[j].at = "marking" /\ retry'[j].row = {r}
            /\ retry'[j].todo \subseteq retry[j].todo /\ r \in retry[j].todo
        BY <1>0, <2>4 DEF Resends, RetryTask
      <3> QED BY <2>1, <3>1
    <2>5. ASSUME NEW r \in Rows, GoesOn(j, r) PROVE OK(j)
      <3>1. /\ retry'[j].at = "walking" /\ retry'[j].row = {}
            /\ retry'[j].todo \subseteq retry[j].todo
        BY <1>0, <2>5 DEF GoesOn, RetryTask
      <3> QED BY <2>1, <3>1
    <2> QED BY <2>2, <2>3, <2>4, <2>5 DEF RetryStep, MarksRetry, RetrySkips
  <1> HIDE DEF OK
  <1>3. \A k \in RetryJobs : OK(k)
    BY <1>1, <1>2
  <1> QED BY <1>3 DEF OK, JobOK

\* A job's step leaves the handlers, and what they created and hold.
LEMMA JobSparesHandlers ==
    ASSUME WebhooksTypeOK, JobOK(retry, delivery), NEW j \in RetryJobs, RetryStep(j),
           HandlerOK(fanout, delivery), PendingIsHeld, GuardOK(fanout, delivery, together)
    PROVE  HandlerOK(fanout', delivery') /\ PendingIsHeld'
           /\ GuardOK(fanout', delivery', together')
  <1>1. /\ fanout' = fanout /\ together' = together /\ untold \subseteq untold'
        /\ fanout \in [Fanouts -> FanoutTask]
    BY HookTypes, JobIsMoved, JobRows DEF JobMoves
  <1>2. \A r \in Rows : /\ delivery'[r].status = "ABSENT" <=> delivery[r].status = "ABSENT"
                        /\ delivery'[r].status = "PENDING" <=> delivery[r].status = "PENDING"
    BY JobRows DEF Begun
  <1>3. \A f \in Fanouts, w \in Hooks :
           /\ delivery'[<<f, w>>].status = "ABSENT" <=> delivery[<<f, w>>].status = "ABSENT"
           /\ delivery'[<<f, w>>].status = "PENDING" <=> delivery[<<f, w>>].status = "PENDING"
    BY <1>2, RowIsPair
  <1>4. \A f \in Fanouts : fanout[f].todo \subseteq Hooks
    BY <1>1 DEF FanoutTask
  <1>5. HandlerOK(fanout', delivery')
    BY <1>1, <1>3, <1>4 DEF HandlerOK
  <1>6. PendingIsHeld'
    BY <1>1, <1>2 DEF PendingIsHeld
  <1>7. GuardOK(fanout', delivery', together')
    BY <1>1, <1>3 DEF GuardOK
  <1> QED BY <1>5, <1>6, <1>7

\* A handler's step keeps the guard: a row is created by the one handler past it.
LEMMA GuardStays ==
    ASSUME WebhooksTypeOK, HandlerOK(fanout, delivery), GuardOK(fanout, delivery, together),
           NEW f \in Fanouts, FanoutStep(f)
    PROVE  GuardOK(fanout', delivery', together')
  <1> DEFINE Walks(h, w) == fanout[h].at \in {"walking", "posting", "marking"} /\ w \in fanout[h].todo
             Walks1(h, w) == /\ fanout'[h].at \in {"walking", "posting", "marking"}
                             /\ w \in fanout'[h].todo
             Gone(h, w) == delivery[<<h, w>>].status = "ABSENT"
             Gone1(h, w) == delivery'[<<h, w>>].status = "ABSENT"
  <1>0. /\ fanout \in [Fanouts -> FanoutTask] /\ fanout[f] \in FanoutTask
        /\ delivery \in [Rows -> Row] /\ HandlerMoves(f, fanout'[f])
        /\ together \subseteq together'
    BY HookTypes, HandlerIsMoved, HandlerRows
  <1>1. \A w \in Hooks \ together : \A g, h \in Fanouts :
           /\ Walks(g, w) /\ Walks(h, w) => g = h
           /\ Walks(g, w) => Gone(h, w)
           /\ ~Gone(g, w) /\ ~Gone(h, w) => g = h
    BY DEF GuardOK
  <1>2. \A g \in Fanouts \ {f}, w \in Hooks :
           (Walks1(g, w) <=> Walks(g, w)) /\ (Gone1(g, w) <=> Gone(g, w))
    <2>1. \A g \in Fanouts \ {f} : fanout'[g] = fanout[g]
      BY <1>0 DEF HandlerMoves
    <2>2. \A g \in Fanouts \ {f}, w \in Hooks : delivery'[<<g, w>>] = delivery[<<g, w>>]
      BY HandlerRows, RowIsPair
    <2> QED BY <2>1, <2>2
  \* Every step but two leaves the handler with fewer endpoints, and the same rows.
  <1>3. ASSUME \A w \in Hooks : /\ Walks1(f, w) => Walks(f, w)
                                /\ Gone1(f, w) <=> Gone(f, w)
        PROVE  GuardOK(fanout', delivery', together')
    <2>1. \A g \in Fanouts, w \in Hooks :
             (Walks1(g, w) => Walks(g, w)) /\ (Gone1(g, w) <=> Gone(g, w))
      BY <1>2, <1>3
    <2>2. \A w \in Hooks \ together' : w \in Hooks \ together
      BY <1>0
    <2> HIDE DEF Walks, Gone
    <2> QED BY <1>1, <2>1, <2>2 DEF GuardOK
  <1>4. CASE SkipsDelivered(f)
    <2>1. /\ fanout[f].at = "listed" /\ delivery' = delivery /\ Meets(f)
          /\ fanout'[f].at = "walking"
          /\ fanout'[f].todo = {w \in fanout[f].todo : \A g \in Fanouts : ~HasRow(g, w)}
      BY <1>0, <1>4 DEF SkipsDelivered, FanoutTask
    <2>2. \A g \in Fanouts, w \in Hooks : Gone1(g, w) <=> Gone(g, w)
      BY <2>1
    <2>3. \A w \in Hooks \ together' :
             Walks1(f, w) => /\ \A g \in Fanouts : ~Walks(g, w)
                             /\ \A g \in Fanouts : Gone(g, w)
      BY <2>1 DEF Meets, Walkers, HasRow
    <2>4. \A w \in Hooks \ together' : w \in Hooks \ together
      BY <1>0
    <2> HIDE DEF Walks, Gone, Walks1, Gone1
    <2>5. ASSUME NEW w \in Hooks \ together', NEW g \in Fanouts, NEW h \in Fanouts
          PROVE  /\ Walks1(g, w) /\ Walks1(h, w) => g = h
                 /\ Walks1(g, w) => Gone1(h, w)
                 /\ ~Gone1(g, w) /\ ~Gone1(h, w) => g = h
      BY <1>1, <1>2, <2>2, <2>3, <2>4
    <2> QED BY <2>5 DEF GuardOK, Walks1, Gone1
  <1>5. ASSUME NEW v \in Hooks, CreatesDelivery(f, v) PROVE GuardOK(fanout', delivery', together')
    <2>1. /\ fanout[f].at = "walking" /\ v \in fanout[f].todo
          /\ fanout'[f].todo = fanout[f].todo \ {v} /\ together' = together
          /\ delivery' = [delivery EXCEPT ![<<f, v>>] = [status |-> "PENDING", count |-> 0]]
      BY <1>0, <1>5 DEF CreatesDelivery, hookHistory, FanoutTask
    <2>2. \A w \in Hooks : Walks1(f, w) => Walks(f, w) /\ w # v
      BY <2>1
    <2>3. \A w \in Hooks \ {v} : Gone1(f, w) <=> Gone(f, w)
      <3>1. \A w \in Hooks \ {v} : <<f, w>> \in Rows /\ <<f, w>> # <<f, v>>
        BY RowIsPair
      <3> QED BY <1>0, <2>1, <3>1
    <2>4. Walks(f, v)
      BY <2>1
    <2> HIDE DEF Walks, Gone, Walks1, Gone1
    <2>5. ASSUME NEW w \in Hooks \ together', NEW g \in Fanouts, NEW h \in Fanouts
          PROVE  /\ Walks1(g, w) /\ Walks1(h, w) => g = h
                 /\ Walks1(g, w) => Gone1(h, w)
                 /\ ~Gone1(g, w) /\ ~Gone1(h, w) => g = h
      <3>1. w \in Hooks \ together
        BY <2>1
      <3>2. CASE w = v
        BY <1>1, <1>2, <2>2, <2>4, <3>1, <3>2
      <3>3. CASE w # v
        BY <1>1, <1>2, <2>2, <2>3, <3>1, <3>3
      <3> QED BY <3>2, <3>3
    <2> QED BY <2>5 DEF GuardOK, Walks1, Gone1
  <1>6. ASSUME FanoutStep(f), ~SkipsDelivered(f), \A v \in Hooks : ~CreatesDelivery(f, v)
        PROVE  \A w \in Hooks : (Walks1(f, w) => Walks(f, w)) /\ (Gone1(f, w) <=> Gone(f, w))
    <2>1. CASE Announces(f) \/ ListsEndpoints(f) \/ Completes(f) \/ HandlerFails(f)
      <3>1. delivery' = delivery /\ fanout'[f].at \in {"queued", "listed", "done"}
        <4>1. CASE Announces(f)
          BY <1>0, <4>1 DEF Announces, FanoutTask
        <4>2. CASE ListsEndpoints(f)
          BY <1>0, <4>2 DEF ListsEndpoints, FanoutTask
        <4>3. CASE Completes(f)
          BY <1>0, <4>3 DEF Completes, FanoutTask
        <4>4. CASE HandlerFails(f)
          BY <1>0, <4>4 DEF HandlerFails, NoFanout
        <4> QED BY <2>1, <4>1, <4>2, <4>3, <4>4
      <3> QED BY <3>1
    <2>2. CASE Posts(f)
      BY <1>0, <2>2 DEF Posts, FanoutTask
    <2>3. CASE MarkFails(f)
      BY <1>0, <2>3 DEF MarkFails, WalksOn, FanoutTask
    <2>4. ASSUME NEW v \in Hooks, CreateFails(f, v)
          PROVE  \A w \in Hooks : (Walks1(f, w) => Walks(f, w)) /\ (Gone1(f, w) <=> Gone(f, w))
      BY <1>0, <2>4 DEF CreateFails, FanoutTask
    <2>5. CASE Marks(f)
      <3>1. /\ fanout[f].at = "marking" /\ fanout'[f].todo = fanout[f].todo
        BY <1>0, <2>5 DEF Marks, WalksOn, FanoutTask
      <3>2. PICK v \in Hooks : fanout[f].hook = {v} /\ delivery[<<f, v>>].status = "PENDING"
        BY <3>1 DEF HandlerOK
      <3>3. PICK ok \in BOOLEAN :
               delivery' = [r \in Rows |-> IF r \in {f} \X {v} THEN Marked(delivery[r], ok, 0)
                                           ELSE delivery[r]]
        BY <2>5, <3>2 DEF Marks
      <3>4. \A r \in Rows : Marked(delivery[r], ok, 0).status # "ABSENT"
        BY <1>0, MarkedRow
      <3>5. \A w \in Hooks : w # v => <<f, w>> \notin {f} \X {v}
        OBVIOUS
      <3>6. ASSUME NEW w \in Hooks PROVE Gone1(f, w) <=> Gone(f, w)
        <4>1. <<f, w>> \in Rows /\ <<f, v>> \in {f} \X {v}
          BY RowIsPair
        <4>2. CASE w = v
          BY <3>2, <3>3, <3>4, <4>1, <4>2
        <4>3. CASE w # v
          BY <3>3, <3>5, <4>1, <4>3
        <4> QED BY <4>2, <4>3
      <3> QED BY <3>1, <3>6
    <2> QED BY <1>6, <2>1, <2>2, <2>3, <2>4, <2>5 DEF FanoutStep
  <1> QED BY <1>3, <1>4, <1>5, <1>6

RowsOK == \A r \in Rows \ (shared \cup untold) : RowOK(r, delivery, fanout, retry, sends)

\* A handler's step counts the request it makes, and what it marks it has sent once.
LEMMA HandlerCounts ==
    ASSUME WebhooksTypeOK, HandlerOK(fanout, delivery), JobOK(retry, delivery), PendingIsHeld,
           RowsOK, NEW f \in Fanouts, FanoutStep(f)
    PROVE  RowsOK'
  <1>0. /\ fanout \in [Fanouts -> FanoutTask] /\ fanout[f] \in FanoutTask
        /\ delivery \in [Rows -> Row] /\ sends \in [Rows -> Nat]
        /\ HandlerMoves(f, fanout'[f]) /\ untold \subseteq untold'
        /\ shared' = shared /\ retry' = retry
    BY HookTypes, HandlerIsMoved, HandlerRows DEF HandlerMoves
  <1> SUFFICES ASSUME NEW r \in Rows, r \notin shared' \cup untold'
               PROVE  RowOK(r, delivery', fanout', retry', sends')
    BY DEF RowsOK
  <1>1. /\ r \notin shared /\ r \notin untold /\ RowOK(r, delivery, fanout, retry, sends)
        /\ r[1] \in Fanouts /\ r[2] \in Hooks /\ r = <<r[1], r[2]>>
    BY <1>0, RowIsPair DEF RowsOK
  <1>2. CASE r[1] # f
    <2>1. /\ delivery'[r] = delivery[r] /\ sends'[r] = sends[r] /\ fanout'[r[1]] = fanout[r[1]]
      BY <1>0, <1>1, <1>2, HandlerRows DEF HandlerMoves
    <2> QED BY <1>0, <1>1, <2>1 DEF RowOK, Settled
  <1>3. CASE ~Begun(delivery[r])
    <2>1. /\ delivery'[r] = delivery[r] /\ sends'[r] = sends[r]
      BY <1>3, HandlerRows
    <2> QED BY <1>0, <1>1, <1>3, <2>1 DEF RowOK, Settled, Begun
  <1>4. CASE r[1] = f /\ delivery[r].status = "ABSENT"
    <2>1. delivery[r].count = 0 /\ sends[r] = 0
      BY <1>1, <1>4 DEF RowOK
    <2>2. ASSUME NEW w \in Hooks, CreatesDelivery(f, w)
          PROVE  RowOK(r, delivery', fanout', retry', sends')
      <3>1. /\ fanout'[f].at = "posting" /\ sends' = sends
            /\ delivery' = [delivery EXCEPT ![<<f, w>>] = [status |-> "PENDING", count |-> 0]]
        BY <1>0, <2>2 DEF CreatesDelivery, FanoutTask, hookHistory
      <3>2. CASE r = <<f, w>>
        <4>1. delivery'[r] = [status |-> "PENDING", count |-> 0]
          BY <1>0, <3>1, <3>2
        <4> QED BY <1>4, <2>1, <3>1, <4>1 DEF RowOK
      <3>3. CASE r # <<f, w>>
        <4>1. delivery'[r] = delivery[r]
          BY <1>0, <3>1, <3>3
        <4> QED BY <1>4, <2>1, <3>1, <4>1 DEF RowOK
      <3> QED BY <3>2, <3>3
    <2>3. ASSUME UNCHANGED <<delivery, sends>> PROVE RowOK(r, delivery', fanout', retry', sends')
      BY <1>4, <2>1, <2>3 DEF RowOK
    <2>4. CASE Posts(f)
      <3>1. PICK w \in Hooks : fanout[f].hook = {w} /\ delivery[<<f, w>>].status = "PENDING"
        BY <2>4 DEF Posts, HandlerOK
      <3>2. Sent(<<f, w>>) /\ delivery' = delivery
        BY <2>4, <3>1 DEF Posts
      <3>3. r # <<f, w>>
        BY <1>4, <3>1
      <3>4. sends'[r] = sends[r]
        BY <1>0, <3>2, <3>3 DEF Sent
      <3> QED BY <1>4, <2>1, <3>2, <3>4 DEF RowOK
    <2>5. CASE Marks(f)
      <3>1. PICK w \in Hooks : fanout[f].hook = {w} /\ delivery[<<f, w>>].status = "PENDING"
        BY <2>5 DEF Marks, HandlerOK
      <3>2. r \notin {f} \X {w}
        BY <1>4, <3>1
      <3>3. delivery'[r] = delivery[r] /\ sends' = sends
        BY <2>5, <3>1, <3>2 DEF Marks, hookHistory
      <3> QED BY <1>4, <2>1, <3>3 DEF RowOK
    <2> QED BY <2>2, <2>3, <2>4, <2>5
            DEF FanoutStep, Announces, ListsEndpoints, SkipsDelivered, Completes, MarkFails,
                HandlerFails, CreateFails, hookHistory
  <1>5. CASE r[1] = f /\ delivery[r].status = "PENDING"
    <2>1. /\ delivery[r].count = 0 /\ sends[r] = IF fanout[f].at = "posting" THEN 0 ELSE 1
          /\ fanout[f].hook = {r[2]}
      BY <1>1, <1>5 DEF RowOK, PendingIsHeld
    <2>2. fanout[f].at \in {"posting", "marking"}
      BY <2>1 DEF HandlerOK
    <2>3. CASE Posts(f)
      <3>1. fanout[f].at = "posting" /\ fanout'[f].at = "marking" /\ delivery' = delivery
        BY <1>0, <2>3 DEF Posts, FanoutTask
      <3>2. Sent(r)
        BY <1>1, <1>5, <2>1, <2>3 DEF Posts
      <3>3. sends'[r] = 1
        BY <1>0, <1>1, <2>1, <3>1, <3>2 DEF Sent
      <3> QED BY <1>5, <2>1, <3>1, <3>3 DEF RowOK
    <2>4. CASE Marks(f)
      <3>1. fanout[f].at = "marking" /\ sends' = sends /\ sends[r] = 1
        BY <2>1, <2>4 DEF Marks, hookHistory
      <3>2. r \in {f} \X {r[2]}
        BY <1>1, <1>5
      <3>3. PICK ok \in BOOLEAN : delivery'[r] = Marked(delivery[r], ok, 0)
        BY <2>1, <2>4, <3>2 DEF Marks
      <3>4. /\ delivery'[r].status \notin {"ABSENT", "PENDING"} /\ delivery'[r].count = 1
            /\ delivery'[r].status = "RETRYING" => 1 <= RetryDelays
        <4> DEFINE row == delivery[r]
        <4>1. row \in Row /\ row.count = 0 /\ 0 \in Nat
          BY <1>0, <2>1
        <4> HIDE DEF row
        <4>2. /\ Marked(row, ok, 0).status \notin {"ABSENT", "PENDING"}
              /\ Marked(row, ok, 0).count = IF ok THEN row.count + 1 ELSE 0 + 1
              /\ Marked(row, ok, 0).status = "RETRYING" => 0 < RetryDelays
          BY <4>1, MarkedRow
        <4>3. 0 < RetryDelays => 1 <= RetryDelays
          BY HookBounds
        <4> QED BY <3>3, <4>1, <4>2, <4>3 DEF row
      <3>5. \A j \in RetryJobs : r \notin retry[j].todo \cup retry[j].row
        BY <1>5 DEF JobOK
      <3> QED BY <1>0, <3>1, <3>4, <3>5, HookBounds DEF RowOK, Settled
    <2>5. ~(MarkFails(f) \/ HandlerFails(f))
      BY <1>1, <1>5, <2>1 DEF MarkFails, HandlerFails
    <2> QED BY <2>2, <2>3, <2>4, <2>5
            DEF FanoutStep, Announces, ListsEndpoints, SkipsDelivered, Completes, CreateFails,
                CreatesDelivery
  <1> QED BY <1>2, <1>3, <1>4, <1>5 DEF Begun

\* What a job's step leaves of a row that was sent before.
LEMMA JobCounts ==
    ASSUME WebhooksTypeOK, JobOK(retry, delivery), NEW j \in RetryJobs, RetryStep(j),
           NEW r \in Rows, r \notin shared', r \notin untold', ~Begun(delivery[r]),
           Settled(r, delivery, retry, sends)
    PROVE  Settled(r, delivery', retry', sends')
  <1> DEFINE In(k) == r \in retry[k].todo \cup retry[k].row
             In1(k) == r \in retry'[k].todo \cup retry'[k].row
             Row1(k) == r \in retry'[k].row
  <1>0. /\ retry \in [RetryJobs -> RetryTask] /\ retry[j] \in RetryTask
        /\ delivery \in [Rows -> Row] /\ sends \in [Rows -> Nat]
        /\ delivery[r].count \in Nat /\ sends[r] \in Nat
        /\ JobMoves(j, retry'[j]) /\ r \notin shared /\ r \notin untold
    BY HookTypes, JobIsMoved, JobRows DEF Row
  <1>1. \A k \in RetryJobs \ {j} : retry'[k] = retry[k]
    BY <1>0 DEF JobMoves
  \* The job lets go of the row, or keeps it as it has it, and nothing is sent.
  <1>2. ASSUME UNCHANGED <<delivery, sends>>, r \in retry[j].row => Row1(j),
               Row1(j) => r \in retry[j].row,
               In1(j) => In(j) /\ retry'[j].was[r] = retry[j].was[r]
        PROVE  Settled(r, delivery', retry', sends')
    <2>1. \A k \in RetryJobs : /\ Row1(k) <=> r \in retry[k].row
                               /\ In1(k) => In(k) /\ retry'[k].was[r] = retry[k].was[r]
      BY <1>1, <1>2
    <2> QED BY <1>2, <2>1 DEF Settled
  <1>3. CASE FindsDue(j)
    <2>1. PICK due \in SUBSET Due :
             /\ retry' = [retry EXCEPT ![j] =
                         [NoRetry EXCEPT !.at = "walking", !.todo = due,
                            !.was = [q \in Rows |-> IF q \in due THEN delivery[q].count ELSE 0]]]
             /\ shared' = shared \cup (due \cap UNION {InHand(k) : k \in RetryJobs \ {j}})
      BY <1>3 DEF FindsDue
    <2>2. /\ retry'[j].todo = due /\ retry'[j].row = {} /\ retry[j].at = "idle"
          /\ retry'[j].was = [q \in Rows |-> IF q \in due THEN delivery[q].count ELSE 0]
          /\ UNCHANGED <<delivery, sends>>
      BY <1>0, <1>3, <2>1 DEF NoRetry, FindsDue
    <2>3. ~In(j)
      BY <2>2 DEF JobOK
    <2>4. CASE r \notin due
      BY <1>2, <2>2, <2>3, <2>4
    <2>5. CASE r \in due
      <3>1. \A k \in RetryJobs \ {j} : ~In(k)
        BY <2>1, <2>5 DEF InHand
      <3>2. \A k \in RetryJobs : ~In(k) /\ ~Row1(k) /\ (In1(k) <=> k = j)
        BY <1>1, <2>2, <2>3, <2>5, <3>1
      <3>3. /\ delivery[r].status = "RETRYING" /\ sends[r] = delivery[r].count
            /\ delivery[r].count <= RetryDelays /\ retry'[j].was[r] = delivery[r].count
        BY <2>1, <2>2, <2>5, <3>2 DEF Settled, Due
      <3> QED BY <2>2, <3>2, <3>3 DEF Settled
    <2> QED BY <2>4, <2>5
  <1>4. CASE JobEnds(j)
    <2>1. /\ UNCHANGED <<delivery, sends>> /\ retry'[j].todo = {} /\ retry'[j].row = {}
          /\ r \notin retry[j].row
      BY <1>0, <1>4 DEF JobEnds, NoRetry, JobOK
    <2> QED BY <1>2, <2>1
  <1>5. ASSUME NEW q \in Rows, Resends(j, q) PROVE Settled(r, delivery', retry', sends')
    <2>1. /\ retry[j].at = "walking" /\ q \in retry[j].todo /\ Sent(q)
          /\ retry'[j].row = {q} /\ retry'[j].todo = retry[j].todo \ {q}
          /\ retry'[j].was = retry[j].was /\ retry[j].row = {} /\ delivery' = delivery
      BY <1>0, <1>5 DEF Resends, RetryTask, JobOK
    <2>2. CASE q # r
      <3>1. sends'[r] = sends[r]
        BY <1>0, <2>1, <2>2 DEF Sent
      <3>2. \A k \in RetryJobs : /\ Row1(k) <=> r \in retry[k].row
                                 /\ In1(k) => In(k) /\ retry'[k].was[r] = retry[k].was[r]
        BY <1>1, <2>1, <2>2
      <3> QED BY <2>1, <3>1, <3>2 DEF Settled
    <2>3. CASE q = r
      <3>1. sends'[r] = sends[r] + 1
        BY <1>0, <2>1, <2>3 DEF Sent
      <3>2. \A k \in RetryJobs : In(k) => k = j
        BY <2>1, <2>3 DEF Settled
      <3>3. \A k \in RetryJobs : r \notin retry[k].row
        BY <2>1, <3>2
      <3>4. \A k \in RetryJobs : /\ In1(k) => In(k) /\ retry'[k].was[r] = retry[k].was[r]
                                 /\ Row1(k) => k = j
        BY <1>1, <2>1, <2>3, <3>3
      <3>5. Row1(j) /\ sends[r] = delivery[r].count /\ delivery[r].status = "RETRYING"
        BY <2>1, <2>3, <3>3 DEF Settled
      <3> QED BY <2>1, <3>1, <3>4, <3>5 DEF Settled
    <2> QED BY <2>2, <2>3
  \* The job goes on from a row.
  <1>6. ASSUME NEW q \in Rows, GoesOn(j, q)
        PROVE  /\ retry'[j].row = {} /\ retry'[j].todo = retry[j].todo \ {q}
               /\ q # r => retry'[j].was[r] = retry[j].was[r]
    <2>1. retry[j].was \in [Rows -> Nat]
      BY <1>0 DEF RetryTask
    <2>2. retry'[j].was = [retry[j].was EXCEPT ![q] = 0]
      BY <1>0, <1>6 DEF GoesOn, RetryTask
    <2> QED BY <1>0, <1>6, <2>1, <2>2 DEF GoesOn, RetryTask
  <1>7. ASSUME NEW q \in Rows, MarksRetry(j, q) PROVE Settled(r, delivery', retry', sends')
    <2>1. /\ retry[j].row = {q} /\ retry'[j].row = {} /\ retry'[j].todo = retry[j].todo \ {q}
          /\ q # r => retry'[j].was[r] = retry[j].was[r]
          /\ sends' = sends
      BY <1>6, <1>7 DEF MarksRetry, hookHistory
    <2>2. PICK ok \in BOOLEAN : delivery' = [delivery EXCEPT ![q] = Marked(@, ok, retry[j].was[q])]
      BY <1>7 DEF MarksRetry
    <2>3. CASE q # r
      <3>1. delivery'[r] = delivery[r]
        BY <1>0, <2>2, <2>3
      <3>2. \A k \in RetryJobs : /\ Row1(k) <=> r \in retry[k].row
                                 /\ In1(k) => In(k) /\ retry'[k].was[r] = retry[k].was[r]
        BY <1>1, <2>1, <2>3
      <3> QED BY <2>1, <3>1, <3>2 DEF Settled
    <2>4. CASE q = r
      <3>1. /\ In(j) /\ \A k \in RetryJobs : In(k) => k = j
            /\ retry[j].was[r] = delivery[r].count /\ delivery[r].status = "RETRYING"
            /\ delivery[r].count <= RetryDelays /\ sends[r] = delivery[r].count + 1
        BY <2>1, <2>4 DEF Settled
      <3>2. delivery'[r] = Marked(delivery[r], ok, delivery[r].count)
        BY <1>0, <2>2, <2>4, <3>1
      <3>3. /\ delivery'[r].count = delivery[r].count + 1
            /\ delivery'[r].status = "RETRYING" => delivery[r].count < RetryDelays
        <4> DEFINE row == delivery[r]
                   was == delivery[r].count
        <4>1. row \in Row /\ was \in Nat /\ row.count = was
          BY <1>0
        <4>2. delivery'[r] = Marked(row, ok, was)
          BY <3>2
        <4> HIDE DEF row, was
        <4>3. /\ Marked(row, ok, was).count = was + 1
              /\ Marked(row, ok, was).status = "RETRYING" => was < RetryDelays
          BY <4>1, MarkedRow
        <4> QED BY <4>2, <4>3 DEF was
      <3>4. \A k \in RetryJobs : ~In1(k)
        BY <1>1, <2>1, <2>4, <3>1
      <3> QED BY <1>0, <2>1, <3>1, <3>3, <3>4, HookBounds DEF Settled
    <2> QED BY <2>3, <2>4
  <1>8. ASSUME NEW q \in Rows, RetrySkips(j, q) PROVE Settled(r, delivery', retry', sends')
    <2>1. /\ retry'[j].row = {} /\ retry'[j].todo = retry[j].todo \ {q}
          /\ q # r => retry'[j].was[r] = retry[j].was[r]
          /\ UNCHANGED <<delivery, sends>>
      BY <1>6, <1>8 DEF RetrySkips
    <2>2. r \notin retry[j].row
      BY <1>8 DEF RetrySkips, JobOK
    <2> QED BY <1>2, <2>1, <2>2
  <1> QED BY <1>3, <1>4, <1>5, <1>7, <1>8 DEF RetryStep

\* A job's step keeps the counts.
LEMMA JobKeepsCounts ==
    ASSUME WebhooksTypeOK, JobOK(retry, delivery), RowsOK, NEW j \in RetryJobs, RetryStep(j)
    PROVE  RowsOK'
  <1> SUFFICES ASSUME NEW r \in Rows, r \notin shared', r \notin untold'
               PROVE  RowOK(r, delivery', fanout', retry', sends')
    BY DEF RowsOK
  <1>1. /\ RowOK(r, delivery, fanout, retry, sends) /\ fanout' = fanout
        /\ Begun(delivery'[r]) <=> Begun(delivery[r])
        /\ Begun(delivery[r]) => delivery'[r] = delivery[r] /\ sends'[r] = sends[r]
    BY JobRows, JobIsMoved DEF RowsOK, JobMoves
  <1>2. CASE Begun(delivery[r])
    BY <1>1, <1>2 DEF RowOK, Begun
  <1>3. CASE ~Begun(delivery[r])
    BY <1>1, <1>3, JobCounts DEF RowOK, Begun
  <1> QED BY <1>2, <1>3

WebhooksInv ==
    /\ WebhooksTypeOK /\ HandlerOK(fanout, delivery) /\ JobOK(retry, delivery)
    /\ PendingIsHeld /\ GuardOK(fanout, delivery, together) /\ RowsOK

\* Nothing is announced yet.
LEMMA HooksBegin == WebhooksInit => WebhooksInv
  <1> SUFFICES ASSUME WebhooksInit PROVE WebhooksInv
    OBVIOUS
  <1>1. \A f \in Fanouts, w \in Hooks : <<f, w>> \in Rows
    BY RowIsPair
  <1>2. WebhooksTypeOK
    BY DEF WebhooksInit, WebhooksTypeOK, NoFanout, NoRetry, FanoutTask, RetryTask
  <1>3. HandlerOK(fanout, delivery) /\ GuardOK(fanout, delivery, together)
    BY <1>1 DEF WebhooksInit, HandlerOK, GuardOK, NoFanout
  <1>4. JobOK(retry, delivery)
    BY DEF WebhooksInit, JobOK, NoRetry
  <1>5. PendingIsHeld /\ RowsOK
    BY DEF WebhooksInit, PendingIsHeld, RowsOK, RowOK
  <1> QED BY <1>2, <1>3, <1>4, <1>5 DEF WebhooksInv

\* Every step keeps the inductive invariant.
LEMMA HooksKeep == WebhooksInv /\ [WebhooksNext]_webhooksVars => WebhooksInv'
  <1> SUFFICES ASSUME WebhooksInv, [WebhooksNext]_webhooksVars PROVE WebhooksInv'
    OBVIOUS
  <1>1. CASE UNCHANGED webhooksVars \/ \E w \in Hooks : Switches(w)
    <2>1. /\ UNCHANGED <<fanout, delivery, retry, hookFailures, sends, untold, shared, together>>
          /\ active' \subseteq Hooks
      BY <1>1 DEF webhooksVars, hookHistory, Switches, WebhooksInv, WebhooksTypeOK
    <2>2. WebhooksTypeOK'
      BY <2>1 DEF WebhooksInv, WebhooksTypeOK
    <2>3. PendingIsHeld' /\ RowsOK'
      BY <2>1 DEF WebhooksInv, PendingIsHeld, RowsOK
    <2> QED BY <2>1, <2>2, <2>3 DEF WebhooksInv
  <1>2. ASSUME NEW f \in Fanouts, FanoutStep(f) PROVE WebhooksInv'
    <2>1. WebhooksTypeOK'
      BY <1>2, HookTypesKeep DEF WebhooksInv, WebhooksNext
    <2>2. HandlerOK(fanout', delivery') /\ PendingIsHeld'
      BY <1>2, HandlersStay, HandlerHoldsPending DEF WebhooksInv
    <2>3. JobOK(retry', delivery') /\ GuardOK(fanout', delivery', together')
      BY <1>2, HandlerSparesJobs, GuardStays DEF WebhooksInv
    <2>4. RowsOK'
      BY <1>2, HandlerCounts DEF WebhooksInv
    <2> QED BY <2>1, <2>2, <2>3, <2>4 DEF WebhooksInv
  <1>3. ASSUME NEW j \in RetryJobs, RetryStep(j) PROVE WebhooksInv'
    <2>1. WebhooksTypeOK'
      BY <1>3, HookTypesKeep DEF WebhooksInv, WebhooksNext
    <2>2. /\ HandlerOK(fanout', delivery') /\ PendingIsHeld'
          /\ GuardOK(fanout', delivery', together')
      BY <1>3, JobSparesHandlers DEF WebhooksInv
    <2>3. JobOK(retry', delivery')
      BY <1>3, JobsStay DEF WebhooksInv
    <2>4. RowsOK'
      BY <1>3, JobKeepsCounts DEF WebhooksInv
    <2> QED BY <2>1, <2>2, <2>3, <2>4 DEF WebhooksInv
  <1> QED BY <1>1, <1>2, <1>3 DEF WebhooksNext

\* What the inductive invariant says of the requests: three at most, and counted.
LEMMA CountsAreTold == WebhooksInv => CountTellsRequests
  <1> SUFFICES ASSUME WebhooksInv, NEW r \in Rows \ (shared \cup untold)
               PROVE  /\ ~HookInFlight(r) => delivery[r].count = sends[r]
                      /\ sends[r] <= RetryDelays + 1
    BY DEF CountTellsRequests
  <1>1. /\ RowOK(r, delivery, fanout, retry, sends) /\ delivery[r] \in Row /\ sends[r] \in Nat
        /\ delivery[r].count \in Nat /\ RetryDelays \in Nat
    BY HookTypes, HookBounds DEF WebhooksInv, RowsOK, Row
  <1>2. CASE delivery[r].status = "ABSENT"
    BY <1>1, <1>2 DEF RowOK
  <1>3. CASE delivery[r].status = "PENDING"
    <2>1. HookInFlight(r)
      BY <1>3 DEF WebhooksInv, PendingIsHeld, HookInFlight
    <2> QED BY <1>1, <1>3, <2>1 DEF RowOK
  <1>4. CASE ~Begun(delivery[r])
    <2>1. Settled(r, delivery, retry, sends)
      BY <1>1, <1>4 DEF RowOK, Begun
    <2>2. CASE \E j \in RetryJobs : r \in retry[j].row
      <3>1. PICK j \in RetryJobs : r \in retry[j].row
        BY <2>2
      <3>2. retry[j].row = {r} /\ HookInFlight(r)
        BY <3>1 DEF WebhooksInv, JobOK, HookInFlight
      <3>3. delivery[r].status = "RETRYING" /\ sends[r] = delivery[r].count + 1
        BY <2>1, <3>1 DEF Settled
      <3> QED BY <1>1, <2>1, <3>2, <3>3 DEF Settled
    <2>3. CASE \A j \in RetryJobs : r \notin retry[j].row
      BY <1>1, <2>1, <2>3 DEF Settled
    <2> QED BY <2>2, <2>3
  <1> QED BY <1>2, <1>3, <1>4 DEF Begun

\* What it says of the rows of an endpoint: there is one at most.
LEMMA RowIsOne == WebhooksInv => OneRowForEndpoint
  <1> SUFFICES ASSUME WebhooksInv, NEW w \in Hooks \ together
               PROVE  Cardinality({f \in Fanouts : HasRow(f, w)}) <= 1
    BY DEF OneRowForEndpoint
  <1> DEFINE S == {f \in Fanouts : HasRow(f, w)}
  <1>1. \A f, g \in S : f = g
    BY DEF WebhooksInv, GuardOK, HasRow
  <1>2. S = {} \/ \E f : S = {f}
    BY <1>1
  <1> HIDE DEF S
  <1>3. ASSUME S = {} PROVE Cardinality(S) <= 1
    BY <1>3, FS_EmptySet
  <1>4. ASSUME NEW f, S = {f} PROVE Cardinality(S) <= 1
    <2>1. Cardinality({f}) = 1
      BY FS_Singleton
    <2> QED BY <1>4, <2>1
  <1>5. Cardinality(S) <= 1
    BY <1>2, <1>3, <1>4
  <1> QED BY <1>5 DEF S

\* However many endpoints, effects and retry jobs there are, and however often they fail:
\* a row that is PENDING is in its handler's hand unless an outcome was not written; an
\* endpoint has one row unless two handlers were past the guard at once; and a row's
\* attempt_count is the requests made for it, RETRY_DELAYS_SECONDS.length + 1 at most.
THEOREM DeliveriesKept == WebhooksSpec => []DeliveriesAreKept
<1>1. WebhooksInv => DeliveriesAreKept
  BY CountsAreTold, RowIsOne DEF WebhooksInv, DeliveriesAreKept
<1> QED BY <1>1, HooksBegin, HooksKeep, PTL DEF WebhooksSpec

-----------------------------------------------------------------------------
(* VerificationMail: the link that works was mailed, or will be.           *)

Mailing == [effect : {"none", "PENDING", "DONE", "FAILED"},
            at : {"idle", "sent", "recorded", "failing"}, attempts : 0 .. LinkAttempts]

\* An effect with attempts left is handled, and is there once its call is done, if there
\* is a provider; what a handling sent is in the provider's hands, and with it what a
\* finished effect sent.
MailingOK(c, call, task, taken) ==
    /\ task.effect # "none" <=> (call = "done" /\ provided)
    /\ task.effect = "none" => task.at = "idle" /\ task.attempts = 0
    /\ task.effect = "PENDING" => task.attempts < LinkAttempts
    /\ task.at # "idle" => task.effect = "PENDING"
    /\ task.at \in {"sent", "recorded"} => <<c, task.attempts>> \in taken
    /\ task.effect = "DONE" => \E n \in 0 .. LinkAttempts : <<c, n>> \in taken

\* The message shown was mailed; while none was recorded before an event was written, the
\* status and the events in hand are of that message.
ShownOK(message, events, of, cr, taken) ==
    /\ message \in taken \cup {NoMessage}
    /\ ~cr => of = message /\ \A e \in events : e[1] = message

LinkInv ==
    /\ VerificationMailTypeOK
    /\ \A c \in LinkCalls : MailingOK(c, linkCall[c], mailing[c], mailedLinks)
    /\ ~provided => mailedLinks = {}
    /\ ShownOK(shownMail.message, linkEvents, statusOf, linkCrossed, mailedLinks)
    /\ \A c \in link : linkCall[c] \notin {"idle", "asked"}

\* A tenant has one link at most.
LEMMA LinkIsOne ==
    ASSUME NEW c \in LinkCalls
    PROVE  {c} \in SUBSET LinkCalls /\ Cardinality({c}) <= 1
  <1>1. Cardinality({c}) = 1
    BY ONLY FS_Singleton
  <1> QED BY <1>1

\* No link, no call and no effect at first.
LEMMA LinksBegin == VerificationMailInit => LinkInv
  <1> SUFFICES ASSUME VerificationMailInit PROVE LinkInv
    OBVIOUS
  <1>1. 0 \in 0 .. LinkAttempts /\ 0 \in 0 .. LinkFailures /\ Cardinality({}) <= 1
    BY LinkBounds, FS_EmptySet
  <1>2. mailing \in [LinkCalls -> Mailing]
    BY <1>1 DEF VerificationMailInit, Mailing
  <1>3. VerificationMailTypeOK
    BY <1>1, <1>2 DEF VerificationMailInit, VerificationMailTypeOK, Mailing, LinkStates, NoMessage
  <1> QED BY <1>3 DEF VerificationMailInit, LinkInv, MailingOK, ShownOK

\* The types of the variables, one by one.
LEMMA LinkTypes ==
    ASSUME VerificationMailTypeOK
    PROVE  /\ mailing \in [LinkCalls -> Mailing] /\ mailedLinks \in SUBSET Messages
           /\ linkCall \in [LinkCalls -> {"idle", "asked", "stored", "done", "ended"}]
           /\ link \in SUBSET LinkCalls /\ linkFailures \in 0 .. LinkFailures
           /\ shownMail \in [message : Messages \cup {NoMessage}, status : LinkStates]
           /\ provided \in BOOLEAN /\ linkEvents \in SUBSET (Messages \X LinkReports)
           /\ statusOf \in Messages \cup {NoMessage} /\ linkCrossed \in BOOLEAN
  BY DEF VerificationMailTypeOK, Mailing

\* One more failure is within the bound.
LEMMA LinkFailureCounts ==
    ASSUME linkFailures \in 0 .. LinkFailures, LinkFailure
    PROVE  linkFailures' \in 0 .. LinkFailures
  BY LinkBounds DEF LinkFailure

\* A step of a call keeps the rest: it goes on, stores its own link, or queues its effect.
LEMMA CallsKeepLinks ==
    ASSUME LinkInv, NEW c \in LinkCalls,
           \/ AsksAgain(c) \/ StoresLink(c) \/ DemotesForLink(c) \/ QueuesLink(c) \/ LinkCallEnds(c)
    PROVE  LinkInv'
  <1> USE DEF LinkInv
  <1>0. /\ mailing \in [LinkCalls -> Mailing] /\ link \in SUBSET LinkCalls
        /\ linkCall \in [LinkCalls -> {"idle", "asked", "stored", "done", "ended"}]
        /\ {c} \in SUBSET LinkCalls /\ Cardinality({c}) <= 1 /\ 0 < LinkAttempts
    BY LinkTypes, LinkIsOne, LinkBounds
  <1>1. CASE AsksAgain(c) \/ StoresLink(c) \/ DemotesForLink(c) \/ LinkCallEnds(c)
    <2>1. /\ mailing' = mailing /\ UNCHANGED <<provided, shownMail, linkEvents, linkHistory>>
          /\ linkCall' \in [LinkCalls -> {"idle", "asked", "stored", "done", "ended"}]
          /\ \A d \in LinkCalls \ {c} : linkCall'[d] = linkCall[d]
          /\ linkCall[c] # "done" /\ linkCall'[c] # "done"
      BY <1>0, <1>1 DEF AsksAgain, StoresLink, DemotesForLink, LinkCallEnds
    <2>u. UNCHANGED <<mailedLinks, statusOf, linkCrossed>>
      BY <2>1 DEF linkHistory
    <2>2. /\ link' \in SUBSET LinkCalls /\ Cardinality(link') <= 1
          /\ verified' \in BOOLEAN /\ cooling' \in BOOLEAN
      BY <1>0, <1>1 DEF AsksAgain, StoresLink, DemotesForLink, LinkCallEnds, VerificationMailTypeOK
    <2>3. linkFailures' \in 0 .. LinkFailures
      BY <1>1, LinkTypes, LinkFailureCounts
         DEF AsksAgain, StoresLink, DemotesForLink, LinkCallEnds
    <2>4. VerificationMailTypeOK'
      BY <2>1, <2>u, <2>2, <2>3 DEF VerificationMailTypeOK, Messages
    <2>5. \A d \in LinkCalls : MailingOK(d, linkCall[d], mailing[d], mailedLinks)'
      BY <1>0, <2>1, <2>u DEF MailingOK
    <2>6. \A d \in link' : linkCall'[d] \notin {"idle", "asked"}
      BY <1>0, <1>1 DEF AsksAgain, StoresLink, DemotesForLink, LinkCallEnds
    <2> QED BY <2>1, <2>u, <2>4, <2>5, <2>6
  <1>2. CASE QueuesLink(c)
    <2>u. /\ UNCHANGED <<provided, link, verified, shownMail, cooling, linkFailures, linkEvents>>
          /\ UNCHANGED <<mailedLinks, statusOf, linkCrossed>>
      BY <1>2 DEF QueuesLink, linkHistory
    <2>1. /\ mailing' \in [LinkCalls -> Mailing]
          /\ \A d \in LinkCalls \ {c} : mailing'[d] = mailing[d] /\ linkCall'[d] = linkCall[d]
          /\ mailing'[c].effect = IF provided THEN "PENDING" ELSE mailing[c].effect
          /\ mailing'[c].at = mailing[c].at
          /\ mailing'[c].attempts = mailing[c].attempts
          /\ linkCall' \in [LinkCalls -> {"idle", "asked", "stored", "done", "ended"}]
          /\ linkCall[c] = "stored" /\ linkCall'[c] = "done"
      BY <1>0, <1>2 DEF QueuesLink, Mailing
    <2>2. VerificationMailTypeOK'
      BY <2>u, <2>1 DEF VerificationMailTypeOK, Mailing, Messages
    <2>3. \A d \in LinkCalls : MailingOK(d, linkCall[d], mailing[d], mailedLinks)'
      BY <1>0, <2>u, <2>1 DEF MailingOK
    <2>4. \A d \in link' : linkCall'[d] \notin {"idle", "asked"}
      BY <1>0, <2>u, <2>1
    <2> QED BY <2>u, <2>2, <2>3, <2>4
  <1> QED BY <1>1, <1>2

\* A handling goes on with its effect: what it sends the provider has, and its effect is
\* over when it is, or after its last attempt.
LEMMA HandlingsKeepLinks ==
    ASSUME LinkInv, NEW c \in LinkCalls,
           \/ SendsLink(c) \/ RecordsMessage(c) \/ LinkIsSent(c) \/ LinkWriteFails(c) \/ LinkFails(c)
    PROVE  LinkInv'
  <1> USE DEF LinkInv
  <1>0. /\ mailing \in [LinkCalls -> Mailing] /\ mailing[c] \in Mailing
        /\ MailingOK(c, linkCall[c], mailing[c], mailedLinks)
        /\ mailedLinks \in SUBSET Messages /\ <<c, mailing[c].attempts>> \in Messages
        /\ provided' = provided
    BY LinkTypes DEF Mailing, Messages, SendsLink, RecordsMessage, LinkIsSent, LinkWriteFails,
                     LinkFails
  <1>1. \E task \in Mailing :
           /\ mailing' = [mailing EXCEPT ![c] = task]
           /\ mailedLinks \subseteq mailedLinks' /\ mailedLinks' \in SUBSET Messages
           /\ linkFailures' \in 0 .. LinkFailures
           /\ MailingOK(c, linkCall[c], task, mailedLinks') /\ (~provided => mailedLinks' = {})
    <2>1. CASE SendsLink(c)
      <3>1. PICK place \in {"sent", "failing"} :
               /\ mailing' = [mailing EXCEPT ![c].at = place]
               /\ place = "sent" => <<c, mailing[c].attempts>> \in mailedLinks'
        BY <2>1 DEF SendsLink, MessageOf
      <3>2. /\ mailedLinks \subseteq mailedLinks' /\ mailedLinks' \in SUBSET Messages
            /\ linkFailures' \in 0 .. LinkFailures
        BY <1>0, <2>1, LinkTypes, LinkFailureCounts DEF SendsLink, MessageOf
      <3> DEFINE task == [mailing[c] EXCEPT !.at = place]
      <3>3. /\ task \in Mailing /\ mailing' = [mailing EXCEPT ![c] = task]
            /\ MailingOK(c, linkCall[c], task, mailedLinks') /\ provided
        BY <1>0, <2>1, <3>1 DEF SendsLink, MailingOK, Mailing
      <3> QED BY <3>2, <3>3
    <2>2. CASE RecordsMessage(c)
      <3> DEFINE task == [mailing[c] EXCEPT !.at = "recorded"]
      <3>1. /\ task \in Mailing /\ mailing' = [mailing EXCEPT ![c] = task]
            /\ MailingOK(c, linkCall[c], task, mailedLinks)
        BY <1>0, <2>2 DEF RecordsMessage, MailingOK, Mailing
      <3> QED BY <1>0, <2>2, <3>1, LinkTypes DEF RecordsMessage
    <2>3. CASE LinkIsSent(c)
      <3> DEFINE task == [mailing[c] EXCEPT !.at = "idle", !.effect = "DONE"]
      <3>1. /\ task \in Mailing /\ mailing' = [mailing EXCEPT ![c] = task]
            /\ MailingOK(c, linkCall[c], task, mailedLinks)
        BY <1>0, <2>3 DEF LinkIsSent, MailingOK, Mailing
      <3> QED BY <1>0, <2>3, <3>1, LinkTypes DEF LinkIsSent, linkHistory
    <2>4. CASE LinkWriteFails(c)
      <3> DEFINE task == [mailing[c] EXCEPT !.at = "failing"]
      <3>1. /\ task \in Mailing /\ mailing' = [mailing EXCEPT ![c] = task]
            /\ MailingOK(c, linkCall[c], task, mailedLinks)
        BY <1>0, <2>4 DEF LinkWriteFails, MailingOK, Mailing
      <3> QED BY <1>0, <2>4, <3>1, LinkTypes, LinkFailureCounts DEF LinkWriteFails, linkHistory
    <2>5. CASE LinkFails(c)
      <3> DEFINE n == mailing[c].attempts + 1
                 task == [effect |-> IF n >= LinkAttempts THEN "FAILED" ELSE "PENDING",
                          at |-> "idle", attempts |-> n]
      <3>1. n \in 0 .. LinkAttempts
        BY <1>0, <2>5, LinkBounds DEF LinkFails, MailingOK, Mailing
      <3>2. task \in Mailing /\ mailing' = [mailing EXCEPT ![c] = task]
        BY <1>0, <2>5, <3>1 DEF LinkFails, Mailing
      <3>3. MailingOK(c, linkCall[c], task, mailedLinks)
        BY <1>0, <2>5, <3>1, LinkBounds DEF LinkFails, MailingOK, Mailing
      <3> QED BY <1>0, <2>5, <3>2, <3>3, LinkTypes DEF LinkFails, linkHistory
    <2> QED BY <2>1, <2>2, <2>3, <2>4, <2>5
  <1>2. PICK task \in Mailing :
           /\ mailing' = [mailing EXCEPT ![c] = task]
           /\ mailedLinks \subseteq mailedLinks' /\ mailedLinks' \in SUBSET Messages
           /\ linkFailures' \in 0 .. LinkFailures
           /\ MailingOK(c, linkCall[c], task, mailedLinks') /\ (~provided => mailedLinks' = {})
    BY <1>1
  <1>3. /\ mailing' \in [LinkCalls -> Mailing] /\ mailing'[c] = task
        /\ \A d \in LinkCalls \ {c} : mailing'[d] = mailing[d]
    BY <1>0, <1>2
  <1>4. linkCall' = linkCall /\ link' = link /\ verified' = verified
    BY DEF SendsLink, RecordsMessage, LinkIsSent, LinkWriteFails, LinkFails
  <1>u. linkEvents' = linkEvents
    BY DEF SendsLink, RecordsMessage, LinkIsSent, LinkWriteFails, LinkFails
  <1>5. /\ shownMail' \in [message : Messages \cup {NoMessage}, status : LinkStates]
        /\ cooling' \in BOOLEAN /\ statusOf' \in Messages \cup {NoMessage} /\ linkCrossed' \in BOOLEAN
        /\ ShownOK(shownMail'.message, linkEvents', statusOf', linkCrossed', mailedLinks')
    <2>1. CASE RecordsMessage(c)
      <3>1. /\ shownMail' = [message |-> MessageOf(c), status |-> "SENT"] /\ cooling' = TRUE
            /\ statusOf' = MessageOf(c) /\ linkCrossed' = (linkCrossed \/ linkEvents # {})
            /\ MessageOf(c) \in Messages /\ MessageOf(c) \in mailedLinks
        BY <1>0, <2>1 DEF RecordsMessage, MessageOf, MailingOK
      <3>2. shownMail' \in [message : Messages \cup {NoMessage}, status : LinkStates]
        BY <3>1 DEF LinkStates
      <3> QED BY <1>2, <1>u, <3>1, <3>2, LinkTypes DEF ShownOK
    <2>2. CASE ~RecordsMessage(c)
      <3>1. UNCHANGED <<shownMail, cooling, statusOf, linkCrossed>>
        BY <2>2 DEF SendsLink, LinkIsSent, LinkWriteFails, LinkFails, linkHistory
      <3> QED BY <1>2, <1>u, <3>1, LinkTypes DEF ShownOK, VerificationMailTypeOK
    <2> QED BY <2>1, <2>2
  <1>6. VerificationMailTypeOK'
    BY <1>0, <1>2, <1>3, <1>4, <1>5, <1>u DEF VerificationMailTypeOK, Mailing, Messages
  <1>7. \A d \in LinkCalls : MailingOK(d, linkCall[d], mailing[d], mailedLinks)'
    BY <1>0, <1>2, <1>3, <1>4 DEF MailingOK
  <1> QED BY <1>0, <1>2, <1>4, <1>5, <1>6, <1>7

\* The tenant is verified, time passes, an event arrives.
LEMMA LinksKeep == LinkInv /\ [VerificationMailNext]_linkVars => LinkInv'
  <1> SUFFICES ASSUME LinkInv, [VerificationMailNext]_linkVars PROVE LinkInv'
    OBVIOUS
  <1> USE DEF LinkInv
  <1>k. ASSUME UNCHANGED <<provided, mailing, mailedLinks>>, VerificationMailTypeOK',
               ShownOK(shownMail'.message, linkEvents', statusOf', linkCrossed', mailedLinks),
               linkCall' = linkCall, link' \subseteq link
        PROVE  LinkInv'
    <2>1. \A d \in LinkCalls : MailingOK(d, linkCall[d], mailing[d], mailedLinks)'
      BY <1>k DEF MailingOK
    <2> QED BY <1>k, <2>1
  <1>1. CASE Verified \/ CoolsDown \/ UNCHANGED linkVars
    <2>1. /\ UNCHANGED <<provided, shownMail, linkCall, mailing, linkFailures, linkEvents>>
          /\ UNCHANGED <<mailedLinks, statusOf, linkCrossed>>
          /\ link' \in {link, {}} /\ verified' \in {verified, TRUE} /\ cooling' \in {cooling, FALSE}
      BY <1>1 DEF Verified, CoolsDown, linkVars, linkHistory
    <2>2. VerificationMailTypeOK'
      <3>1. /\ link' \in SUBSET LinkCalls /\ Cardinality(link') <= 1
            /\ verified' \in BOOLEAN /\ cooling' \in BOOLEAN
        <4>1. /\ link \in SUBSET LinkCalls /\ Cardinality(link) <= 1 /\ Cardinality({}) <= 1
              /\ verified \in BOOLEAN /\ cooling \in BOOLEAN
          BY FS_EmptySet DEF VerificationMailTypeOK
        <4> QED BY <2>1, <4>1
      <3> QED BY <2>1, <3>1 DEF VerificationMailTypeOK, Messages
    <2> QED BY <1>k, <2>1, <2>2
  <1>2. ASSUME NEW message \in Messages, NEW event \in LinkReports, HearsOfLink(message, event)
        PROVE  LinkInv'
    <2>1. /\ linkEvents' = linkEvents \cup {<<message, event>>} /\ shownMail.message = message
          /\ UNCHANGED <<provided, link, verified, shownMail, cooling, linkCall, mailing, linkFailures>>
          /\ UNCHANGED <<mailedLinks, statusOf, linkCrossed>>
      BY <1>2 DEF HearsOfLink, linkHistory
    <2>2. linkEvents' \in SUBSET (Messages \X LinkReports)
      BY <1>2, <2>1, LinkTypes
    <2>3. VerificationMailTypeOK'
      BY <2>1, <2>2 DEF VerificationMailTypeOK, Messages
    <2>4. ShownOK(shownMail'.message, linkEvents', statusOf', linkCrossed', mailedLinks)
      BY <2>1 DEF ShownOK
    <2> QED BY <1>k, <2>1, <2>3, <2>4
  <1>3. ASSUME NEW report \in linkEvents, WritesLinkEvent(report) PROVE LinkInv'
    <2>1. /\ shownMail' = [shownMail EXCEPT !.status = report[2]] /\ statusOf' = report[1]
          /\ linkEvents' = linkEvents \ {report}
          /\ UNCHANGED <<provided, link, verified, cooling, linkCall, mailing, linkFailures,
                         mailedLinks, linkCrossed>>
      BY <1>3 DEF WritesLinkEvent
    <2>2. report[1] \in Messages /\ report[2] \in LinkStates
      BY <1>3, LinkTypes DEF LinkStates
    <2>3. /\ shownMail' \in [message : Messages \cup {NoMessage}, status : LinkStates]
          /\ shownMail'.message = shownMail.message
          /\ linkEvents' \in SUBSET (Messages \X LinkReports)
      BY <2>1, <2>2, LinkTypes
    <2>4. VerificationMailTypeOK'
      BY <2>1, <2>2, <2>3 DEF VerificationMailTypeOK, Messages
    <2>5. ShownOK(shownMail'.message, linkEvents', statusOf', linkCrossed', mailedLinks)
      BY <1>3, <2>1, <2>3 DEF ShownOK
    <2> QED BY <1>k, <2>1, <2>4, <2>5
  <1> QED BY <1>1, <1>2, <1>3, CallsKeepLinks, HandlingsKeepLinks DEF VerificationMailNext

\* The invariant says what was promised of the link, and of the status shown of its mail.
LEMMA LinkIsUseful == LinkInv => LinkIsMailed /\ LinkStatusIsOfMessage
  <1>1. ASSUME LinkInv, NEW c \in link
        PROVE  \/ linkCall[c] \in {"stored", "ended"}
               \/ mailing[c].effect \in {"PENDING", "FAILED"}
               \/ \E n \in 0 .. LinkAttempts : <<c, n>> \in mailedLinks
               \/ ~provided /\ mailedLinks = {}
    <2>1. /\ c \in LinkCalls /\ linkCall[c] \in {"idle", "asked", "stored", "done", "ended"}
          /\ mailing[c] \in Mailing
      BY <1>1, LinkTypes DEF LinkInv
    <2> QED BY <1>1, <2>1 DEF LinkInv, MailingOK, Mailing
  <1> QED BY <1>1 DEF LinkInv, LinkIsMailed, LinkStatusIsOfMessage, ShownOK

-----------------------------------------------------------------------------
(* NotificationMail: the status tells what became of the mail.             *)

Dispatch == [effect : {"none", "PENDING", "DONE", "FAILED"},
             at : {"idle", "read", "rendered", "sent", "off", "skipped", "written",
                   "failing", "failed", "unsaid"},
             attempts : 0 .. MailAttempts]
Statuses == {"none", "NULL", "PENDING", "SENT", "SKIPPED", "FAILED"}
Creations == {"no", "created", "fanned", "marked", "done", "ended"}

\* The outcome that is written is of a mail that went out, or that was not to go out.
Told(status, mails) == \/ status = "SENT" /\ mails >= 1
                       \/ status = "SKIPPED" /\ (mandatory => ~mailEnabled)

\* An effect with attempts left is handled, and is there once the creation is done; a
\* status that is still PENDING had every attempt end unsaid; what a handling wrote is
\* what it did; and while nothing was cut off, one mail went out if it says so.
DispatchOK(call, status, task, mails, un, ended) ==
    /\ call # "done" <=> task.effect = "none"
    /\ task.effect = "none" => task.at = "idle" /\ task.attempts = 0
    /\ task.effect = "PENDING" => task.attempts < MailAttempts
    /\ task.at # "idle" => task.effect = "PENDING"
    /\ un <= task.attempts
    /\ status = "PENDING" =>
          call \in {"marked", "ended"} \/ (task.effect \in {"PENDING", "FAILED"} /\ un = task.attempts)
    /\ task.at = "failed" => status = "FAILED"
    /\ task.effect = "FAILED" /\ un = 0 => status = "FAILED"
    /\ task.at = "sent" => mails >= 1
    /\ task.at = "off" => ~mandatory
    /\ task.at = "skipped" => ~mailEnabled
    /\ task.at = "written" \/ task.effect = "DONE" => Told(status, mails)
    /\ ended = 0 => mails = IF \/ task.at = "sent"
                               \/ (task.at = "written" \/ task.effect = "DONE") /\ status = "SENT"
                            THEN 1 ELSE 0

NoticeMailInv ==
    /\ NotificationMailTypeOK
    /\ \A n \in Notifications :
          DispatchOK(creating[n], mailStatus[n], dispatch[n], sentMails[n], unsaid[n], crashes)

\* No notification at first.
LEMMA NoticesBegin == NotificationMailInit => NoticeMailInv
  <1> SUFFICES ASSUME NotificationMailInit PROVE NoticeMailInv
    OBVIOUS
  <1>1. 0 \in 0 .. MailAttempts /\ 0 \in 0 .. DispatchCrashes
    BY DispatchBounds
  <1>2. dispatch \in [Notifications -> Dispatch]
    BY <1>1 DEF NotificationMailInit, Dispatch
  <1>3. NotificationMailTypeOK
    BY <1>1, <1>2 DEF NotificationMailInit, NotificationMailTypeOK, Dispatch
  <1> QED BY <1>3 DEF NotificationMailInit, NoticeMailInv, DispatchOK

\* The types of the variables, one by one.
LEMMA NoticeMailTypes ==
    ASSUME NotificationMailTypeOK
    PROVE  /\ mailStatus \in [Notifications -> Statuses] /\ creating \in [Notifications -> Creations]
           /\ dispatch \in [Notifications -> Dispatch] /\ sentMails \in [Notifications -> Nat]
           /\ unsaid \in [Notifications -> 0 .. MailAttempts]
           /\ crashes \in 0 .. DispatchCrashes
           /\ mandatory \in BOOLEAN /\ wantsMail \in BOOLEAN /\ templates \subseteq Languages
           /\ mailEnabled \in BOOLEAN
  BY DEF NotificationMailTypeOK, Dispatch, Statuses, Creations

\* A failure is within the bound, and on record.
LEMMA CrashCounts ==
    ASSUME crashes \in 0 .. DispatchCrashes, Fails
    PROVE  crashes' \in 0 .. DispatchCrashes /\ crashes' # 0
  BY DispatchBounds DEF Fails

\* The steps of one notification write its own entries.
OneNotice(n) ==
    /\ UNCHANGED <<mandatory, wantsMail, templates, mailEnabled>>
    /\ crashes' \in 0 .. DispatchCrashes /\ (crashes' = 0 => crashes = 0)
    /\ \E call \in Creations, task \in Dispatch, status \in Statuses, mails \in Nat,
          un \in 0 .. MailAttempts :
          /\ creating' = [creating EXCEPT ![n] = call]
          /\ dispatch' = [dispatch EXCEPT ![n] = task]
          /\ mailStatus' = [mailStatus EXCEPT ![n] = status]
          /\ sentMails' = [sentMails EXCEPT ![n] = mails]
          /\ unsaid' = [unsaid EXCEPT ![n] = un]
          /\ DispatchOK(call, status, task, mails, un, crashes')

\* Such a step that leaves its own notification in order leaves them all so.
LEMMA OneNoticeKeeps ==
    ASSUME NoticeMailInv, NEW n \in Notifications, OneNotice(n)
    PROVE  NoticeMailInv'
  <1> USE DEF NoticeMailInv
  <1>1. PICK call \in Creations, task \in Dispatch, status \in Statuses, mails \in Nat,
             un \in 0 .. MailAttempts :
           /\ creating' = [creating EXCEPT ![n] = call]
           /\ dispatch' = [dispatch EXCEPT ![n] = task]
           /\ mailStatus' = [mailStatus EXCEPT ![n] = status]
           /\ sentMails' = [sentMails EXCEPT ![n] = mails]
           /\ unsaid' = [unsaid EXCEPT ![n] = un]
           /\ DispatchOK(call, status, task, mails, un, crashes')
    BY DEF OneNotice
  <1>2. /\ creating'[n] = call /\ dispatch'[n] = task /\ mailStatus'[n] = status
        /\ sentMails'[n] = mails /\ unsaid'[n] = un
        /\ \A m \in Notifications \ {n} :
              /\ creating'[m] = creating[m] /\ dispatch'[m] = dispatch[m]
              /\ mailStatus'[m] = mailStatus[m] /\ sentMails'[m] = sentMails[m]
              /\ unsaid'[m] = unsaid[m]
    BY <1>1, NoticeMailTypes
  <1>3. NotificationMailTypeOK'
    <2>1. /\ mailStatus' \in [Notifications -> Statuses] /\ creating' \in [Notifications -> Creations]
          /\ dispatch' \in [Notifications -> Dispatch] /\ sentMails' \in [Notifications -> Nat]
          /\ unsaid' \in [Notifications -> 0 .. MailAttempts]
      BY <1>1, NoticeMailTypes
    <2> QED BY <2>1, NoticeMailTypes DEF OneNotice, NotificationMailTypeOK, Dispatch, Statuses, Creations
  <1>4. \A m \in Notifications :
           DispatchOK(creating[m], mailStatus[m], dispatch[m], sentMails[m], unsaid[m], crashes)'
    <2> SUFFICES ASSUME NEW m \in Notifications
                 PROVE  DispatchOK(creating[m], mailStatus[m], dispatch[m], sentMails[m], unsaid[m],
                                   crashes)'
      OBVIOUS
    <2>0. mandatory' = mandatory /\ mailEnabled' = mailEnabled /\ (crashes' = 0 => crashes = 0)
      BY DEF OneNotice
    <2>1. CASE m = n
      BY <1>1, <1>2, <2>0, <2>1 DEF DispatchOK, Told
    <2>2. CASE m # n
      BY <1>2, <2>0, <2>2 DEF DispatchOK, Told
    <2> QED BY <2>1, <2>2
  <1> QED BY <1>3, <1>4

\* What is written of a notification, when nothing of it changes.
LEMMA NoticeStays ==
    ASSUME NoticeMailInv, NEW n \in Notifications
    PROVE  /\ DispatchOK(creating[n], mailStatus[n], dispatch[n], sentMails[n], unsaid[n], crashes)
           /\ creating[n] \in Creations /\ creating = [creating EXCEPT ![n] = creating[n]]
           /\ mailStatus[n] \in Statuses /\ mailStatus = [mailStatus EXCEPT ![n] = mailStatus[n]]
           /\ dispatch[n] \in Dispatch /\ dispatch = [dispatch EXCEPT ![n] = dispatch[n]]
           /\ sentMails[n] \in Nat /\ sentMails = [sentMails EXCEPT ![n] = sentMails[n]]
           /\ unsaid[n] \in 0 .. MailAttempts /\ unsaid = [unsaid EXCEPT ![n] = unsaid[n]]
           /\ crashes \in 0 .. DispatchCrashes /\ 0 < MailAttempts
  BY NoticeMailTypes, DispatchBounds DEF NoticeMailInv

\* The call that creates a notification goes on, or ends early.
LEMMA CreationsKeep ==
    ASSUME NoticeMailInv, NEW n \in Notifications,
           \/ InsertsRow(n) \/ QueuesFanOut(n) \/ MarksPending(n) \/ QueuesMail(n) \/ CreationEnds(n)
    PROVE  NoticeMailInv'
  <1>1. CASE InsertsRow(n) \/ QueuesFanOut(n) \/ MarksPending(n)
    <2>1. PICK call \in {"created", "fanned", "marked"}, status \in Statuses :
             /\ creating' = [creating EXCEPT ![n] = call] /\ creating[n] # "done"
             /\ mailStatus' = [mailStatus EXCEPT ![n] = status]
             /\ status = "PENDING" => call = "marked" \/ mailStatus[n] = "PENDING"
             /\ creating[n] \notin {"marked", "ended"}
      BY <1>1, NoticeStays DEF InsertsRow, QueuesFanOut, MarksPending, Statuses
    <2>2. UNCHANGED <<dispatch, sentMails, unsaid, crashes>>
      BY <1>1 DEF InsertsRow, QueuesFanOut, MarksPending
    <2>3. DispatchOK(call, status, dispatch[n], sentMails[n], unsaid[n], crashes')
      <3>1. dispatch[n].effect = "none" /\ dispatch[n].at = "idle"
        BY <2>1, NoticeStays DEF DispatchOK
      <3>2. status = "PENDING" => call = "marked"
        BY <2>1, <3>1, NoticeStays DEF DispatchOK
      <3>3. /\ dispatch[n].attempts = 0 /\ unsaid[n] <= dispatch[n].attempts
            /\ crashes = 0 => sentMails[n] = 0
        BY <3>1, NoticeStays DEF DispatchOK
      <3> QED BY <2>1, <2>2, <3>1, <3>2, <3>3 DEF DispatchOK
    <2>4. UNCHANGED <<mandatory, wantsMail, templates, mailEnabled>>
      BY <1>1 DEF InsertsRow, QueuesFanOut, MarksPending, mailSettings
    <2>5. OneNotice(n)
      <3>1. /\ dispatch' = [dispatch EXCEPT ![n] = dispatch[n]] /\ dispatch[n] \in Dispatch
            /\ sentMails' = [sentMails EXCEPT ![n] = sentMails[n]] /\ sentMails[n] \in Nat
            /\ unsaid' = [unsaid EXCEPT ![n] = unsaid[n]] /\ unsaid[n] \in 0 .. MailAttempts
            /\ crashes' = crashes /\ crashes \in 0 .. DispatchCrashes
        BY <2>2, NoticeStays
      <3>2. call \in Creations /\ status \in Statuses
        BY DEF Creations
      <3> QED BY <2>1, <2>3, <2>4, <3>1, <3>2 DEF OneNotice
    <2> QED BY <2>5, OneNoticeKeeps
  <1>2. CASE QueuesMail(n)
    <2> DEFINE task == [dispatch[n] EXCEPT !.effect = "PENDING"]
    <2>1. task \in Dispatch /\ dispatch' = [dispatch EXCEPT ![n] = task]
      BY <1>2, NoticeStays, NoticeMailTypes DEF QueuesMail, Dispatch, NoticeMailInv
    <2>2. DispatchOK("done", mailStatus[n], task, sentMails[n], unsaid[n], crashes)
      BY <1>2, NoticeStays DEF QueuesMail, DispatchOK, Told, Dispatch
    <2> HIDE DEF task
    <2>3. /\ UNCHANGED <<mandatory, wantsMail, templates, mailEnabled, mailStatus, sentMails, unsaid,
                         crashes>>
          /\ creating' = [creating EXCEPT ![n] = "done"]
      BY <1>2 DEF QueuesMail, mailSettings
    <2>4. OneNotice(n)
      BY <2>1, <2>2, <2>3, NoticeStays DEF OneNotice, Creations
    <2> QED BY <2>4, OneNoticeKeeps
  <1>3. CASE CreationEnds(n)
    <2>1. crashes' \in 0 .. DispatchCrashes /\ crashes' # 0
      BY <1>3, NoticeStays, CrashCounts DEF CreationEnds
    <2>2. DispatchOK("ended", mailStatus[n], dispatch[n], sentMails[n], unsaid[n], crashes')
      BY <1>3, <2>1, NoticeStays DEF CreationEnds, DispatchOK, Told
    <2>3. /\ creating' = [creating EXCEPT ![n] = "ended"]
          /\ UNCHANGED <<mailStatus, dispatch, mandatory, wantsMail, templates, mailEnabled, sentMails,
                         unsaid>>
      BY <1>3 DEF CreationEnds, mailSettings
    <2>4. OneNotice(n)
      BY <2>1, <2>2, <2>3, NoticeStays DEF OneNotice, Creations
    <2> QED BY <2>4, OneNoticeKeeps
  <1> QED BY <1>1, <1>2, <1>3

\* A handling that only goes on, fails or is cut off leaves the status and the mails.
LEMMA HandlingsMove ==
    ASSUME NoticeMailInv, NEW n \in Notifications,
           \/ ReadsPreference(n) \/ LookupFails(n) \/ StatementFails(n) \/ StatusFails(n)
           \/ HandlerCrashes(n) \/ \E language \in Languages : Renders(n, language)
    PROVE  NoticeMailInv'
  <1>1. PICK place \in {"read", "off", "rendered", "failing", "unsaid", "idle"} :
           /\ dispatch' = [dispatch EXCEPT ![n].at = place]
           /\ place = "off" => ~mandatory
           /\ \/ Fails
              \/ crashes' = crashes /\ dispatch[n].at \notin {"sent", "written"}
    BY DEF ReadsPreference, LookupFails, StatementFails, StatusFails, HandlerCrashes, Renders,
           MovesDispatch
  <1>2. dispatch[n].effect = "PENDING"
    BY NoticeStays DEF DispatchOK, ReadsPreference, LookupFails, StatementFails, StatusFails,
                       HandlerCrashes, Renders
  <1>3. UNCHANGED <<mailStatus, creating, mandatory, wantsMail, templates, mailEnabled, sentMails, unsaid>>
    BY DEF ReadsPreference, LookupFails, StatementFails, StatusFails, HandlerCrashes, Renders,
           mailSettings
  <1>4. /\ crashes' \in 0 .. DispatchCrashes
        /\ crashes' # 0 \/ (crashes' = crashes /\ dispatch[n].at \notin {"sent", "written"})
    BY <1>1, NoticeStays, CrashCounts
  <1> DEFINE task == [dispatch[n] EXCEPT !.at = place]
  <1>5. /\ task \in Dispatch /\ dispatch' = [dispatch EXCEPT ![n] = task]
        /\ task.at = place /\ task.effect = "PENDING" /\ task.attempts = dispatch[n].attempts
    BY <1>1, <1>2, NoticeStays, NoticeMailTypes DEF Dispatch, NoticeMailInv
  <1> HIDE DEF task
  <1>6. DispatchOK(creating[n], mailStatus[n], task, sentMails[n], unsaid[n], crashes')
    BY <1>1, <1>2, <1>4, <1>5, NoticeStays DEF DispatchOK, Told
  <1>7. OneNotice(n)
    BY <1>3, <1>4, <1>5, <1>6, NoticeStays DEF OneNotice
  <1> QED BY <1>7, OneNoticeKeeps

\* The handling sends, writes what it did, and ends the effect or counts its attempt.
LEMMA DispatchesKeep ==
    ASSUME NoticeMailInv, NEW n \in Notifications,
           \/ SendsMail(n) \/ WritesOutcome(n) \/ CompletesMail(n) \/ WritesFailure(n)
           \/ CountsAttempt(n)
    PROVE  NoticeMailInv'
  <1>0. /\ UNCHANGED <<creating, mandatory, wantsMail, templates, mailEnabled, crashes>>
        /\ dispatch \in [Notifications -> Dispatch]
    BY NoticeMailTypes DEF SendsMail, WritesOutcome, CompletesMail, WritesFailure, CountsAttempt,
                           mailSettings, NoticeMailInv
  <1>1. CASE SendsMail(n)
    <2>1. PICK place \in {"sent", "failing", "skipped"} :
             /\ dispatch' = [dispatch EXCEPT ![n].at = place]
             /\ sentMails' = [sentMails EXCEPT ![n] =
                                 IF place = "sent" THEN sentMails[n] + 1 ELSE sentMails[n]]
             /\ place = "skipped" => ~mailEnabled
      <3>1. CASE mailEnabled /\ MovesDispatch(n, "sent")
                 /\ sentMails' = [sentMails EXCEPT ![n] = @ + 1]
        BY <3>1 DEF MovesDispatch
      <3>2. CASE mailEnabled /\ MovesDispatch(n, "failing") /\ UNCHANGED sentMails
        BY <3>2, NoticeStays DEF MovesDispatch
      <3>3. CASE ~mailEnabled /\ MovesDispatch(n, "skipped") /\ UNCHANGED sentMails
        BY <3>3, NoticeStays DEF MovesDispatch
      <3> QED BY <1>1, <3>1, <3>2, <3>3 DEF SendsMail
    <2> DEFINE task == [dispatch[n] EXCEPT !.at = place]
               mails == IF place = "sent" THEN sentMails[n] + 1 ELSE sentMails[n]
    <2>2. task \in Dispatch /\ dispatch' = [dispatch EXCEPT ![n] = task] /\ mails \in Nat
      BY <1>0, <2>1, NoticeStays DEF Dispatch
    <2>3. DispatchOK(creating[n], mailStatus[n], task, mails, unsaid[n], crashes)
      BY <1>1, <2>1, NoticeStays DEF SendsMail, DispatchOK, Told, Dispatch
    <2>4. sentMails' = [sentMails EXCEPT ![n] = mails] /\ UNCHANGED <<mailStatus, unsaid>>
      BY <1>1, <2>1 DEF SendsMail
    <2> HIDE DEF task, mails
    <2>5. OneNotice(n)
      BY <1>0, <2>2, <2>3, <2>4, NoticeStays DEF OneNotice
    <2> QED BY <2>5, OneNoticeKeeps
  <1>2. CASE WritesOutcome(n)
    <2> DEFINE task == [dispatch[n] EXCEPT !.at = "written"]
               status == IF dispatch[n].at = "sent" THEN "SENT" ELSE "SKIPPED"
    <2>1. task \in Dispatch /\ dispatch' = [dispatch EXCEPT ![n] = task]
      BY <1>0, <1>2, NoticeStays DEF WritesOutcome, MovesDispatch, Dispatch
    <2>2. DispatchOK(creating[n], status, task, sentMails[n], unsaid[n], crashes)
      BY <1>2, NoticeStays DEF WritesOutcome, DispatchOK, Told, Dispatch
    <2>3. /\ mailStatus' = [mailStatus EXCEPT ![n] = status] /\ status \in Statuses
          /\ UNCHANGED <<sentMails, unsaid>>
      BY <1>2 DEF WritesOutcome, Statuses
    <2> HIDE DEF task, status
    <2>4. OneNotice(n)
      BY <1>0, <2>1, <2>2, <2>3, NoticeStays DEF OneNotice
    <2> QED BY <2>4, OneNoticeKeeps
  <1>3. CASE CompletesMail(n)
    <2> DEFINE task == [dispatch[n] EXCEPT !.at = "idle", !.effect = "DONE"]
    <2>1. task \in Dispatch /\ dispatch' = [dispatch EXCEPT ![n] = task]
      BY <1>0, <1>3, NoticeStays DEF CompletesMail, Dispatch
    <2>2. DispatchOK(creating[n], mailStatus[n], task, sentMails[n], unsaid[n], crashes)
      BY <1>3, NoticeStays DEF CompletesMail, DispatchOK, Told, Dispatch
    <2>3. UNCHANGED <<mailStatus, sentMails, unsaid>>
      BY <1>3 DEF CompletesMail
    <2> HIDE DEF task
    <2>4. OneNotice(n)
      BY <1>0, <2>1, <2>2, <2>3, NoticeStays DEF OneNotice
    <2> QED BY <2>4, OneNoticeKeeps
  <1>4. CASE WritesFailure(n)
    <2> DEFINE task == [dispatch[n] EXCEPT !.at = "failed"]
    <2>1. task \in Dispatch /\ dispatch' = [dispatch EXCEPT ![n] = task]
      BY <1>0, <1>4, NoticeStays DEF WritesFailure, MovesDispatch, Dispatch
    <2>2. DispatchOK(creating[n], "FAILED", task, sentMails[n], unsaid[n], crashes)
      BY <1>4, NoticeStays DEF WritesFailure, DispatchOK, Told, Dispatch
    <2>3. /\ mailStatus' = [mailStatus EXCEPT ![n] = "FAILED"] /\ "FAILED" \in Statuses
          /\ UNCHANGED <<sentMails, unsaid>>
      BY <1>4 DEF WritesFailure, Statuses
    <2> HIDE DEF task
    <2>4. OneNotice(n)
      BY <1>0, <2>1, <2>2, <2>3, NoticeStays DEF OneNotice
    <2> QED BY <2>4, OneNoticeKeeps
  <1>5. CASE CountsAttempt(n)
    <2> DEFINE k == dispatch[n].attempts + 1
               u == IF dispatch[n].at = "unsaid" THEN unsaid[n] + 1 ELSE unsaid[n]
               task == [effect |-> IF k >= MailAttempts THEN "FAILED" ELSE "PENDING",
                        at |-> "idle", attempts |-> k]
    <2>1. /\ dispatch[n].at \in {"failed", "unsaid"} /\ dispatch[n].effect = "PENDING"
          /\ dispatch[n].attempts \in 0 .. MailAttempts /\ dispatch[n].attempts < MailAttempts
          /\ unsaid[n] \in 0 .. MailAttempts /\ unsaid[n] <= dispatch[n].attempts
      BY <1>5, NoticeStays DEF CountsAttempt, DispatchOK, Dispatch
    <2>2. k \in 0 .. MailAttempts /\ u \in 0 .. MailAttempts /\ u <= k
      BY <2>1, DispatchBounds
    <2>3. task \in Dispatch /\ dispatch' = [dispatch EXCEPT ![n] = task]
      BY <1>0, <1>5, <2>2 DEF CountsAttempt, Dispatch
    <2>4. /\ unsaid' = [unsaid EXCEPT ![n] = u] /\ UNCHANGED <<mailStatus, sentMails>>
      BY <1>5 DEF CountsAttempt
    <2>5. DispatchOK(creating[n], mailStatus[n], task, sentMails[n], u, crashes)
      BY <2>1, <2>2, NoticeStays, DispatchBounds DEF DispatchOK, Told
    <2> HIDE DEF task, u
    <2>6. OneNotice(n)
      BY <1>0, <2>2, <2>3, <2>4, <2>5, NoticeStays DEF OneNotice
    <2> QED BY <2>6, OneNoticeKeeps
  <1> QED BY <1>1, <1>2, <1>3, <1>4, <1>5

\* The tenant's preference and the templates may change meanwhile.
LEMMA NoticesKeep == NoticeMailInv /\ [NotificationMailNext]_mailVars => NoticeMailInv'
  <1> SUFFICES ASSUME NoticeMailInv, [NotificationMailNext]_mailVars PROVE NoticeMailInv'
    OBVIOUS
  <1>1. CASE SetsPreference
    BY <1>1 DEF SetsPreference, NoticeMailInv, NotificationMailTypeOK, DispatchOK, Told
  <1>2. ASSUME NEW language \in Languages, PublishesTemplate(language) PROVE NoticeMailInv'
    <2>1. templates' \subseteq Languages
      BY <1>2, NoticeMailTypes DEF PublishesTemplate, NoticeMailInv
    <2> QED BY <1>2, <2>1 DEF PublishesTemplate, NoticeMailInv, NotificationMailTypeOK, DispatchOK, Told
  <1>3. CASE UNCHANGED mailVars
    BY <1>3 DEF mailVars, NoticeMailInv, NotificationMailTypeOK, DispatchOK, Told
  <1> QED BY <1>1, <1>2, <1>3, CreationsKeep, HandlingsMove, DispatchesKeep DEF NotificationMailNext

\* The invariant says what was promised of the status.
LEMMA NoticeStatusIsTold == NoticeMailInv => StatusTellsMail
  <1> SUFFICES ASSUME NoticeMailInv PROVE StatusTellsMail
    OBVIOUS
  <1>1. \A n \in Notifications :
           /\ DispatchOK(creating[n], mailStatus[n], dispatch[n], sentMails[n], unsaid[n], crashes)
           /\ dispatch[n] \in Dispatch
    BY NoticeStays
  <1>2. \A n \in Notifications : dispatch[n].effect = "DONE" => dispatch[n].at = "idle"
    BY <1>1 DEF DispatchOK
  <1> QED BY <1>1, <1>2 DEF DispatchOK, Told, StatusTellsMail

-----------------------------------------------------------------------------
(* Counting what a tenant holds.                                           *)

\* Some of a finite set is no more than it.
LEMMA NoMore ==
    ASSUME NEW S, IsFiniteSet(S), NEW T, T \subseteq S
    PROVE  IsFiniteSet(T) /\ Cardinality(T) \in Nat /\ Cardinality(T) <= Cardinality(S)
  BY FS_Subset, FS_CardinalityType

\* Some of a finite set and one more is one more at most.
LEMMA OneMore ==
    ASSUME NEW S, IsFiniteSet(S), NEW x, NEW T, T \subseteq S \cup {x}
    PROVE  IsFiniteSet(T) /\ Cardinality(T) \in Nat /\ Cardinality(T) <= Cardinality(S) + 1
  <1>1. /\ IsFiniteSet(S \cup {x}) /\ Cardinality(S \cup {x}) <= Cardinality(S) + 1
        /\ Cardinality(S) \in Nat /\ Cardinality(S \cup {x}) \in Nat
    BY FS_AddElement, FS_CardinalityType
  <1>2. /\ IsFiniteSet(T) /\ Cardinality(T) <= Cardinality(S \cup {x}) /\ Cardinality(T) \in Nat
    BY <1>1, NoMore
  <1> QED BY <1>1, <1>2

\* One for another is no more.
LEMMA OneForAnother ==
    ASSUME NEW S, IsFiniteSet(S), NEW y \in S, NEW x, NEW T, T \subseteq (S \ {y}) \cup {x}
    PROVE  IsFiniteSet(T) /\ Cardinality(T) \in Nat /\ Cardinality(T) <= Cardinality(S)
  <1>1. /\ IsFiniteSet(S \ {y}) /\ Cardinality(S \ {y}) = Cardinality(S) - 1
        /\ Cardinality(S) \in Nat
    BY FS_RemoveElement, FS_CardinalityType
  <1>2. /\ IsFiniteSet(T) /\ Cardinality(T) \in Nat /\ Cardinality(T) <= Cardinality(S \ {y}) + 1
    BY <1>1, OneMore
  <1> QED BY <1>1, <1>2

-----------------------------------------------------------------------------
(* Endpoints: within the plan, and within the reserved ones.               *)

Limit(reserved) == IF reserved THEN MaxReserved ELSE allowed

\* Nothing has happened that may pass the limit.
Orderly(reserved) ==
    "overlap" \notin exceeded /\ "reactivated" \notin exceeded /\ (reserved \/ "plan" \notin exceeded)

\* What a call is to add has its place: below the limit, or that of the endpoint it replaces.
HasPlace(call, reserved) ==
    call.reserved = reserved =>
        /\ call.at = "creating" => BelowLimit(reserved)
        /\ call.at = "replacing" =>
              \/ BelowLimit(reserved)
              \/ \E e \in Endpoints : call.endpoint = {e} /\ e \in ActiveEndpoints(reserved)

EndpointsInv ==
    /\ EndpointsTypeOK
    /\ \A e \in Endpoints : endpoint[e].active => endpoint[e].exists
    /\ \A reserved \in BOOLEAN : IsFiniteSet(ActiveEndpoints(reserved))
    /\ "overlap" \notin exceeded =>
          \A c, d \in EndpointCalls : endpointCall[c].at # "idle" /\ endpointCall[d].at # "idle" => c = d
    /\ \A c \in EndpointCalls : endpointCall[c].at \in {"replacing", "toggling"} =>
          \E e \in Endpoints : endpointCall[c].endpoint = {e} /\ endpoint[e].exists
    /\ \A reserved \in BOOLEAN : Orderly(reserved) =>
          /\ Cardinality(ActiveEndpoints(reserved)) <= Limit(reserved)
          /\ \A c \in EndpointCalls : HasPlace(endpointCall[c], reserved)

EndpointCall == [at : {"idle", "creating", "replacing", "toggling"}, endpoint : SUBSET Endpoints,
                 reserved : BOOLEAN]
Endpoint == [exists : BOOLEAN, active : BOOLEAN, reserved : BOOLEAN]

\* The types of the variables, one by one.
LEMMA EndpointTypes ==
    ASSUME EndpointsTypeOK
    PROVE  /\ endpoint \in [Endpoints -> Endpoint] /\ endpointCall \in [EndpointCalls -> EndpointCall]
           /\ allowed \in 1 .. 2 /\ isActive \in BOOLEAN /\ endpointCalls \in 0 .. MaxEndpointCalls
           /\ exceeded \subseteq {"overlap", "reactivated", "plan"}
           /\ \A reserved \in BOOLEAN : Limit(reserved) \in Nat
           /\ NoEndpointCall \in EndpointCall
  BY EndpointBounds DEF EndpointsTypeOK, Endpoint, EndpointCall, Limit, NoEndpointCall

\* A tenant starts with none.
LEMMA EndpointsBegin == EndpointsInit => EndpointsInv
  <1> SUFFICES ASSUME EndpointsInit PROVE EndpointsInv
    OBVIOUS
  <1>1. EndpointsTypeOK
    BY EndpointBounds DEF EndpointsInit, EndpointsTypeOK, NoEndpointCall
  <1>2. \A reserved \in BOOLEAN : ActiveEndpoints(reserved) = {}
    BY DEF EndpointsInit, ActiveEndpoints
  <1>3. \A reserved \in BOOLEAN : IsFiniteSet(ActiveEndpoints(reserved))
                                  /\ Cardinality(ActiveEndpoints(reserved)) = 0
    BY <1>2, FS_EmptySet
  <1>4. \A reserved \in BOOLEAN : Cardinality(ActiveEndpoints(reserved)) <= Limit(reserved)
    BY <1>1, <1>3, EndpointTypes
  <1> QED BY <1>1, <1>3, <1>4 DEF EndpointsInit, EndpointsInv, HasPlace, NoEndpointCall

\* A call begins, with the place it looked for; it is alone, or the overlap is on record.
LEMMA CallBegins ==
    ASSUME EndpointsInv, NEW c \in EndpointCalls, NEW call \in EndpointCall, Calls(c, call),
           call.at \in {"replacing", "toggling"} =>
               \E e \in Endpoints : call.endpoint = {e} /\ endpoint[e].exists,
           \A reserved \in BOOLEAN : HasPlace(call, reserved)
    PROVE  EndpointsInv'
  <1> USE DEF EndpointsInv
  <1>1. /\ endpointCall' \in [EndpointCalls -> EndpointCall] /\ endpointCall'[c] = call
        /\ \A d \in EndpointCalls \ {c} : endpointCall'[d] = endpointCall[d]
        /\ endpoint' = endpoint /\ allowed' = allowed
    BY EndpointTypes DEF Calls
  <1>2. /\ exceeded \subseteq exceeded' /\ exceeded' \subseteq {"overlap", "reactivated", "plan"}
        /\ "overlap" \notin exceeded' => \A d \in EndpointCalls : endpointCall[d].at = "idle"
    BY EndpointTypes DEF Calls
  <1>3. endpointCalls' \in 0 .. MaxEndpointCalls
    BY EndpointTypes, EndpointBounds DEF Calls
  <1>4. EndpointsTypeOK'
    BY <1>1, <1>2, <1>3 DEF Calls, EndpointsTypeOK, EndpointCall
  <1>5. \A reserved \in BOOLEAN : ActiveEndpoints(reserved)' = ActiveEndpoints(reserved)
    BY <1>1 DEF ActiveEndpoints
  <1>6. \A reserved \in BOOLEAN : /\ BelowLimit(reserved)' <=> BelowLimit(reserved)
                                  /\ Limit(reserved)' = Limit(reserved)
    BY <1>1, <1>5 DEF BelowLimit, Limit
  <1>7. ASSUME NEW reserved \in BOOLEAN, Orderly(reserved)'
        PROVE  /\ Cardinality(ActiveEndpoints(reserved)') <= Limit(reserved)'
               /\ \A d \in EndpointCalls : HasPlace(endpointCall[d], reserved)'
    <2>1. Orderly(reserved)
      BY <1>2, <1>7 DEF Orderly
    <2>2. \A d \in EndpointCalls : HasPlace(endpointCall'[d], reserved)
      BY <1>1, <2>1
    <2> QED BY <1>5, <1>6, <2>1, <2>2 DEF HasPlace
  <1>8. \A d \in EndpointCalls : endpointCall'[d].at \in {"replacing", "toggling"} =>
            \E e \in Endpoints : endpointCall'[d].endpoint = {e} /\ endpoint'[e].exists
    BY <1>1
  <1>9. "overlap" \notin exceeded' =>
          \A d, b \in EndpointCalls :
             endpointCall'[d].at # "idle" /\ endpointCall'[b].at # "idle" => d = b
    BY <1>1, <1>2
  <1> QED BY <1>1, <1>4, <1>5, <1>7, <1>8, <1>9

\* A call is over: what it wrote is within the limit, or what passed it is on record.
LEMMA CallIsOver ==
    ASSUME EndpointsInv, NEW c \in EndpointCalls, endpointCall[c].at # "idle", Ends(c),
           endpoint' \in [Endpoints -> Endpoint],
           \A e \in Endpoints : endpoint'[e].active => endpoint'[e].exists,
           \A e \in Endpoints : endpoint[e].exists => endpoint'[e].exists,
           \A reserved \in BOOLEAN :
              /\ IsFiniteSet(ActiveEndpoints(reserved)')
              /\ Orderly(reserved)' =>
                    Cardinality(ActiveEndpoints(reserved)') <= Limit(reserved),
           exceeded \subseteq exceeded', exceeded' \subseteq {"overlap", "reactivated", "plan"},
           UNCHANGED <<allowed, isActive, endpointCalls>>
    PROVE  EndpointsInv'
  <1> USE DEF EndpointsInv
  <1>1. /\ endpointCall' \in [EndpointCalls -> EndpointCall] /\ endpointCall'[c].at = "idle"
        /\ \A d \in EndpointCalls \ {c} : endpointCall'[d] = endpointCall[d]
    BY EndpointTypes DEF Ends, NoEndpointCall
  <1>2. EndpointsTypeOK'
    BY <1>1 DEF EndpointsTypeOK, EndpointCall, Endpoint
  <1>3. "overlap" \notin exceeded' => \A d \in EndpointCalls : endpointCall'[d].at = "idle"
    BY <1>1
  <1>4. \A reserved \in BOOLEAN : Limit(reserved)' = Limit(reserved)
    BY DEF Limit
  <1>5. ASSUME NEW reserved \in BOOLEAN, Orderly(reserved)'
        PROVE  \A d \in EndpointCalls : HasPlace(endpointCall[d], reserved)'
    BY <1>3, <1>5 DEF Orderly, HasPlace
  <1>6. ASSUME NEW d \in EndpointCalls, endpointCall'[d].at \in {"replacing", "toggling"}
        PROVE  \E e \in Endpoints : endpointCall'[d].endpoint = {e} /\ endpoint'[e].exists
    <2>1. d # c /\ endpointCall'[d] = endpointCall[d]
      BY <1>1, <1>6
    <2> QED BY <1>6, <2>1
  <1> QED BY <1>2, <1>3, <1>4, <1>5, <1>6

\* Calls that begin: each has looked for its place.
LEMMA CallsBegin ==
    ASSUME EndpointsInv, NEW c \in EndpointCalls,
           \/ AsksToCreate(c) \/ \E reserved \in BOOLEAN : AdminAsksToCreate(c, reserved)
           \/ \E reserved \in BOOLEAN, e \in Endpoints : AdminAsksToReplace(c, e, reserved)
           \/ \E e \in Endpoints : AsksToToggle(c, e)
    PROVE  EndpointsInv'
  <1>1. ASSUME AsksToCreate(c) PROVE EndpointsInv'
    <2> DEFINE call == [NoEndpointCall EXCEPT !.at = "creating"]
    <2>1. call \in EndpointCall /\ call.at = "creating" /\ call.reserved = FALSE
      BY DEF NoEndpointCall, EndpointCall
    <2>2. Calls(c, call) /\ \A r \in BOOLEAN : HasPlace(call, r)
      BY <1>1, <2>1 DEF AsksToCreate, HasPlace
    <2> HIDE DEF call
    <2> QED BY <2>1, <2>2, CallBegins
  <1>2. ASSUME NEW reserved \in BOOLEAN, AdminAsksToCreate(c, reserved) PROVE EndpointsInv'
    <2> DEFINE call == [NoEndpointCall EXCEPT !.at = "creating", !.reserved = reserved]
    <2>1. call \in EndpointCall /\ call.at = "creating" /\ call.reserved = reserved
      BY DEF NoEndpointCall, EndpointCall
    <2>2. Calls(c, call) /\ \A r \in BOOLEAN : HasPlace(call, r)
      BY <1>2, <2>1 DEF AdminAsksToCreate, HasPlace
    <2> HIDE DEF call
    <2> QED BY <2>1, <2>2, CallBegins
  <1>3. ASSUME NEW reserved \in BOOLEAN, NEW e \in Endpoints, AdminAsksToReplace(c, e, reserved)
        PROVE  EndpointsInv'
    <2> DEFINE call == [at |-> "replacing", endpoint |-> {e}, reserved |-> reserved]
    <2>1. Calls(c, call) /\ Replaceable(e, reserved)
      BY <1>3 DEF AdminAsksToReplace
    <2>2. endpoint[e].active /\ endpoint[e].exists
      BY <2>1 DEF Replaceable, EndpointsInv
    <2>3. /\ call \in EndpointCall /\ call.at # "creating"
          /\ \E d \in Endpoints : call.endpoint = {d} /\ endpoint[d].exists
          /\ \A r \in BOOLEAN : HasPlace(call, r)
      BY <2>1, <2>2 DEF EndpointCall, HasPlace, Replaceable, ActiveEndpoints
    <2> HIDE DEF call
    <2> QED BY <2>1, <2>3, CallBegins
  <1>4. ASSUME NEW e \in Endpoints, AsksToToggle(c, e) PROVE EndpointsInv'
    <2> DEFINE call == [NoEndpointCall EXCEPT !.at = "toggling", !.endpoint = {e}]
    <2>0. call \in EndpointCall /\ call.at = "toggling" /\ call.endpoint = {e}
      BY DEF NoEndpointCall, EndpointCall
    <2>1. Calls(c, call) /\ endpoint[e].exists
      BY <1>4 DEF AsksToToggle
    <2>2. /\ \E d \in Endpoints : call.endpoint = {d} /\ endpoint[d].exists
          /\ \A r \in BOOLEAN : HasPlace(call, r)
      BY <2>0, <2>1 DEF HasPlace
    <2> HIDE DEF call
    <2> QED BY <2>0, <2>1, <2>2, CallBegins
  <1> QED BY <1>1, <1>2, <1>3, <1>4

\* A new endpoint takes the place its call has looked for.
LEMMA EndpointCreated ==
    ASSUME EndpointsInv, NEW c \in EndpointCalls, NEW e \in Endpoints, CreatesEndpoint(c, e)
    PROVE  EndpointsInv'
  <1> USE DEF EndpointsInv
  <1>1. /\ endpoint \in [Endpoints -> Endpoint] /\ endpointCall[c] \in EndpointCall
        /\ endpointCall[c].reserved \in BOOLEAN /\ endpointCall[c].at = "creating"
        /\ ~endpoint[e].exists /\ ~endpoint[e].active
    BY EndpointTypes DEF CreatesEndpoint, EndpointCall, Endpoint
  <1>2. /\ endpoint' \in [Endpoints -> Endpoint]
        /\ endpoint'[e] = [exists |-> TRUE, active |-> TRUE, reserved |-> endpointCall[c].reserved]
        /\ \A f \in Endpoints \ {e} : endpoint'[f] = endpoint[f]
    BY <1>1 DEF CreatesEndpoint, Inserted, Endpoint
  <1>3. ASSUME NEW reserved \in BOOLEAN
        PROVE  /\ IsFiniteSet(ActiveEndpoints(reserved)')
               /\ Orderly(reserved)' => Cardinality(ActiveEndpoints(reserved)') <= Limit(reserved)
    <2>1. /\ IsFiniteSet(ActiveEndpoints(reserved)) /\ Cardinality(ActiveEndpoints(reserved)) \in Nat
          /\ Limit(reserved) \in Nat /\ (Orderly(reserved)' <=> Orderly(reserved))
      BY FS_CardinalityType, EndpointTypes DEF CreatesEndpoint, Orderly
    <2>2. CASE endpointCall[c].reserved = reserved
      <3>1. ActiveEndpoints(reserved)' \subseteq ActiveEndpoints(reserved) \cup {e}
        BY <1>2 DEF ActiveEndpoints
      <3>2. /\ IsFiniteSet(ActiveEndpoints(reserved)')
            /\ Cardinality(ActiveEndpoints(reserved)') \in Nat
            /\ Cardinality(ActiveEndpoints(reserved)') <= Cardinality(ActiveEndpoints(reserved)) + 1
        BY <2>1, <3>1, OneMore
      <3>3. Orderly(reserved) => BelowLimit(reserved)
        BY <1>1, <2>2 DEF HasPlace
      <3> QED BY <2>1, <3>2, <3>3 DEF BelowLimit, Limit
    <2>3. CASE endpointCall[c].reserved # reserved
      <3>1. ActiveEndpoints(reserved)' \subseteq ActiveEndpoints(reserved)
        BY <1>2, <2>3 DEF ActiveEndpoints
      <3>2. /\ IsFiniteSet(ActiveEndpoints(reserved)')
            /\ Cardinality(ActiveEndpoints(reserved)') \in Nat
            /\ Cardinality(ActiveEndpoints(reserved)') <= Cardinality(ActiveEndpoints(reserved))
        BY <2>1, <3>1, NoMore
      <3> QED BY <2>1, <3>2
    <2> QED BY <2>2, <2>3
  <1>4. exceeded' = exceeded /\ exceeded \subseteq {"overlap", "reactivated", "plan"}
    BY EndpointTypes DEF CreatesEndpoint
  <1> QED BY <1>1, <1>2, <1>3, <1>4, CallIsOver DEF CreatesEndpoint

\* A replacement takes the place of the endpoint it replaces, or one below the limit.
LEMMA EndpointReplaced ==
    ASSUME EndpointsInv, NEW c \in EndpointCalls, NEW e \in Endpoints, ReplacesEndpoint(c, e)
    PROVE  EndpointsInv'
  <1> USE DEF EndpointsInv
  <1>1. /\ endpoint \in [Endpoints -> Endpoint] /\ endpointCall[c] \in EndpointCall
        /\ endpointCall[c].reserved \in BOOLEAN /\ endpointCall[c].at = "replacing"
        /\ ~endpoint[e].exists /\ ~endpoint[e].active
    BY EndpointTypes DEF ReplacesEndpoint, EndpointCall, Endpoint
  <1>2. PICK old \in Endpoints : endpointCall[c].endpoint = {old} /\ endpoint[old].exists
    BY <1>1
  <1>3. /\ endpoint' \in [Endpoints -> Endpoint] /\ old # e
        /\ endpoint'[e] = [exists |-> TRUE, active |-> TRUE, reserved |-> endpointCall[c].reserved]
        /\ endpoint'[old].active = FALSE /\ endpoint'[old].exists
        /\ \A f \in Endpoints \ {e, old} : endpoint'[f] = endpoint[f]
    <2>1. old # e
      BY <1>1, <1>2
    <2>2. endpoint' = [f \in Endpoints |->
                          IF f = e THEN Inserted(e, endpointCall[c].reserved)
                          ELSE IF f = old THEN [endpoint[f] EXCEPT !.active = FALSE]
                          ELSE endpoint[f]]
      BY <1>2 DEF ReplacesEndpoint
    <2>3. /\ Inserted(e, endpointCall[c].reserved) \in Endpoint
          /\ [endpoint[old] EXCEPT !.active = FALSE] \in Endpoint
      BY <1>1 DEF Inserted, Endpoint
    <2>4. endpoint' \in [Endpoints -> Endpoint]
      BY <1>1, <2>2, <2>3
    <2> QED BY <1>1, <1>2, <2>1, <2>2, <2>4 DEF Inserted, Endpoint
  <1>4. ASSUME NEW reserved \in BOOLEAN
        PROVE  /\ IsFiniteSet(ActiveEndpoints(reserved)')
               /\ Orderly(reserved)' => Cardinality(ActiveEndpoints(reserved)') <= Limit(reserved)
    <2> DEFINE A == ActiveEndpoints(reserved)
    <2>1. /\ IsFiniteSet(A) /\ Cardinality(A) \in Nat
          /\ Limit(reserved) \in Nat /\ (Orderly(reserved)' <=> Orderly(reserved))
      BY FS_CardinalityType, EndpointTypes DEF ReplacesEndpoint, Orderly
    <2>2. A' \subseteq (A \ {old}) \cup {e}
      BY <1>3 DEF ActiveEndpoints
    <2>3. /\ IsFiniteSet(A') /\ Cardinality(A') \in Nat /\ Cardinality(A') <= Cardinality(A) + 1
          /\ old \in A => Cardinality(A') <= Cardinality(A)
      <3>1. A' \subseteq A \cup {e}
        BY <2>2
      <3> HIDE DEF A
      <3> QED BY <2>1, <2>2, <3>1, OneMore, OneForAnother
    <2>4. CASE endpointCall[c].reserved = reserved
      <3>1. Orderly(reserved) => BelowLimit(reserved) \/ old \in A
        BY <1>1, <1>2, <2>4 DEF HasPlace
      <3> QED BY <2>1, <2>3, <3>1 DEF BelowLimit, Limit
    <2>5. CASE endpointCall[c].reserved # reserved
      <3>1. A' \subseteq A
        BY <1>3, <2>2, <2>5 DEF ActiveEndpoints
      <3>2. Cardinality(A') <= Cardinality(A)
        BY <2>1, <3>1, NoMore
      <3> QED BY <2>1, <2>3, <3>2
    <2> QED BY <2>4, <2>5
  <1>5. exceeded' = exceeded /\ exceeded \subseteq {"overlap", "reactivated", "plan"}
    BY EndpointTypes DEF ReplacesEndpoint
  <1>6. /\ \A f \in Endpoints : endpoint'[f].active => endpoint'[f].exists
        /\ \A f \in Endpoints : endpoint[f].exists => endpoint'[f].exists
    BY <1>3
  <1> QED BY <1>1, <1>3, <1>4, <1>5, <1>6, CallIsOver DEF ReplacesEndpoint

\* An endpoint that is switched on again is on record, one that is switched off is one less.
LEMMA EndpointToggled ==
    ASSUME EndpointsInv, NEW c \in EndpointCalls, NEW on \in BOOLEAN, Toggles(c, on)
    PROVE  EndpointsInv'
  <1> USE DEF EndpointsInv
  <1>1. /\ endpoint \in [Endpoints -> Endpoint] /\ endpointCall[c].at = "toggling"
        /\ exceeded \subseteq {"overlap", "reactivated", "plan"}
    BY EndpointTypes DEF Toggles
  <1>2. PICK e \in Endpoints : endpointCall[c].endpoint = {e} /\ endpoint[e].exists
    BY <1>1
  <1>3. /\ endpoint' \in [Endpoints -> Endpoint]
        /\ endpoint'[e].active = on /\ endpoint'[e].exists
        /\ endpoint'[e].reserved = endpoint[e].reserved
        /\ \A f \in Endpoints \ {e} : endpoint'[f] = endpoint[f]
    BY <1>1, <1>2 DEF Toggles, Endpoint
  <1>4. /\ exceeded \subseteq exceeded' /\ exceeded' \subseteq {"overlap", "reactivated", "plan"}
        /\ "reactivated" \notin exceeded' => ~on \/ endpoint[e].active
    BY <1>1, <1>2 DEF Toggles
  <1>5. ASSUME NEW reserved \in BOOLEAN
        PROVE  /\ IsFiniteSet(ActiveEndpoints(reserved)')
               /\ Orderly(reserved)' => Cardinality(ActiveEndpoints(reserved)') <= Limit(reserved)
    <2> DEFINE A == ActiveEndpoints(reserved)
    <2>1. IsFiniteSet(A) /\ Cardinality(A) \in Nat /\ Limit(reserved) \in Nat
      BY FS_CardinalityType, EndpointTypes
    <2>2. A' \subseteq A \cup {e}
      BY <1>3 DEF ActiveEndpoints
    <2>3. IsFiniteSet(A')
      <3> HIDE DEF A
      <3> QED BY <2>1, <2>2, OneMore
    <2>4. ASSUME Orderly(reserved)' PROVE Cardinality(A') <= Limit(reserved)
      <3>1. Orderly(reserved) /\ (~on \/ endpoint[e].active)
        BY <1>4, <2>4 DEF Orderly
      <3>2. A' \subseteq A
        BY <1>3, <3>1 DEF ActiveEndpoints
      <3>3. Cardinality(A') \in Nat /\ Cardinality(A') <= Cardinality(A)
        BY <2>1, <3>2, NoMore
      <3> QED BY <2>1, <3>1, <3>3
    <2> QED BY <2>3, <2>4
  <1>6. /\ \A f \in Endpoints : endpoint'[f].active => endpoint'[f].exists
        /\ \A f \in Endpoints : endpoint[f].exists => endpoint'[f].exists
    BY <1>3
  <1> QED BY <1>1, <1>3, <1>4, <1>5, <1>6, CallIsOver DEF Toggles

\* The plan shrinks on record; the rest writes no endpoint.
LEMMA EndpointsKeep == EndpointsInv /\ [EndpointsNext]_endpointsVars => EndpointsInv'
  <1> SUFFICES ASSUME EndpointsInv, [EndpointsNext]_endpointsVars PROVE EndpointsInv'
    OBVIOUS
  <1> USE DEF EndpointsInv
  <1>1. CASE PlanAllows
    <2>1. /\ endpoint' = endpoint /\ endpointCall' = endpointCall /\ allowed' \in 1 .. 2
          /\ exceeded \subseteq exceeded' /\ exceeded' \subseteq {"overlap", "reactivated", "plan"}
          /\ "plan" \notin exceeded' => allowed <= allowed'
          /\ "overlap" \in exceeded' => "overlap" \in exceeded
      BY <1>1, EndpointTypes DEF PlanAllows
    <2>2. EndpointsTypeOK'
      BY <1>1, <2>1 DEF PlanAllows, EndpointsTypeOK
    <2>3. ASSUME NEW reserved \in BOOLEAN, Orderly(reserved)'
          PROVE  /\ Cardinality(ActiveEndpoints(reserved)') <= Limit(reserved)'
                 /\ \A d \in EndpointCalls : HasPlace(endpointCall[d], reserved)'
      <3>1. Orderly(reserved) /\ ActiveEndpoints(reserved)' = ActiveEndpoints(reserved)
        BY <2>1, <2>3 DEF Orderly, ActiveEndpoints
      <3>2. /\ Limit(reserved) \in Nat /\ Limit(reserved)' \in Nat /\ Limit(reserved) <= Limit(reserved)'
            /\ Cardinality(ActiveEndpoints(reserved)) \in Nat
        BY <2>1, <2>2, <2>3, EndpointTypes, EndpointBounds, FS_CardinalityType DEF Orderly, Limit
      <3>3. BelowLimit(reserved) => BelowLimit(reserved)'
        BY <3>1, <3>2 DEF BelowLimit, Limit
      <3> QED BY <2>1, <3>1, <3>2, <3>3 DEF HasPlace
    <2> QED BY <2>1, <2>2, <2>3 DEF ActiveEndpoints
  <1>2. CASE VerificationChanges
    BY <1>2 DEF VerificationChanges, EndpointsTypeOK, ActiveEndpoints, Orderly, Limit, HasPlace, BelowLimit
  <1>3. ASSUME NEW c \in EndpointCalls, CallEnds(c) PROVE EndpointsInv'
    <2>1. /\ endpoint' \in [Endpoints -> Endpoint] /\ exceeded' = exceeded
          /\ exceeded \subseteq {"overlap", "reactivated", "plan"}
          /\ \A reserved \in BOOLEAN : /\ ActiveEndpoints(reserved)' = ActiveEndpoints(reserved)
                                       /\ Orderly(reserved)' <=> Orderly(reserved)
      BY <1>3, EndpointTypes DEF CallEnds, ActiveEndpoints, Orderly
    <2> QED BY <1>3, <2>1, CallIsOver DEF CallEnds
  <1>4. CASE UNCHANGED endpointsVars
    BY <1>4 DEF endpointsVars, EndpointsTypeOK, ActiveEndpoints, Orderly, Limit, HasPlace, BelowLimit
  <1> QED BY <1>1, <1>2, <1>3, <1>4, CallsBegin, EndpointCreated, EndpointReplaced, EndpointToggled
          DEF EndpointsNext

\* The invariant says what was promised of the endpoints.
LEMMA EndpointsAreWithin == EndpointsInv => EndpointsWithinPlan
  BY DEF EndpointsInv, EndpointsWithinPlan, Orderly, Limit

-----------------------------------------------------------------------------
(* Issuers: within the plan, and never without one.                        *)

IssuerRow == [branch : SUBSET Branches, active : BOOLEAN]
IssuerCall == [at : {"idle", "creating", "typing", "activating", "removing", "untyping"},
               issuer : SUBSET IssuerRows, branch : SUBSET Branches, type : SUBSET DocTypes,
               plan : 1 .. 2]

\* Two calls at once, or a smaller plan, may break the counts; two calls at once, a failure
\* or a document created during a removal what is kept.
Counting == "overlap" \notin mingled /\ "plan" \notin mingled
Keeping == "overlap" \notin mingled /\ "failure" \notin mingled /\ "document" \notin mingled

\* What a row names: a branch, once it is created.
RowsName ==
    \A i \in IssuerRows : /\ issuer[i].branch = {} \/ \E b \in Branches : issuer[i].branch = {b}
                          /\ issuer[i].active => issuer[i].branch # {}

\* What a call names: the branch and the type to create, or an issuer that is created.
Names(call) ==
    /\ call.at \in {"creating", "typing"} => \E t \in DocTypes : call.type = {t}
    /\ call.at = "creating" => \E b \in Branches : call.branch = {b}
    /\ call.at \in {"typing", "activating", "removing", "untyping"} =>
          \E i \in IssuerRows : call.issuer = {i} /\ issuer[i].branch # {}

\* A call that is to add a point has found its place.
FindsPlace(call) ==
    /\ call.at = "creating" => \A b \in call.branch : Fits(b, plan)
    /\ call.at = "activating" => \A i \in call.issuer : \A b \in issuer[i].branch : Fits(b, plan)

\* A call that is to take an issuer or a type leaves another one.
LeavesOne(call) ==
    /\ call.at = "removing" => \A i \in call.issuer : i \notin used /\ \E j \in ActiveIssuers : j # i
    /\ call.at = "untyping" => \A i \in call.issuer : types[i] \ call.type # {}

CountsOK == /\ Cardinality(ActiveBranches) <= plan
            /\ \A b \in Branches : Cardinality(PointsOf(b)) <= plan

KeptOK == /\ ActiveIssuers # {} /\ issuing \cup used \subseteq ActiveIssuers
          /\ \A i \in IssuerRows : issuer[i].branch # {} => types[i] # {} \/ BeingCreated(i)

Finite == IsFiniteSet(ActiveIssuers) /\ IsFiniteSet(ActiveBranches)

OneCall(calls) == \A c, d \in IssuerCalls : calls[c].at # "idle" /\ calls[d].at # "idle" => c = d

IssuersInv ==
    /\ IssuersTypeOK /\ RowsName /\ Finite
    /\ \A c \in IssuerCalls : Names(issuerCall[c])
    /\ "overlap" \notin mingled => OneCall(issuerCall)
    /\ Counting => CountsOK /\ \A c \in IssuerCalls : FindsPlace(issuerCall[c])
    /\ Keeping => KeptOK /\ \A c \in IssuerCalls : LeavesOne(issuerCall[c])

\* The types of the variables, one by one.
LEMMA IssuerTypes ==
    ASSUME IssuersTypeOK
    PROVE  /\ plan \in 1 .. 2 /\ issuer \in [IssuerRows -> IssuerRow]
           /\ types \in [IssuerRows -> SUBSET DocTypes]
           /\ issuing \subseteq IssuerRows /\ used \subseteq IssuerRows
           /\ issuerCall \in [IssuerCalls -> IssuerCall]
           /\ issuerCalls \in 0 .. MaxIssuerCalls /\ issuerFailures \in Nat
           /\ mingled \subseteq {"overlap", "failure", "document", "plan"}
           /\ NoIssuerCall \in IssuerCall
  BY DEF IssuersTypeOK, IssuerRow, IssuerCall, NoIssuerCall

\* The points of a branch are some of the issuers, and all these sets are counted.
LEMMA PointsAreCounted ==
    ASSUME Finite, NEW b \in Branches
    PROVE  /\ IsFiniteSet(PointsOf(b)) /\ Cardinality(PointsOf(b)) \in Nat
           /\ Cardinality(ActiveBranches) \in Nat
  <1>1. PointsOf(b) \subseteq ActiveIssuers
    BY DEF PointsOf
  <1> QED BY <1>1, NoMore, FS_CardinalityType DEF Finite

\* A point more, where it fits, leaves the counts within the plan.
LEMMA PointAdded ==
    ASSUME IssuersTypeOK, RowsName, Finite, NEW i \in IssuerRows, NEW b \in Branches,
           issuer' \in [IssuerRows -> IssuerRow], plan' = plan,
           issuer[i].branch \in {{}, {b}},
           issuer'[i].branch = {b}, issuer'[i].active,
           \A j \in IssuerRows \ {i} : issuer'[j] = issuer[j]
    PROVE  /\ Finite' /\ RowsName'
           /\ CountsOK /\ Fits(b, plan) => CountsOK'
           /\ ActiveIssuers \subseteq ActiveIssuers'
  <1>1. /\ ActiveIssuers' \subseteq ActiveIssuers \cup {i} /\ ActiveIssuers \subseteq ActiveIssuers'
        /\ PointsOf(b)' \subseteq PointsOf(b) \cup {i}
    BY DEF ActiveIssuers, PointsOf
  <1>2. \A d \in Branches \ {b} : PointsOf(d)' = PointsOf(d)
    BY DEF ActiveIssuers, PointsOf
  <1>3. /\ ActiveBranches' \subseteq ActiveBranches \cup {b}
        /\ PointsOf(b) # {} => ActiveBranches' \subseteq ActiveBranches
    BY <1>2 DEF ActiveBranches
  <1>4. IsFiniteSet(ActiveIssuers') /\ IsFiniteSet(ActiveBranches')
    <2>1. IsFiniteSet(ActiveIssuers) /\ IsFiniteSet(ActiveBranches)
      BY DEF Finite
    <2>3. IsFiniteSet(ActiveIssuers')
      BY <1>1, <2>1, OneMore
    <2>4. IsFiniteSet(ActiveBranches')
      BY <1>3, <2>1, OneMore
    <2> QED BY <2>3, <2>4
  <1>5. Finite' /\ RowsName'
    BY <1>4 DEF Finite, RowsName
  <1>6. ASSUME CountsOK, Fits(b, plan) PROVE CountsOK'
    <2>1. /\ plan \in 1 .. 2 /\ Cardinality(ActiveBranches) \in Nat /\ IsFiniteSet(ActiveBranches)
          /\ Cardinality(PointsOf(b)) \in Nat /\ IsFiniteSet(PointsOf(b))
      BY PointsAreCounted, IssuerTypes DEF Finite
    <2>2. /\ Cardinality(PointsOf(b)') <= Cardinality(PointsOf(b)) + 1
          /\ Cardinality(PointsOf(b)') \in Nat
      BY <1>1, <2>1, OneMore
    <2>3. CASE PointsOf(b) = {}
      <3>1. Cardinality(PointsOf(b)) = 0
        BY <2>3, FS_EmptySet
      <3>2. Cardinality(PointsOf(b)') <= 1 /\ Cardinality(PointsOf(b)') \in Nat
        BY <2>1, <2>2, <3>1
      <3>3. /\ Cardinality(ActiveBranches') <= Cardinality(ActiveBranches) + 1
            /\ Cardinality(ActiveBranches') \in Nat
        BY <1>3, <2>1, OneMore
      <3>4. Cardinality(ActiveBranches) < plan
        BY <1>6, <2>3 DEF Fits
      <3> QED BY <1>2, <1>6, <2>1, <3>2, <3>3, <3>4 DEF CountsOK
    <2>4. CASE PointsOf(b) # {}
      <3>2. /\ Cardinality(ActiveBranches') <= Cardinality(ActiveBranches)
            /\ Cardinality(ActiveBranches') \in Nat
        BY <1>3, <2>1, <2>4, NoMore
      <3>3. Cardinality(PointsOf(b)) < plan
        BY <1>6, <2>4 DEF Fits
      <3> QED BY <1>2, <1>6, <2>1, <2>2, <3>2, <3>3 DEF CountsOK
    <2> QED BY <2>3, <2>4
  <1> QED BY <1>1, <1>5, <1>6

\* A point less leaves them within it too.
LEMMA PointTaken ==
    ASSUME IssuersTypeOK, RowsName, Finite, NEW i \in IssuerRows,
           issuer' \in [IssuerRows -> IssuerRow], plan' = plan,
           issuer'[i].branch = issuer[i].branch, ~issuer'[i].active,
           \A j \in IssuerRows \ {i} : issuer'[j] = issuer[j]
    PROVE  /\ Finite' /\ RowsName' /\ (CountsOK => CountsOK')
           /\ ActiveIssuers' = ActiveIssuers \ {i}
  <1>1. ActiveIssuers' = ActiveIssuers \ {i} /\ \A b \in Branches : PointsOf(b)' \subseteq PointsOf(b)
    BY DEF ActiveIssuers, PointsOf
  <1>2. ActiveBranches' \subseteq ActiveBranches
    BY <1>1 DEF ActiveBranches
  <1>3. /\ IsFiniteSet(ActiveIssuers') /\ IsFiniteSet(ActiveBranches')
        /\ Cardinality(ActiveBranches') <= Cardinality(ActiveBranches)
        /\ Cardinality(ActiveBranches') \in Nat
    BY <1>1, <1>2, NoMore DEF Finite
  <1>4. \A b \in Branches : /\ Cardinality(PointsOf(b)') <= Cardinality(PointsOf(b))
                            /\ Cardinality(PointsOf(b)') \in Nat
    BY <1>1, PointsAreCounted, NoMore
  <1>5. RowsName'
    BY DEF RowsName
  <1>6. ASSUME CountsOK PROVE CountsOK'
    BY <1>3, <1>4, <1>6, PointsAreCounted, IssuerTypes, FS_CardinalityType DEF CountsOK, Finite
  <1> QED BY <1>1, <1>3, <1>5, <1>6 DEF Finite

\* One issuer with one type is within any plan.
LEMMA IssuersBegin == IssuersInit => IssuersInv
  <1> SUFFICES ASSUME IssuersInit PROVE IssuersInv
    OBVIOUS
  <1>1. PICK i \in IssuerRows, b \in Branches, t \in DocTypes :
           /\ issuer = [j \in IssuerRows |-> [branch |-> IF j = i THEN {b} ELSE {}, active |-> j = i]]
           /\ types = [j \in IssuerRows |-> IF j = i THEN {t} ELSE {}]
    BY DEF IssuersInit
  <1>2. IssuersTypeOK
    BY <1>1, IssuerBounds DEF IssuersInit, IssuersTypeOK, NoIssuerCall
  <1>3. ActiveIssuers = {i} /\ PointsOf(b) = {i} /\ \A d \in Branches \ {b} : PointsOf(d) = {}
    BY <1>1 DEF ActiveIssuers, PointsOf
  <1>4. ActiveBranches = {b}
    BY <1>3 DEF ActiveBranches
  <1>5. /\ IsFiniteSet({i}) /\ IsFiniteSet({b}) /\ Cardinality({i}) = 1 /\ Cardinality({b}) = 1
    BY FS_Singleton
  <1>6. Finite /\ CountsOK
    <2>1. plan \in 1 .. 2 /\ Cardinality({}) = 0
      BY <1>2, FS_EmptySet, IssuerTypes
    <2>2. Cardinality(ActiveBranches) = 1 /\ Cardinality(PointsOf(b)) = 1
      BY <1>3, <1>4, <1>5
    <2>3. \A d \in Branches \ {b} : Cardinality(PointsOf(d)) = 0
      BY <1>3, <2>1
    <2> QED BY <1>3, <1>4, <1>5, <2>1, <2>2, <2>3 DEF Finite, CountsOK
  <1>7. RowsName /\ KeptOK
    BY <1>1, <1>3 DEF IssuersInit, RowsName, KeptOK
  <1> QED BY <1>2, <1>6, <1>7
          DEF IssuersInit, IssuersInv, Names, OneCall, FindsPlace, LeavesOne, NoIssuerCall

\* A call begins alone, or the overlap is on record.
LEMMA IssuerCallBegins ==
    ASSUME IssuersInv, NEW c \in IssuerCalls, NEW call \in IssuerCall, Opens(c, call),
           Names(call), call.at # "typing",
           Counting => FindsPlace(call), Keeping => LeavesOne(call)
    PROVE  IssuersInv'
  <1> USE DEF IssuersInv
  <1>1. /\ issuerCall' \in [IssuerCalls -> IssuerCall] /\ issuerCall'[c] = call
        /\ \A d \in IssuerCalls \ {c} : issuerCall'[d] = issuerCall[d]
        /\ issuerCall[c].at = "idle"
        /\ issuer' = issuer /\ plan' = plan /\ types' = types /\ used' = used /\ issuing' = issuing
    BY IssuerTypes DEF Opens
  <1>2. /\ mingled \subseteq mingled' /\ mingled' \subseteq {"overlap", "failure", "document", "plan"}
        /\ "overlap" \notin mingled' => \A d \in IssuerCalls : issuerCall[d].at = "idle"
        /\ Counting' => Counting
        /\ Keeping' => Keeping
    BY IssuerTypes DEF Opens, Counting, Keeping
  <1>3. issuerCalls' \in 0 .. MaxIssuerCalls
    BY IssuerTypes, IssuerBounds DEF Opens
  <1>4. IssuersTypeOK'
    BY <1>1, <1>2, <1>3 DEF Opens, IssuersTypeOK, IssuerCall
  <1>5. /\ ActiveIssuers' = ActiveIssuers /\ \A b \in Branches : PointsOf(b)' = PointsOf(b)
        /\ ActiveBranches' = ActiveBranches
    BY <1>1 DEF ActiveIssuers, PointsOf, ActiveBranches
  <1>6. Finite' /\ RowsName' /\ (CountsOK => CountsOK')
    BY <1>1, <1>5 DEF Finite, RowsName, CountsOK
  <1>7. \A d \in IssuerCalls : Names(issuerCall[d])'
    BY <1>1 DEF Names
  <1>8. ASSUME Counting' PROVE CountsOK' /\ \A d \in IssuerCalls : FindsPlace(issuerCall[d])'
    <2>1. CountsOK /\ \A d \in IssuerCalls : FindsPlace(issuerCall'[d])
      <3>0. Counting
        BY <1>2, <1>8 DEF Counting
      <3>1. FindsPlace(issuerCall'[c]) /\ CountsOK
        BY <1>1, <3>0
      <3>2. \A d \in IssuerCalls \ {c} : FindsPlace(issuerCall'[d])
        BY <1>1, <3>0
      <3> QED BY <3>1, <3>2
    <2>2. \A d \in IssuerCalls : issuerCall'[d].branch \subseteq Branches
      BY <1>1 DEF IssuerCall
    <2>3. \A i \in IssuerRows : issuer[i].branch \subseteq Branches
      BY IssuerTypes DEF IssuerRow
    <2>4. \A d \in IssuerCalls : issuerCall'[d].issuer \subseteq IssuerRows
      BY <1>1 DEF IssuerCall
    <2> QED BY <1>1, <1>5, <1>6, <2>1, <2>2, <2>3, <2>4 DEF FindsPlace, Fits
  <1>9. ASSUME Keeping' PROVE KeptOK' /\ \A d \in IssuerCalls : LeavesOne(issuerCall[d])'
    <2>1. /\ KeptOK /\ \A d \in IssuerCalls : LeavesOne(issuerCall'[d])
          /\ \A i \in IssuerRows : ~BeingCreated(i)
      BY <1>1, <1>2, <1>9 DEF BeingCreated, Keeping
    <2>2. KeptOK'
      BY <1>1, <1>2, <1>5, <1>9, <2>1 DEF KeptOK, BeingCreated, Keeping
    <2> QED BY <1>1, <1>5, <2>1, <2>2 DEF LeavesOne
  <1>10. "overlap" \notin mingled' => OneCall(issuerCall')
    BY <1>1, <1>2 DEF OneCall
  <1> QED BY <1>4, <1>6, <1>7, <1>8, <1>9, <1>10

\* A call is over; what it wrote is counted and kept.
LEMMA IssuerCallIsOver ==
    ASSUME IssuersInv, NEW c \in IssuerCalls, issuerCall[c].at # "idle", Answers(c),
           issuer' \in [IssuerRows -> IssuerRow], types' \in [IssuerRows -> SUBSET DocTypes],
           UNCHANGED <<plan, issuing, used, issuerCalls>>, issuerFailures' \in Nat,
           mingled \subseteq mingled', mingled' \subseteq {"overlap", "failure", "document", "plan"},
           RowsName', Finite',
           \A i \in IssuerRows : issuer[i].branch # {} => issuer'[i].branch # {},
           Counting' => CountsOK',
           Keeping' => /\ ActiveIssuers' # {} /\ issuing \cup used \subseteq ActiveIssuers'
                       /\ \A i \in IssuerRows : issuer'[i].branch # {} => types'[i] # {}
    PROVE  IssuersInv'
  <1> USE DEF IssuersInv
  <1>1. /\ issuerCall' \in [IssuerCalls -> IssuerCall] /\ issuerCall'[c].at = "idle"
        /\ \A d \in IssuerCalls \ {c} : issuerCall'[d] = issuerCall[d]
    BY IssuerTypes DEF Answers, NoIssuerCall
  <1>2. "overlap" \notin mingled' => \A d \in IssuerCalls : issuerCall'[d].at = "idle"
    BY <1>1 DEF OneCall
  <1>3. IssuersTypeOK'
    BY <1>1 DEF IssuersTypeOK, IssuerCall, IssuerRow
  <1>4. \A d \in IssuerCalls : Names(issuerCall[d])'
    <2> SUFFICES ASSUME NEW d \in IssuerCalls PROVE Names(issuerCall[d])'
      OBVIOUS
    <2>1. CASE d = c
      BY <1>1, <2>1 DEF Names
    <2>2. CASE d # c
      BY <1>1, <2>2 DEF Names
    <2> QED BY <2>1, <2>2
  <1>5. Counting' => CountsOK' /\ \A d \in IssuerCalls : FindsPlace(issuerCall[d])'
    BY <1>2 DEF Counting, FindsPlace
  <1>6. Keeping' => KeptOK' /\ \A d \in IssuerCalls : LeavesOne(issuerCall[d])'
    BY <1>2 DEF Keeping, LeavesOne, KeptOK
  <1>7. "overlap" \notin mingled' => OneCall(issuerCall')
    BY <1>2 DEF OneCall
  <1> QED BY <1>3, <1>4, <1>5, <1>6, <1>7

\* The calls that begin: each has looked for its place, or for another to leave.
LEMMA IssuerCallsBegin ==
    ASSUME IssuersInv, NEW c \in IssuerCalls,
           \/ \E b \in Branches, t \in DocTypes : AsksForIssuer(c, b, t)
           \/ \E i \in IssuerRows : \/ AsksToActivate(c, i) \/ AsksToRemove(c, i)
                                    \/ \E t \in DocTypes : AsksToRemoveType(c, i, t)
    PROVE  IssuersInv'
  <1>0. /\ plan \in 1 .. 2 /\ issuer \in [IssuerRows -> IssuerRow]
        /\ types \in [IssuerRows -> SUBSET DocTypes] /\ RowsName /\ IsFiniteSet(ActiveIssuers)
        /\ NoIssuerCall \in IssuerCall
    BY IssuerTypes DEF IssuersInv, Finite
  <1>1. ASSUME NEW b \in Branches, NEW t \in DocTypes, AsksForIssuer(c, b, t) PROVE IssuersInv'
    <2> DEFINE call == [NoIssuerCall EXCEPT !.at = "creating", !.branch = {b}, !.type = {t}, !.plan = plan]
    <2>1. /\ call \in IssuerCall /\ call.at = "creating" /\ call.branch = {b} /\ call.type = {t}
      BY <1>0 DEF NoIssuerCall, IssuerCall
    <2>2. Opens(c, call) /\ Fits(b, plan)
      BY <1>1 DEF AsksForIssuer
    <2> HIDE DEF call
    <2>3. Names(call) /\ FindsPlace(call) /\ LeavesOne(call)
      BY <2>1, <2>2 DEF Names, FindsPlace, LeavesOne
    <2> QED BY <2>1, <2>2, <2>3, IssuerCallBegins
  <1>2. ASSUME NEW i \in IssuerRows, AsksToActivate(c, i) PROVE IssuersInv'
    <2> DEFINE call == [NoIssuerCall EXCEPT !.at = "activating", !.issuer = {i}, !.plan = plan]
    <2>1. call \in IssuerCall /\ call.at = "activating" /\ call.issuer = {i}
      BY <1>0 DEF NoIssuerCall, IssuerCall
    <2>2. Opens(c, call) /\ issuer[i].branch # {} /\ \A b \in issuer[i].branch : Fits(b, plan)
      BY <1>2 DEF AsksToActivate
    <2> HIDE DEF call
    <2>3. Names(call) /\ FindsPlace(call) /\ LeavesOne(call)
      BY <2>1, <2>2 DEF Names, FindsPlace, LeavesOne
    <2> QED BY <2>1, <2>2, <2>3, IssuerCallBegins
  <1>3. ASSUME NEW i \in IssuerRows, AsksToRemove(c, i) PROVE IssuersInv'
    <2> DEFINE call == [NoIssuerCall EXCEPT !.at = "removing", !.issuer = {i}]
    <2>1. call \in IssuerCall /\ call.at = "removing" /\ call.issuer = {i}
      BY <1>0 DEF IssuerCall
    <2>2. Opens(c, call) /\ i \in ActiveIssuers \ used /\ Cardinality(ActiveIssuers) > 1
      BY <1>3 DEF AsksToRemove, Removable
    <2>3. issuer[i].branch # {}
      BY <1>0, <2>2 DEF ActiveIssuers, RowsName
    <2>4. \E j \in ActiveIssuers : j # i
      <3>1. Cardinality({i}) = 1
        BY FS_Singleton
      <3>2. ActiveIssuers # {i}
        BY <2>2, <3>1
      <3> QED BY <2>2, <3>2
    <2> HIDE DEF call
    <2>5. Names(call) /\ FindsPlace(call) /\ LeavesOne(call)
      BY <2>1, <2>2, <2>3, <2>4 DEF Names, FindsPlace, LeavesOne
    <2> QED BY <2>1, <2>2, <2>5, IssuerCallBegins
  <1>4. ASSUME NEW i \in IssuerRows, NEW t \in DocTypes, AsksToRemoveType(c, i, t) PROVE IssuersInv'
    <2> DEFINE call == [NoIssuerCall EXCEPT !.at = "untyping", !.issuer = {i}, !.type = {t}]
    <2>1. call \in IssuerCall /\ call.at = "untyping" /\ call.issuer = {i} /\ call.type = {t}
      BY <1>0 DEF IssuerCall
    <2>2. Opens(c, call) /\ i \in ActiveIssuers /\ Cardinality(types[i]) > 1
      BY <1>4 DEF AsksToRemoveType
    <2>3. issuer[i].branch # {}
      BY <1>0, <2>2 DEF ActiveIssuers, RowsName
    <2>4. types[i] \ {t} # {}
      <3>1. /\ IsFiniteSet({t}) /\ Cardinality({t}) = 1
        BY FS_Singleton
      <3>2. types[i] \subseteq {t} => Cardinality(types[i]) <= 1 /\ Cardinality(types[i]) \in Nat
        BY <3>1, NoMore
      <3> QED BY <2>2, <3>2
    <2> HIDE DEF call
    <2>5. Names(call) /\ FindsPlace(call) /\ LeavesOne(call)
      BY <2>1, <2>2, <2>3, <2>4 DEF Names, FindsPlace, LeavesOne
    <2> QED BY <2>1, <2>2, <2>5, IssuerCallBegins
  <1> QED BY <1>1, <1>2, <1>3, <1>4

\* The issuer is there before its types, and its call goes on.
LEMMA BranchCreated ==
    ASSUME IssuersInv, NEW c \in IssuerCalls, NEW i \in IssuerRows, CreatesBranch(c, i)
    PROVE  IssuersInv'
  <1> USE DEF IssuersInv
  <1>1. /\ issuer \in [IssuerRows -> IssuerRow] /\ issuerCall[c] \in IssuerCall
        /\ issuerCall[c].at = "creating" /\ issuer[i].branch = {} /\ Names(issuerCall[c])
        /\ UNCHANGED <<plan, types, issuing, used, issuerCalls, issuerFailures, mingled>>
    BY IssuerTypes DEF CreatesBranch
  <1>2. PICK b \in Branches : issuerCall[c].branch = {b}
    BY <1>1 DEF Names
  <1>3. /\ issuer' \in [IssuerRows -> IssuerRow] /\ issuer'[i] = [branch |-> {b}, active |-> TRUE]
        /\ \A j \in IssuerRows \ {i} : issuer'[j] = issuer[j]
    BY <1>1, <1>2 DEF CreatesBranch, IssuerRow
  <1>4. /\ issuerCall' \in [IssuerCalls -> IssuerCall]
        /\ issuerCall'[c].at = "typing" /\ issuerCall'[c].issuer = {i}
        /\ issuerCall'[c].type = issuerCall[c].type
        /\ \A d \in IssuerCalls \ {c} : issuerCall'[d] = issuerCall[d]
    BY <1>1, IssuerTypes DEF CreatesBranch, IssuerCall
  <1>5. IssuersTypeOK'
    BY <1>1, <1>3, <1>4 DEF IssuersTypeOK, IssuerRow, IssuerCall
  <1>6. /\ Finite' /\ RowsName' /\ (CountsOK /\ Fits(b, plan) => CountsOK')
        /\ ActiveIssuers \subseteq ActiveIssuers'
    BY <1>1, <1>3, PointAdded
  <1>7. \A d \in IssuerCalls : Names(issuerCall[d])'
    <2> SUFFICES ASSUME NEW d \in IssuerCalls PROVE Names(issuerCall[d])'
      OBVIOUS
    <2>1. \A j \in IssuerRows : issuer[j].branch # {} => issuer'[j].branch # {}
      BY <1>1, <1>3
    <2>2. CASE d = c
      BY <1>1, <1>3, <1>4, <2>2 DEF Names
    <2>3. CASE d # c
      <3>1. Names(issuerCall[d]) /\ issuerCall'[d] = issuerCall[d]
        BY <1>4, <2>3
      <3> QED BY <2>1, <3>1 DEF Names
    <2> QED BY <2>2, <2>3
  <1>8. "overlap" \notin mingled' => \A d \in IssuerCalls \ {c} : issuerCall'[d].at = "idle"
    BY <1>1, <1>4 DEF OneCall
  <1>9. "overlap" \notin mingled' => OneCall(issuerCall')
    BY <1>8 DEF OneCall
  <1>10. ASSUME Counting' PROVE CountsOK' /\ \A d \in IssuerCalls : FindsPlace(issuerCall[d])'
    <2>1. Counting
      BY <1>1, <1>10 DEF Counting
    <2>2. CountsOK /\ FindsPlace(issuerCall[c])
      BY <2>1
    <2>3. Fits(b, plan)
      BY <1>1, <1>2, <2>2 DEF FindsPlace
    <2>4. \A d \in IssuerCalls : issuerCall'[d].at \notin {"creating", "activating"}
      BY <1>4, <1>8, <1>10 DEF Counting
    <2> QED BY <1>6, <2>2, <2>3, <2>4 DEF FindsPlace
  <1>11. ASSUME Keeping' PROVE KeptOK' /\ \A d \in IssuerCalls : LeavesOne(issuerCall[d])'
    <2>1. Keeping
      BY <1>1, <1>11 DEF Keeping
    <2>2. KeptOK
      BY <2>1
    <2>3. \A j \in IssuerRows : ~BeingCreated(j)
      BY <1>1, <1>4, <1>8, <1>11 DEF BeingCreated, Keeping
    <2>4. BeingCreated(i)'
      BY <1>4 DEF BeingCreated
    <2>5. KeptOK'
      BY <1>1, <1>3, <1>6, <2>2, <2>3, <2>4 DEF KeptOK
    <2>6. \A d \in IssuerCalls : issuerCall'[d].at \notin {"removing", "untyping"}
      BY <1>4, <1>8, <1>11 DEF Keeping
    <2> QED BY <2>5, <2>6 DEF LeavesOne
  <1> QED BY <1>5, <1>6, <1>7, <1>9, <1>10, <1>11

\* The sets of issuers are as they were when no row is written.
LEMMA RowsStay ==
    ASSUME issuer' = issuer
    PROVE  /\ ActiveIssuers' = ActiveIssuers /\ ActiveBranches' = ActiveBranches
           /\ \A b \in Branches : PointsOf(b)' = PointsOf(b)
           /\ Finite' <=> Finite
           /\ RowsName' <=> RowsName
           /\ plan' = plan => (CountsOK' <=> CountsOK)
  <1>1. ActiveIssuers' = ActiveIssuers /\ \A b \in Branches : PointsOf(b)' = PointsOf(b)
    BY DEF ActiveIssuers, PointsOf
  <1>2. ActiveBranches' = ActiveBranches
    BY <1>1 DEF ActiveBranches
  <1> QED BY <1>1, <1>2 DEF Finite, RowsName, CountsOK

\* While two calls never overlapped, one that does not create leaves no issuer half created.
LEMMA OnlyOneCreates ==
    ASSUME IssuersInv, NEW c \in IssuerCalls, issuerCall[c].at # "idle", "overlap" \notin mingled
    PROVE  /\ \A i \in IssuerRows : BeingCreated(i) => issuerCall[c].at = "typing" /\ issuerCall[c].issuer = {i}
  BY DEF IssuersInv, OneCall, BeingCreated

\* The types of a new issuer end its creation; taking one leaves another.
LEMMA TypesWritten ==
    ASSUME IssuersInv, NEW c \in IssuerCalls, CreatesTypes(c) \/ RemovesType(c)
    PROVE  IssuersInv'
  <1> USE DEF IssuersInv
  <1>1. /\ issuerCall[c] \in IssuerCall /\ Names(issuerCall[c]) /\ Answers(c)
        /\ issuerCall[c].at \in {"typing", "untyping"} /\ issuerCall[c].at # "idle"
        /\ UNCHANGED <<plan, issuer, issuing, used, issuerCalls, issuerFailures, mingled>>
        /\ types \in [IssuerRows -> SUBSET DocTypes] /\ issuer \in [IssuerRows -> IssuerRow]
        /\ mingled \subseteq {"overlap", "failure", "document", "plan"} /\ issuerFailures \in Nat
    BY IssuerTypes DEF CreatesTypes, RemovesType
  <1>2. PICK i \in IssuerRows : issuerCall[c].issuer = {i} /\ issuer[i].branch # {}
    BY <1>1 DEF Names
  <1>3. /\ types' \in [IssuerRows -> SUBSET DocTypes]
        /\ \A j \in IssuerRows \ {i} : types'[j] = types[j]
        /\ issuerCall[c].at = "typing" => types'[i] = types[i] \cup issuerCall[c].type
        /\ issuerCall[c].at = "untyping" => types'[i] = types[i] \ issuerCall[c].type
    <2>1. issuerCall[c].type \subseteq DocTypes
      BY <1>1 DEF IssuerCall
    <2>2. CASE CreatesTypes(c)
      BY <1>1, <1>2, <2>1, <2>2 DEF CreatesTypes
    <2>3. CASE RemovesType(c)
      BY <1>1, <1>2, <2>1, <2>3 DEF RemovesType
    <2> QED BY <2>2, <2>3
  <1>4. /\ Finite' /\ RowsName' /\ ActiveIssuers' = ActiveIssuers
        /\ CountsOK' <=> CountsOK
    BY <1>1, RowsStay
  <1>5. Counting' => CountsOK'
    BY <1>1, <1>4 DEF Counting
  <1>6. ASSUME Keeping'
        PROVE  /\ ActiveIssuers' # {} /\ issuing \cup used \subseteq ActiveIssuers'
               /\ \A j \in IssuerRows : issuer'[j].branch # {} => types'[j] # {}
    <2>1. Keeping
      BY <1>1, <1>6 DEF Keeping
    <2>2. KeptOK /\ LeavesOne(issuerCall[c])
      BY <2>1
    <2>3. \A j \in IssuerRows : BeingCreated(j) => issuerCall[c].at = "typing" /\ j = i
      BY <1>1, <1>2, <2>1, OnlyOneCreates DEF Keeping
    <2>4. types'[i] # {}
      BY <1>1, <1>2, <1>3, <2>2 DEF Names, LeavesOne
    <2> QED BY <1>1, <1>3, <1>4, <2>2, <2>3, <2>4 DEF KeptOK
  <1>7. mingled \subseteq mingled' /\ mingled' \subseteq {"overlap", "failure", "document", "plan"}
    BY <1>1
  <1> QED BY <1>1, <1>3, <1>4, <1>5, <1>6, <1>7, IssuerCallIsOver

\* Setting an issuer active or not writes its row alone.
LEMMA ActiveIsSet ==
    ASSUME issuer \in [IssuerRows -> IssuerRow], NEW c \in IssuerCalls, NEW i \in IssuerRows,
           issuerCall[c].issuer = {i}, NEW on \in BOOLEAN, SetsActive(c, on)
    PROVE  /\ issuer' \in [IssuerRows -> IssuerRow]
           /\ issuer'[i].branch = issuer[i].branch /\ issuer'[i].active = on
           /\ \A j \in IssuerRows \ {i} : issuer'[j] = issuer[j]
  <1>1. issuer' = [j \in IssuerRows |-> IF j = i THEN [issuer[j] EXCEPT !.active = on] ELSE issuer[j]]
    BY DEF SetsActive
  <1>2. \A j \in IssuerRows : [issuer[j] EXCEPT !.active = on] \in IssuerRow
    BY DEF IssuerRow
  <1>3. issuer' \in [IssuerRows -> IssuerRow]
    BY <1>1, <1>2
  <1> QED BY <1>1, <1>3 DEF IssuerRow

\* An issuer that is activated has found its place.
LEMMA IssuerActivated ==
    ASSUME IssuersInv, NEW c \in IssuerCalls, ActivatesIssuer(c)
    PROVE  IssuersInv'
  <1> USE DEF IssuersInv
  <1>1. /\ issuerCall[c].at = "activating" /\ Names(issuerCall[c]) /\ Answers(c)
        /\ UNCHANGED <<plan, types, issuing, used, issuerCalls, issuerFailures, mingled>>
        /\ types \in [IssuerRows -> SUBSET DocTypes] /\ issuer \in [IssuerRows -> IssuerRow]
        /\ mingled \subseteq {"overlap", "failure", "document", "plan"} /\ issuerFailures \in Nat
    BY IssuerTypes DEF ActivatesIssuer, SetsActive
  <1>2. PICK i \in IssuerRows : issuerCall[c].issuer = {i} /\ issuer[i].branch # {}
    BY <1>1 DEF Names
  <1>3. PICK b \in Branches : issuer[i].branch = {b}
    BY <1>2 DEF RowsName
  <1>4. /\ issuer' \in [IssuerRows -> IssuerRow]
        /\ issuer'[i].branch = {b} /\ issuer'[i].active
        /\ \A j \in IssuerRows \ {i} : issuer'[j] = issuer[j]
    BY <1>1, <1>2, <1>3, ActiveIsSet DEF ActivatesIssuer
  <1>5. /\ Finite' /\ RowsName' /\ (CountsOK /\ Fits(b, plan) => CountsOK')
        /\ ActiveIssuers \subseteq ActiveIssuers'
    BY <1>1, <1>3, <1>4, PointAdded
  <1>6. ASSUME Counting' PROVE CountsOK'
    <2>1. Counting
      BY <1>1, <1>6 DEF Counting
    <2>2. CountsOK /\ FindsPlace(issuerCall[c])
      BY <2>1
    <2> QED BY <1>1, <1>2, <1>3, <1>5, <2>2 DEF FindsPlace
  <1>7. \A j \in IssuerRows : issuer'[j].branch = issuer[j].branch
    BY <1>3, <1>4
  <1>8. ASSUME Keeping'
        PROVE  /\ ActiveIssuers' # {} /\ issuing \cup used \subseteq ActiveIssuers'
               /\ \A j \in IssuerRows : issuer'[j].branch # {} => types'[j] # {}
    <2>1. Keeping
      BY <1>1, <1>8 DEF Keeping
    <2>2. KeptOK /\ \A j \in IssuerRows : ~BeingCreated(j)
      BY <1>1, <2>1, OnlyOneCreates DEF Keeping
    <2> QED BY <1>1, <1>5, <1>7, <2>2 DEF KeptOK
  <1>9. mingled \subseteq mingled' /\ mingled' \subseteq {"overlap", "failure", "document", "plan"}
    BY <1>1
  <1> QED BY <1>1, <1>4, <1>5, <1>6, <1>7, <1>8, <1>9, IssuerCallIsOver

\* An issuer that is removed has no document and leaves another.
LEMMA IssuerRemoved ==
    ASSUME IssuersInv, NEW c \in IssuerCalls, RemovesIssuer(c)
    PROVE  IssuersInv'
  <1> USE DEF IssuersInv
  <1>1. /\ issuerCall[c].at = "removing" /\ Names(issuerCall[c]) /\ Answers(c)
        /\ UNCHANGED <<plan, types, issuing, used, issuerCalls, issuerFailures>>
        /\ mingled \subseteq mingled' /\ mingled' \subseteq mingled \cup {"document"}
        /\ "document" \notin mingled' => issuerCall[c].issuer \cap issuing = {}
        /\ types \in [IssuerRows -> SUBSET DocTypes] /\ issuer \in [IssuerRows -> IssuerRow]
        /\ mingled \subseteq {"overlap", "failure", "document", "plan"} /\ issuerFailures \in Nat
    BY IssuerTypes DEF RemovesIssuer, SetsActive
  <1>2. PICK i \in IssuerRows : issuerCall[c].issuer = {i} /\ issuer[i].branch # {}
    BY <1>1 DEF Names
  <1>3. /\ issuer' \in [IssuerRows -> IssuerRow]
        /\ issuer'[i].branch = issuer[i].branch /\ ~issuer'[i].active
        /\ \A j \in IssuerRows \ {i} : issuer'[j] = issuer[j]
    BY <1>1, <1>2, ActiveIsSet DEF RemovesIssuer
  <1>4. /\ Finite' /\ RowsName' /\ (CountsOK => CountsOK')
        /\ ActiveIssuers' = ActiveIssuers \ {i}
    BY <1>1, <1>3, PointTaken
  <1>5. Counting' => CountsOK'
    BY <1>1, <1>4 DEF Counting
  <1>6. \A j \in IssuerRows : issuer'[j].branch = issuer[j].branch
    BY <1>3
  <1>7. ASSUME Keeping'
        PROVE  /\ ActiveIssuers' # {} /\ issuing \cup used \subseteq ActiveIssuers'
               /\ \A j \in IssuerRows : issuer'[j].branch # {} => types'[j] # {}
    <2>1. Keeping
      BY <1>1, <1>7 DEF Keeping
    <2>2. /\ KeptOK /\ LeavesOne(issuerCall[c]) /\ \A j \in IssuerRows : ~BeingCreated(j)
      BY <1>1, <2>1, OnlyOneCreates DEF Keeping
    <2>3. i \notin issuing \cup used /\ \E j \in ActiveIssuers : j # i
      BY <1>1, <1>2, <1>7, <2>2 DEF LeavesOne, Keeping
    <2> QED BY <1>1, <1>4, <1>6, <2>2, <2>3 DEF KeptOK
  <1>8. mingled \subseteq mingled' /\ mingled' \subseteq {"overlap", "failure", "document", "plan"}
    BY <1>1
  <1> QED BY <1>1, <1>3, <1>4, <1>5, <1>6, <1>7, <1>8, IssuerCallIsOver

\* A call that fails writes nothing more, and is on record.
LEMMA IssuerCallFailed ==
    ASSUME IssuersInv, NEW c \in IssuerCalls, IssuerCallFails(c)
    PROVE  IssuersInv'
  <1> USE DEF IssuersInv
  <1>1. /\ issuerCall[c].at # "idle" /\ Answers(c)
        /\ UNCHANGED <<plan, issuer, types, issuing, used, issuerCalls>> /\ issuerFailures' \in Nat
        /\ types \in [IssuerRows -> SUBSET DocTypes] /\ issuer \in [IssuerRows -> IssuerRow]
        /\ mingled \subseteq mingled' /\ mingled' \subseteq {"overlap", "failure", "document", "plan"}
        /\ "failure" \in mingled'
    BY IssuerTypes DEF IssuerCallFails
  <1>2. Finite' /\ RowsName' /\ (CountsOK' <=> CountsOK)
    BY <1>1, RowsStay
  <1>3. (Counting' => CountsOK') /\ ~Keeping'
    BY <1>1, <1>2 DEF Counting, Keeping
  <1> QED BY <1>1, <1>2, <1>3, IssuerCallIsOver

\* What no call does: a document, a type more, another plan.
LEMMA OthersKeepIssuers ==
    ASSUME IssuersInv,
           \/ PlanChanges
           \/ \E i \in IssuerRows : \/ AsksToIssue(i) \/ IssuesDocument(i) \/ CreationFails(i)
                                    \/ \E t \in DocTypes : AddsType(i, t)
    PROVE  IssuersInv'
  <1> USE DEF IssuersInv
  <1>0. /\ issuer' = issuer /\ issuerCall' = issuerCall
        /\ UNCHANGED <<issuerCalls, issuerFailures>>
        /\ mingled \subseteq mingled' /\ mingled' \subseteq {"overlap", "failure", "document", "plan"}
        /\ "overlap" \in mingled' => "overlap" \in mingled
    BY IssuerTypes DEF PlanChanges, AsksToIssue, IssuesDocument, CreationFails, AddsType
  <1>1. /\ Finite' /\ RowsName' /\ ActiveIssuers' = ActiveIssuers /\ ActiveBranches' = ActiveBranches
        /\ \A b \in Branches : PointsOf(b)' = PointsOf(b)
    BY <1>0, RowsStay
  <1>2. /\ \A c \in IssuerCalls : Names(issuerCall[c])'
        /\ "overlap" \notin mingled' => OneCall(issuerCall')
        /\ \A i \in IssuerRows : BeingCreated(i)' <=> BeingCreated(i)
    BY <1>0 DEF Names, BeingCreated
  <1>3. \A c \in IssuerCalls : /\ issuerCall[c].branch \subseteq Branches
                               /\ issuerCall[c].issuer \subseteq IssuerRows
    BY IssuerTypes DEF IssuerCall
  <1>4. \A i \in IssuerRows : issuer[i].branch \subseteq Branches
    BY IssuerTypes DEF IssuerRow
  <1>5. CASE PlanChanges
    <2>1. /\ plan \in 1 .. 2 /\ plan' \in 1 .. 2 /\ UNCHANGED <<types, issuing, used>>
          /\ "plan" \notin mingled' => plan <= plan'
      BY <1>5, IssuerTypes DEF PlanChanges
    <2>2. IssuersTypeOK'
      BY <1>0, <2>1 DEF IssuersTypeOK
    <2>3. ASSUME Counting' PROVE CountsOK' /\ \A c \in IssuerCalls : FindsPlace(issuerCall[c])'
      <3>1. Counting /\ plan <= plan'
        BY <1>0, <2>1, <2>3 DEF Counting
      <3>2. CountsOK /\ \A c \in IssuerCalls : FindsPlace(issuerCall[c])
        BY <3>1
      <3>3. CountsOK'
        BY <1>1, <2>1, <3>1, <3>2, PointsAreCounted, FS_CardinalityType DEF CountsOK, Finite
      <3>4. \A b \in Branches : Fits(b, plan) => Fits(b, plan)'
        BY <1>1, <2>1, <3>1, PointsAreCounted DEF Fits
      <3> QED BY <1>0, <1>3, <1>4, <3>2, <3>3, <3>4 DEF FindsPlace
    <2>4. ASSUME Keeping' PROVE KeptOK' /\ \A c \in IssuerCalls : LeavesOne(issuerCall[c])'
      <3>1. Keeping
        BY <1>0, <2>4 DEF Keeping
      <3>2. KeptOK /\ \A c \in IssuerCalls : LeavesOne(issuerCall[c])
        BY <3>1
      <3> QED BY <1>0, <1>1, <1>2, <2>1, <3>2 DEF KeptOK, LeavesOne
    <2> QED BY <1>1, <1>2, <2>2, <2>3, <2>4
  <1>6. ASSUME \/ \E i \in IssuerRows : AsksToIssue(i) \/ IssuesDocument(i) \/ CreationFails(i)
               \/ \E i \in IssuerRows, t \in DocTypes : AddsType(i, t)
        PROVE  IssuersInv'
    <2>1. /\ plan' = plan /\ types' \in [IssuerRows -> SUBSET DocTypes]
          /\ issuing' \subseteq IssuerRows /\ used' \subseteq IssuerRows
          /\ \A i \in IssuerRows : types[i] \subseteq types'[i]
          /\ issuing' \cup used' \subseteq issuing \cup used \cup ActiveIssuers
          /\ Keeping' => /\ Keeping
                         /\ \A c \in IssuerCalls : issuerCall[c].at = "removing" =>
                               issuerCall[c].issuer \cap used' \subseteq used
      <3>1. CASE \E i \in IssuerRows : IssuesDocument(i)
        BY <3>1, IssuerTypes DEF IssuesDocument, Keeping
      <3>2. CASE \E i \in IssuerRows, t \in DocTypes : AddsType(i, t)
        BY <3>2, IssuerTypes DEF AddsType, Keeping
      <3>3. CASE \E i \in IssuerRows : AsksToIssue(i) \/ CreationFails(i)
        BY <3>3, IssuerTypes DEF AsksToIssue, CreationFails, Keeping
      <3> QED BY <1>6, <3>1, <3>2, <3>3
    <2>2. IssuersTypeOK'
      BY <1>0, <2>1 DEF IssuersTypeOK
    <2>3. ASSUME Counting' PROVE CountsOK' /\ \A c \in IssuerCalls : FindsPlace(issuerCall[c])'
      <3>1. Counting
        BY <1>0, <2>3 DEF Counting
      <3>2. CountsOK /\ \A c \in IssuerCalls : FindsPlace(issuerCall[c])
        BY <3>1
      <3> QED BY <1>0, <1>1, <1>3, <1>4, <2>1, <3>2 DEF CountsOK, FindsPlace, Fits
    <2>4. ASSUME Keeping' PROVE KeptOK' /\ \A c \in IssuerCalls : LeavesOne(issuerCall[c])'
      <3>1. KeptOK /\ \A c \in IssuerCalls : LeavesOne(issuerCall[c])
        BY <2>1, <2>4
      <3>2. KeptOK'
        BY <1>0, <1>1, <1>2, <2>1, <3>1 DEF KeptOK
      <3>3. \A c \in IssuerCalls : LeavesOne(issuerCall[c])'
        BY <1>0, <1>1, <1>3, <2>1, <2>4, <3>1 DEF LeavesOne
      <3> QED BY <3>2, <3>3
    <2> QED BY <1>1, <1>2, <2>2, <2>3, <2>4
  <1> QED BY <1>5, <1>6

\* Every step keeps the issuers' invariant.
LEMMA IssuersKeep == IssuersInv /\ [IssuersNext]_issuersVars => IssuersInv'
  <1> SUFFICES ASSUME IssuersInv, [IssuersNext]_issuersVars PROVE IssuersInv'
    OBVIOUS
  <1>1. ASSUME NEW c \in IssuerCalls, IssuerCallStep(c) PROVE IssuersInv'
    BY <1>1, IssuerCallsBegin, BranchCreated, TypesWritten, IssuerActivated, IssuerRemoved,
       IssuerCallFailed DEF IssuerCallStep
  <1>2. ASSUME UNCHANGED issuersVars PROVE IssuersInv'
    <2>1. UNCHANGED <<plan, issuer, types, issuing, used, issuerCall, issuerCalls, issuerFailures,
                      mingled>>
      BY <1>2 DEF issuersVars
    <2>2. /\ ActiveIssuers' = ActiveIssuers /\ Finite' = Finite /\ RowsName' = RowsName
          /\ CountsOK' = CountsOK /\ \A b \in Branches : PointsOf(b)' = PointsOf(b)
          /\ ActiveBranches' = ActiveBranches
      BY <2>1 DEF ActiveIssuers, Finite, RowsName, CountsOK, PointsOf, ActiveBranches
    <2>3. IssuersTypeOK' /\ Counting' = Counting /\ Keeping' = Keeping
      BY <2>1 DEF IssuersInv, IssuersTypeOK, Counting, Keeping
    <2>4. KeptOK' = KeptOK
      BY <2>1, <2>2 DEF KeptOK, BeingCreated
    <2>5. \A c \in IssuerCalls : /\ Names(issuerCall[c])' = Names(issuerCall[c])
                                 /\ FindsPlace(issuerCall[c])' = FindsPlace(issuerCall[c])
                                 /\ LeavesOne(issuerCall[c])' = LeavesOne(issuerCall[c])
      BY <2>1 DEF Names, FindsPlace, LeavesOne, Fits, PointsOf, ActiveBranches, ActiveIssuers
    <2> QED BY <2>1, <2>2, <2>3, <2>4, <2>5 DEF IssuersInv
  <1> QED BY <1>1, <1>2, OthersKeepIssuers DEF IssuersNext

\* The invariant says what was promised of the issuers.
LEMMA IssuersAreKept == IssuersInv => WithinPlan /\ LastOneStays
  <1> SUFFICES ASSUME IssuersInv PROVE WithinPlan /\ LastOneStays
    OBVIOUS
  <1>1. WithinPlan
    BY DEF IssuersInv, WithinPlan, Counting, CountsOK
  <1>2. ASSUME mingled \cap {"overlap", "failure", "document"} = {}
        PROVE  /\ ActiveIssuers # {} /\ issuing \cup used \subseteq ActiveIssuers
               /\ \A i \in ActiveIssuers : types[i] # {} \/ BeingCreated(i)
    <2>1. Keeping
      BY <1>2 DEF Keeping
    <2>2. KeptOK /\ RowsName
      BY <2>1 DEF IssuersInv
    <2> QED BY <2>2 DEF KeptOK, RowsName, ActiveIssuers
  <1> QED BY <1>1, <1>2 DEF LastOneStays

-----------------------------------------------------------------------------
(* MCDocuments: the parts together.                                        *)

DocumentsInv ==
    /\ part \in {"issuers", "endpoints", "webhooks", "email", "dispatch", "verification"}
    /\ IssuersInv /\ EndpointsInv /\ WebhooksInv /\ EmailInv /\ NoticeMailInv /\ LinkInv

\* Every part keeps its invariant, while it moves and while it does not.
LEMMA DocumentsHold == DocumentsSpec => []DocumentsInv
<1>1. DocumentsInit => DocumentsInv
  BY IssuersBegin, EndpointsBegin, HooksBegin, EmailBegins, NoticesBegin, LinksBegin
     DEF DocumentsInit, DocumentsInv
<1>2. DocumentsInv /\ [DocumentsNext]_<<part, issuersVars, endpointsVars, webhooksVars, emailVars,
                                        mailVars, linkVars>> => DocumentsInv'
  <2> SUFFICES ASSUME DocumentsInv,
                      [DocumentsNext]_<<part, issuersVars, endpointsVars, webhooksVars, emailVars,
                                        mailVars, linkVars>>
               PROVE  DocumentsInv'
    OBVIOUS
  <2>1. /\ part' = part
        /\ [IssuersNext]_issuersVars /\ [EndpointsNext]_endpointsVars
        /\ [WebhooksNext]_webhooksVars /\ [EmailNext]_emailVars
        /\ [NotificationMailNext]_mailVars /\ [VerificationMailNext]_linkVars
    BY DEF DocumentsNext
  <2>2. IssuersInv' /\ EndpointsInv' /\ LinkInv'
    BY <2>1, IssuersKeep, EndpointsKeep, LinksKeep DEF DocumentsInv
  <2>3. WebhooksInv' /\ EmailInv' /\ NoticeMailInv'
    BY <2>1, HooksKeep, EmailKeeps, NoticesKeep DEF DocumentsInv
  <2> QED BY <2>1, <2>2, <2>3 DEF DocumentsInv
<1> QED BY <1>1, <1>2, PTL DEF DocumentsSpec

\* The variables keep their types, whichever part moves.
THEOREM DocumentTypes == DocumentsSpec => []DocumentsTypeOK
<1>1. DocumentsInv => DocumentsTypeOK
  BY DEF DocumentsInv, IssuersInv, EndpointsInv, WebhooksInv, EmailInv, NoticeMailInv, LinkInv,
         DocumentsTypeOK
<1> QED BY <1>1, DocumentsHold, PTL

\* A tenant holds no more branches, issue points and webhook endpoints than its plan
\* allows, and never loses its last issuer, an issuer's last type, or an issuer that has
\* documents or one being created; unless what each property names has happened, a
\* removal that met a document creation included, however many there are.
THEOREM PlansAreKept == DocumentsSpec => []HeldWithinPlan
<1>1. DocumentsInv => HeldWithinPlan
  BY IssuersAreKept, EndpointsAreWithin DEF DocumentsInv, HeldWithinPlan
<1> QED BY <1>1, DocumentsHold, PTL

\* What the database says of a document's mail, a notification's and a verification
\* link's is true of it: a status that an event wrote is the message's, of a document and
\* of a link, unless another message was recorded meanwhile; one that the handler wrote
\* tells whether a mail went out, and PENDING that it will be tried, unless no attempt
\* could write FAILED; and the link that works was mailed, will be, or its mailing is
\* known to have ended, unless there is no provider.
THEOREM MailsAreAsTheyAreSaid == DocumentsSpec => []MailStatusIsTrue
<1>1. EmailInv => StatusIsOfMessage
  BY DEF EmailInv, Truthful, Tells, StatusIsOfMessage
<1>2. DocumentsInv => MailStatusIsTrue
  BY <1>1, NoticeStatusIsTold, LinkIsUseful DEF DocumentsInv, MailStatusIsTrue
<1> QED BY <1>2, DocumentsHold, PTL
=============================================================================
