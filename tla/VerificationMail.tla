-------------------------- MODULE VerificationMail --------------------------
(***************************************************************************)
(* The e-mails with the links that verify one tenant's address: the calls  *)
(* that make a link, the effect that mails it, and the provider's events.  *)
(*                                                                         *)
(* Every call stores its own token on the tenant and hands an effect of    *)
(* its own to the queue, which handles it again when it fails (see         *)
(* Outbox) and may handle several at once; a handling that is cut off      *)
(* counts as one that failed.  With EMAIL_PROVIDER=none a token is stored  *)
(* and nothing is queued.  What becomes of a token, and of the tenant's    *)
(* keys, is the subject of Accounts.                                       *)
(***************************************************************************)
EXTENDS Naturals, FiniteSets

CONSTANTS
    LinkCalls,     \* register(), recover() and resendVerification() calls
    LinkAttempts,  \* MAX_ATTEMPTS of an effect
    LinkReporting, \* bound: Mailgun events in hand at a time
    LinkFailures   \* bound: statements that fail, and processes that end

ASSUME LinkBounds == LinkAttempts \in Nat \ {0} /\ LinkFailures \in Nat

VARIABLES
    provided,      \* EMAIL_PROVIDER is not none
    link,          \* tenants.verification_token: the call that made it
    verified,      \* the tenant is ACTIVE
    shownMail,     \* tenants.verification_email_message_id and _status
    cooling,       \* the last e-mail was sent less than the cooldown ago
    linkCall,      \* what each call is doing
    mailing,       \* the effect of each call and its handling
    linkEvents,    \* events that found the tenant by its message id, about to be written
    linkFailures,  \* failures so far
    mailedLinks,   \* history: the messages the provider took
    statusOf,      \* history: the message the status shown was reported of
    linkCrossed    \* history: another message was recorded while an event was in hand

linkHistory == <<mailedLinks, statusOf, linkCrossed>>
linkVars == <<provided, link, verified, shownMail, cooling, linkCall, mailing, linkEvents,
              linkFailures, linkHistory>>

Messages == LinkCalls \X (0 .. LinkAttempts)
NoMessage == <<>>
LinkReports == {"DELIVERED", "COMPLAINED", "FAILED"}
LinkStates == {"NONE", "SENT"} \cup LinkReports

VerificationMailTypeOK ==
    /\ link \in SUBSET LinkCalls /\ Cardinality(link) <= 1
    /\ provided \in BOOLEAN /\ verified \in BOOLEAN /\ cooling \in BOOLEAN
    /\ shownMail \in [message : Messages \cup {NoMessage}, status : LinkStates]
    /\ linkCall \in [LinkCalls -> {"idle", "asked", "stored", "done", "ended"}]
    /\ mailing \in [LinkCalls -> [effect : {"none", "PENDING", "DONE", "FAILED"},
                                  at : {"idle", "sent", "recorded", "failing"},
                                  attempts : 0 .. LinkAttempts]]
    /\ linkEvents \in SUBSET (Messages \X LinkReports)
    /\ linkFailures \in 0 .. LinkFailures
    /\ mailedLinks \in SUBSET Messages /\ statusOf \in Messages \cup {NoMessage}
    /\ linkCrossed \in BOOLEAN

VerificationMailInit ==
    /\ provided \in BOOLEAN /\ link = {} /\ verified = FALSE /\ cooling = FALSE
    /\ shownMail = [message |-> NoMessage, status |-> "NONE"]
    /\ linkCall = [c \in LinkCalls |-> "idle"]
    /\ mailing = [c \in LinkCalls |-> [effect |-> "none", at |-> "idle", attempts |-> 0]]
    /\ linkEvents = {} /\ linkFailures = 0
    /\ mailedLinks = {} /\ statusOf = NoMessage /\ linkCrossed = FALSE

LinkFailure == linkFailures < LinkFailures /\ linkFailures' = linkFailures + 1

-----------------------------------------------------------------------------
(* The calls.                                                              *)

\* resendVerification() refuses a verified tenant, and one that was mailed just now.
AsksAgain(c) ==
    /\ linkCall[c] = "idle" /\ ~verified /\ ~cooling
    /\ linkCall' = [linkCall EXCEPT ![c] = "asked"]
    /\ UNCHANGED <<provided, link, verified, shownMail, cooling, mailing, linkFailures,
                   linkEvents, linkHistory>>

StoresLink(c) ==
    /\ linkCall[c] = "asked" /\ linkCall' = [linkCall EXCEPT ![c] = "stored"]
    /\ link' = {c}
    /\ UNCHANGED <<provided, verified, shownMail, cooling, mailing, linkFailures, linkEvents,
                   linkHistory>>

\* register() inserts an unverified tenant, and recover() demotes it, whatever its status.
DemotesForLink(c) ==
    /\ linkCall[c] = "idle" /\ linkCall' = [linkCall EXCEPT ![c] = "stored"]
    /\ link' = {c} /\ verified' = FALSE
    /\ UNCHANGED <<provided, shownMail, cooling, mailing, linkFailures, linkEvents, linkHistory>>

QueuesLink(c) ==
    /\ linkCall[c] = "stored" /\ linkCall' = [linkCall EXCEPT ![c] = "done"]
    /\ mailing' = IF provided THEN [mailing EXCEPT ![c].effect = "PENDING"] ELSE mailing
    /\ UNCHANGED <<provided, link, verified, shownMail, cooling, linkFailures, linkEvents,
                   linkHistory>>

\* The effect cannot be inserted, or the process ends before it is.
LinkCallEnds(c) ==
    /\ linkCall[c] = "stored" /\ linkCall' = [linkCall EXCEPT ![c] = "ended"] /\ LinkFailure
    /\ UNCHANGED <<provided, link, verified, shownMail, cooling, mailing, linkEvents, linkHistory>>

\* The link, or the administrator, verifies the tenant (see Accounts).
Verified ==
    /\ ~verified /\ link # {} /\ verified' = TRUE /\ link' = {}
    /\ UNCHANGED <<provided, shownMail, cooling, linkCall, mailing, linkFailures, linkEvents,
                   linkHistory>>

CoolsDown ==
    /\ cooling /\ cooling' = FALSE
    /\ UNCHANGED <<provided, link, verified, shownMail, linkCall, mailing, linkFailures,
                   linkEvents, linkHistory>>

-----------------------------------------------------------------------------
(* The handler of VERIFICATION_EMAIL_SEND.                                 *)

MessageOf(c) == <<c, mailing[c].attempts>>

\* The provider takes the mail, or does not.
SendsLink(c) ==
    /\ mailing[c].effect = "PENDING" /\ mailing[c].at = "idle"
    /\ \/ /\ mailing' = [mailing EXCEPT ![c].at = "sent"]
          /\ mailedLinks' = mailedLinks \cup {MessageOf(c)} /\ UNCHANGED linkFailures
       \/ /\ mailing' = [mailing EXCEPT ![c].at = "failing"]
          /\ LinkFailure /\ UNCHANGED mailedLinks
    /\ UNCHANGED <<provided, link, verified, shownMail, cooling, linkCall, linkEvents, statusOf,
                   linkCrossed>>

\* updateVerificationEmailSent(), over whatever message is there.
RecordsMessage(c) ==
    /\ mailing[c].at = "sent" /\ mailing' = [mailing EXCEPT ![c].at = "recorded"]
    /\ shownMail' = [message |-> MessageOf(c), status |-> "SENT"] /\ cooling' = TRUE
    /\ statusOf' = MessageOf(c) /\ linkCrossed' = (linkCrossed \/ linkEvents # {})
    /\ UNCHANGED <<provided, link, verified, linkCall, linkEvents, linkFailures, mailedLinks>>

\* The event VERIFICATION_EMAIL_SENT is written, and the effect is done.
LinkIsSent(c) ==
    /\ mailing[c].at = "recorded"
    /\ mailing' = [mailing EXCEPT ![c].at = "idle", ![c].effect = "DONE"]
    /\ UNCHANGED <<provided, link, verified, shownMail, cooling, linkCall, linkFailures,
                   linkEvents, linkHistory>>

\* One of the two writes fails.
LinkWriteFails(c) ==
    /\ mailing[c].at \in {"sent", "recorded"} /\ LinkFailure
    /\ mailing' = [mailing EXCEPT ![c].at = "failing"]
    /\ UNCHANGED <<provided, link, verified, shownMail, cooling, linkCall, linkEvents, linkHistory>>

\* The event is written, and the error goes on: the effect is tried again, as long as it
\* has attempts left.
LinkFails(c) ==
    /\ mailing[c].at = "failing"
    /\ mailing' = [mailing EXCEPT ![c] =
           [effect |-> IF @.attempts + 1 >= LinkAttempts THEN "FAILED" ELSE "PENDING",
            at |-> "idle", attempts |-> @.attempts + 1]]
    /\ UNCHANGED <<provided, link, verified, shownMail, cooling, linkCall, linkFailures,
                   linkEvents, linkHistory>>

-----------------------------------------------------------------------------
(* processEvent(), for a message that is no document's.  Events come in    *)
(* any order; an event of another message than the tenant's finds no       *)
(* tenant, and one that found it is written over what is there then.       *)

HearsOfLink(message, event) ==
    /\ message \in mailedLinks /\ shownMail.message = message
    /\ Cardinality(linkEvents) < LinkReporting
    /\ linkEvents' = linkEvents \cup {<<message, event>>}
    /\ UNCHANGED <<provided, link, verified, shownMail, cooling, linkCall, mailing, linkFailures,
                   linkHistory>>

WritesLinkEvent(report) ==
    /\ report \in linkEvents /\ linkEvents' = linkEvents \ {report}
    /\ shownMail' = [shownMail EXCEPT !.status = report[2]] /\ statusOf' = report[1]
    /\ UNCHANGED <<provided, link, verified, cooling, linkCall, mailing, linkFailures, mailedLinks,
                   linkCrossed>>

-----------------------------------------------------------------------------
VerificationMailNext ==
    \/ Verified \/ CoolsDown
    \/ \E c \in LinkCalls :
          \/ AsksAgain(c) \/ StoresLink(c) \/ DemotesForLink(c)
          \/ QueuesLink(c) \/ LinkCallEnds(c)
          \/ SendsLink(c) \/ RecordsMessage(c) \/ LinkIsSent(c) \/ LinkWriteFails(c) \/ LinkFails(c)
    \/ \E message \in Messages, event \in LinkReports : HearsOfLink(message, event)
    \/ \E report \in linkEvents : WritesLinkEvent(report)

VerificationMailSpec == VerificationMailInit /\ [][VerificationMailNext]_linkVars

-----------------------------------------------------------------------------
(* Properties.                                                             *)

\* The link the tenant can still use was mailed, or is about to be, or its mailing was
\* given up, or the call that stored it ended before its effect existed, whatever other
\* links were made meanwhile and in whatever order they are mailed; without a provider
\* the call is through and nothing is mailed (registration.service.js:38-43, 187-191,
\* 294-298, 343-356, effects/index.js:115-126).
LinkIsMailed ==
    \A c \in link : \/ linkCall[c] \in {"stored", "ended"}
                    \/ mailing[c].effect \in {"PENDING", "FAILED"}
                    \/ \E n \in 0 .. LinkAttempts : <<c, n>> \in mailedLinks
                    \/ ~provided /\ mailedLinks = {}

\* The status shown of the verification e-mail is that of the message shown, one that was
\* mailed; unless another message was recorded between the look-up of an event's tenant
\* and the writing of its status (mailgun-webhook.service.js:71-75, 96-116,
\* tenant.model.js:140-163).
LinkStatusIsOfMessage ==
    shownMail.message # NoMessage =>
        /\ shownMail.message \in mailedLinks
        /\ linkCrossed \/ statusOf = shownMail.message
=============================================================================
