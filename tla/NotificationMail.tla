-------------------------- MODULE NotificationMail --------------------------
(***************************************************************************)
(* The e-mail of a notification of a type that has one: the row, the       *)
(* effect that sends it, the tenant's preference and the templates.        *)
(*                                                                         *)
(* Nothing here is a transaction.  An effect that fails is handled again   *)
(* until its attempts are used up, and one handling at a time is assumed;  *)
(* overlapping handlings and an administrator's retry are Outbox's.  What  *)
(* a notification says is left out.                                        *)
(***************************************************************************)
EXTENDS Naturals, FiniteSets

CONSTANTS
    Notifications,  \* notifications that may be created
    MailAttempts,   \* MAX_ATTEMPTS of an effect
    DispatchCrashes \* bound: processes that end, and statements that fail

ASSUME DispatchBounds == MailAttempts \in Nat \ {0} /\ DispatchCrashes \in Nat

VARIABLES
    mailStatus,     \* notifications.email_status; "none" before the row is there
    creating,       \* how far the call that creates it is
    dispatch,       \* the NOTIFICATION_DISPATCH effect and its handling
    mandatory,      \* the type cannot be switched off
    wantsMail,      \* the tenant's EMAIL preference for the type
    templates,      \* languages with a current template
    mailEnabled,    \* the provider is configured
    sentMails,      \* history: mails the provider took
    unsaid,         \* history: attempts counted without FAILED being written
    crashes         \* history: processes that ended, and statements that failed

mailVars == <<mailStatus, creating, dispatch, mandatory, wantsMail, templates, mailEnabled,
              sentMails, unsaid, crashes>>

Languages == {"es", "en"}

NotificationMailTypeOK ==
    /\ mailStatus \in [Notifications -> {"none", "NULL", "PENDING", "SENT", "SKIPPED", "FAILED"}]
    /\ creating \in [Notifications -> {"no", "created", "fanned", "marked", "done", "ended"}]
    /\ dispatch \in [Notifications -> [effect : {"none", "PENDING", "DONE", "FAILED"},
                                       at : {"idle", "read", "rendered", "sent", "off", "skipped", "written",
                                             "failing", "failed", "unsaid"},
                                       attempts : 0 .. MailAttempts]]
    /\ mandatory \in BOOLEAN /\ wantsMail \in BOOLEAN
    /\ templates \subseteq Languages /\ mailEnabled \in BOOLEAN
    /\ sentMails \in [Notifications -> Nat] /\ unsaid \in [Notifications -> 0 .. MailAttempts]
    /\ crashes \in 0 .. DispatchCrashes

NotificationMailInit ==
    /\ mailStatus = [n \in Notifications |-> "none"]
    /\ creating = [n \in Notifications |-> "no"]
    /\ dispatch = [n \in Notifications |-> [effect |-> "none", at |-> "idle", attempts |-> 0]]
    /\ mandatory \in BOOLEAN /\ wantsMail = TRUE /\ templates \in SUBSET Languages
    /\ mailEnabled \in BOOLEAN
    /\ sentMails = [n \in Notifications |-> 0] /\ unsaid = [n \in Notifications |-> 0]
    /\ crashes = 0

mailSettings == <<mandatory, wantsMail, templates, mailEnabled>>

\* A statement fails, or the process ends.
Fails == crashes < DispatchCrashes /\ crashes' = crashes + 1

-----------------------------------------------------------------------------
(* create*() and dispatchNotification().                                   *)

InsertsRow(n) ==
    /\ creating[n] = "no" /\ creating' = [creating EXCEPT ![n] = "created"]
    /\ mailStatus' = [mailStatus EXCEPT ![n] = "NULL"]
    /\ UNCHANGED <<dispatch, mailSettings, sentMails, unsaid, crashes>>

\* The WEBHOOK_FANOUT effect (see Webhooks) comes first.
QueuesFanOut(n) ==
    /\ creating[n] = "created" /\ creating' = [creating EXCEPT ![n] = "fanned"]
    /\ UNCHANGED <<mailStatus, dispatch, mailSettings, sentMails, unsaid, crashes>>

MarksPending(n) ==
    /\ creating[n] = "fanned" /\ creating' = [creating EXCEPT ![n] = "marked"]
    /\ mailStatus' = [mailStatus EXCEPT ![n] = "PENDING"]
    /\ UNCHANGED <<dispatch, mailSettings, sentMails, unsaid, crashes>>

QueuesMail(n) ==
    /\ creating[n] = "marked" /\ creating' = [creating EXCEPT ![n] = "done"]
    /\ dispatch' = [dispatch EXCEPT ![n].effect = "PENDING"]
    /\ UNCHANGED <<mailStatus, mailSettings, sentMails, unsaid, crashes>>

\* A statement fails, or the process ends; nothing creates the notification again.
CreationEnds(n) ==
    /\ creating[n] \in {"created", "fanned", "marked"} /\ Fails
    /\ creating' = [creating EXCEPT ![n] = "ended"]
    /\ UNCHANGED <<mailStatus, dispatch, mailSettings, sentMails, unsaid>>

-----------------------------------------------------------------------------
(* The handler of NOTIFICATION_DISPATCH, and render().                     *)

MovesDispatch(n, place) == dispatch' = [dispatch EXCEPT ![n].at = place]

ReadsPreference(n) ==
    /\ dispatch[n].effect = "PENDING" /\ dispatch[n].at = "idle"
    /\ MovesDispatch(n, IF mandatory \/ wantsMail THEN "read" ELSE "off")
    /\ UNCHANGED <<mailStatus, creating, mailSettings, sentMails, unsaid, crashes>>

\* The notification or the preference cannot be read: nothing catches that.
LookupFails(n) ==
    /\ dispatch[n].effect = "PENDING" /\ dispatch[n].at = "idle"
    /\ MovesDispatch(n, "unsaid") /\ Fails
    /\ UNCHANGED <<mailStatus, creating, mailSettings, sentMails, unsaid>>

\* The tenant's language, or the default one.
Renders(n, language) ==
    /\ dispatch[n].at = "read"
    /\ MovesDispatch(n, IF {language, "es"} \cap templates = {} THEN "failing" ELSE "rendered")
    /\ UNCHANGED <<mailStatus, creating, mailSettings, sentMails, unsaid, crashes>>

\* Without a provider nothing is sent; the provider takes it, or fails.
SendsMail(n) ==
    /\ dispatch[n].at = "rendered"
    /\ IF mailEnabled
       THEN \/ MovesDispatch(n, "sent") /\ sentMails' = [sentMails EXCEPT ![n] = @ + 1]
            \/ MovesDispatch(n, "failing") /\ UNCHANGED sentMails
       ELSE MovesDispatch(n, "skipped") /\ UNCHANGED sentMails
    /\ UNCHANGED <<mailStatus, creating, mailSettings, unsaid, crashes>>

WritesOutcome(n) ==
    /\ dispatch[n].at \in {"sent", "off", "skipped"} /\ MovesDispatch(n, "written")
    /\ mailStatus' = [mailStatus EXCEPT ![n] = IF dispatch[n].at = "sent" THEN "SENT" ELSE "SKIPPED"]
    /\ UNCHANGED <<creating, mailSettings, sentMails, unsaid, crashes>>

CompletesMail(n) ==
    /\ dispatch[n].at = "written"
    /\ dispatch' = [dispatch EXCEPT ![n].at = "idle", ![n].effect = "DONE"]
    /\ UNCHANGED <<mailStatus, creating, mailSettings, sentMails, unsaid, crashes>>

\* A statement inside the try fails, the write of SENT after the mail went out included.
StatementFails(n) ==
    /\ dispatch[n].at \in {"read", "sent", "skipped"} /\ MovesDispatch(n, "failing") /\ Fails
    /\ UNCHANGED <<mailStatus, creating, mailSettings, sentMails, unsaid>>

WritesFailure(n) ==
    /\ dispatch[n].at = "failing" /\ MovesDispatch(n, "failed")
    /\ mailStatus' = [mailStatus EXCEPT ![n] = "FAILED"]
    /\ UNCHANGED <<creating, mailSettings, sentMails, unsaid, crashes>>

\* FAILED cannot be written, or SKIPPED for a preference that is off, which nothing catches.
StatusFails(n) ==
    /\ dispatch[n].at \in {"off", "failing"} /\ MovesDispatch(n, "unsaid") /\ Fails
    /\ UNCHANGED <<mailStatus, creating, mailSettings, sentMails, unsaid>>

\* Mutant: the attempt that fails is not counted before the limit is looked at.
GivesUpLate(n) ==
    /\ dispatch[n].at \in {"failed", "unsaid"}
    /\ dispatch' = [dispatch EXCEPT ![n] =
           [effect |-> IF @.attempts >= MailAttempts THEN "FAILED" ELSE "PENDING",
            at |-> "idle", attempts |-> @.attempts + 1]]
    /\ unsaid' = [unsaid EXCEPT ![n] = IF dispatch[n].at = "unsaid" THEN @ + 1 ELSE @]
    /\ UNCHANGED <<mailStatus, creating, mailSettings, sentMails, crashes>>

\* The effect fails: it is tried again until it has no attempt left.
CountsAttempt(n) ==
    /\ dispatch[n].at \in {"failed", "unsaid"}
    /\ dispatch' = [dispatch EXCEPT ![n] =
           [effect |-> IF @.attempts + 1 >= MailAttempts THEN "FAILED" ELSE "PENDING",
            at |-> "idle", attempts |-> @.attempts + 1]]
    /\ unsaid' = [unsaid EXCEPT ![n] = IF dispatch[n].at = "unsaid" THEN @ + 1 ELSE @]
    /\ UNCHANGED <<mailStatus, creating, mailSettings, sentMails, crashes>>

\* The process ends, or the effect's own row cannot be written: its claim is undone, and
\* the effect handled again from the start.
HandlerCrashes(n) ==
    /\ dispatch[n].at # "idle" /\ MovesDispatch(n, "idle") /\ Fails
    /\ UNCHANGED <<mailStatus, creating, mailSettings, sentMails, unsaid>>

-----------------------------------------------------------------------------
(* updatePreferences(), and publish() of a template.                       *)

SetsPreference ==
    /\ ~mandatory /\ wantsMail' = ~wantsMail
    /\ UNCHANGED <<mailStatus, creating, dispatch, mandatory, templates, mailEnabled, sentMails,
                   unsaid, crashes>>

\* There is a current one for the language from then on.
PublishesTemplate(language) ==
    /\ templates' = templates \cup {language}
    /\ UNCHANGED <<mailStatus, creating, dispatch, mandatory, wantsMail, mailEnabled, sentMails,
                   unsaid, crashes>>

NotificationMailNext ==
    \/ SetsPreference
    \/ \E language \in Languages : PublishesTemplate(language)
    \/ \E n \in Notifications :
          \/ InsertsRow(n) \/ QueuesFanOut(n) \/ MarksPending(n) \/ QueuesMail(n) \/ CreationEnds(n)
          \/ ReadsPreference(n) \/ LookupFails(n) \/ SendsMail(n) \/ WritesOutcome(n)
          \/ CompletesMail(n) \/ StatementFails(n) \/ WritesFailure(n) \/ StatusFails(n)
          \/ CountsAttempt(n) \/ HandlerCrashes(n)
          \/ \E language \in Languages : Renders(n, language)

NotificationMailSpec == NotificationMailInit /\ [][NotificationMailNext]_mailVars

-----------------------------------------------------------------------------
(* Property.                                                               *)

\* An e-mail that is still PENDING has an effect that will attempt it, unless the call
\* that creates the notification is, or was ended, between the two, or every attempt of
\* the effect failed where FAILED is not written; when the effect is done, the status
\* tells whether a mail went out, of exactly one mail unless a process ended or a
\* statement failed; and when it is given up with FAILED written in every attempt, the
\* status is FAILED (notification.service.js:147-155, effects/index.js:166-186).
StatusTellsMail ==
    \A n \in Notifications :
        /\ mailStatus[n] = "PENDING" =>
              \/ creating[n] \in {"marked", "ended"} \/ dispatch[n].effect = "PENDING"
              \/ dispatch[n].effect = "FAILED" /\ unsaid[n] = dispatch[n].attempts
        /\ dispatch[n].effect = "DONE" =>
              \/ mailStatus[n] = "SENT" /\ sentMails[n] >= 1
              \/ mailStatus[n] = "SKIPPED" /\ (mandatory => ~mailEnabled)
        /\ dispatch[n].effect = "DONE" /\ crashes = 0 =>
              sentMails[n] = IF mailStatus[n] = "SENT" THEN 1 ELSE 0
        /\ dispatch[n].effect = "FAILED" /\ unsaid[n] = 0 => mailStatus[n] = "FAILED"
=============================================================================
