---------------------------- MODULE MCDocuments ----------------------------
(***************************************************************************)
(* What a tenant issues documents with, and what is sent to it and to its  *)
(* buyers: issuers, webhook endpoints and deliveries, e-mails.  The        *)
(* modules share no state, and in every behaviour one of them moves.       *)
(***************************************************************************)
EXTENDS Issuers, Endpoints, Webhooks, DocumentEmail, NotificationMail, VerificationMail, TLC

CONSTANTS first, c1, c2, e1, e2, e3, f1, f2, j1, j2, w1

VARIABLE part    \* the module that moves

DocumentsInit ==
    /\ part \in {"issuers", "endpoints", "webhooks", "email", "dispatch", "verification"}
    /\ IssuersInit /\ EndpointsInit /\ WebhooksInit /\ EmailInit /\ NotificationMailInit
    /\ VerificationMailInit
    /\ issuer[first].branch = {c1} /\ types[first] = {c1}
    /\ part # "issuers" => plan = 1
    /\ part # "endpoints" => allowed = 1 /\ ~isActive
    /\ part # "dispatch" => ~mandatory /\ templates = {} /\ ~mailEnabled

DocumentsNext ==
    /\ UNCHANGED part
    /\ \/ /\ part = "issuers" /\ IssuersNext
          /\ UNCHANGED <<endpointsVars, webhooksVars, emailVars, mailVars, linkVars>>
       \/ /\ part = "endpoints" /\ EndpointsNext
          /\ UNCHANGED <<issuersVars, webhooksVars, emailVars, mailVars, linkVars>>
       \/ /\ part = "webhooks" /\ WebhooksNext
          /\ UNCHANGED <<issuersVars, endpointsVars, emailVars, mailVars, linkVars>>
       \/ /\ part = "email" /\ EmailNext
          /\ UNCHANGED <<issuersVars, endpointsVars, webhooksVars, mailVars, linkVars>>
       \/ /\ part = "dispatch" /\ NotificationMailNext
          /\ UNCHANGED <<issuersVars, endpointsVars, webhooksVars, emailVars, linkVars>>
       \/ /\ part = "verification" /\ VerificationMailNext
          /\ UNCHANGED <<issuersVars, endpointsVars, webhooksVars, emailVars, mailVars>>

DocumentsSpec ==
    DocumentsInit /\ [][DocumentsNext]_<<part, issuersVars, endpointsVars, webhooksVars,
                                         emailVars, mailVars, linkVars>>

\* Every variable of the module that moves has its type.
DocumentsTypeOK ==
    CASE part = "issuers"      -> IssuersTypeOK
      [] part = "endpoints"    -> EndpointsTypeOK
      [] part = "webhooks"     -> WebhooksTypeOK
      [] part = "email"        -> EmailTypeOK
      [] part = "dispatch"     -> NotificationMailTypeOK
      [] part = "verification" -> VerificationMailTypeOK

\* What a tenant has is within its plan, its branches and issue points and its webhook
\* endpoints, and it never loses the last of what it issues with, within the bounds
\* each part states (issuer.service.js:43-282, webhook-endpoint.service.js:44-126,
\* admin.service.js:309-373).
HeldWithinPlan == WithinPlan /\ LastOneStays /\ EndpointsWithinPlan

\* What the database says of a mail is true of that mail, or an effect will make it so: of
\* a document's, a notification's and the verification link's alike, the link's shown
\* status included.  The exceptions are those each part states: another message recorded
\* between an event's look-up and its write, an attempt counted without FAILED being
\* written, a call that ended before its effect, no provider
\* (mailgun-webhook.service.js:48-116, effects/index.js:115-126 and 166-186,
\* registration.service.js:38-43, 189, 296, 354).
MailStatusIsTrue == StatusIsOfMessage /\ StatusTellsMail /\ LinkIsMailed /\ LinkStatusIsOfMessage

Symmetry == Permutations(Fanouts) \cup Permutations(RetryJobs)
=============================================================================
