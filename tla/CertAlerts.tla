----------------------------- MODULE CertAlerts -----------------------------
(***************************************************************************)
(* The certificate alert of one issuer, kept by the notification job.      *)
(*                                                                         *)
(* The job reads the issuers, looks an unread alert up, and then writes it *)
(* by id, creates one or dismisses it, without a lock; jobs may overlap.   *)
(***************************************************************************)
EXTENDS Naturals, FiniteSets

CONSTANTS
    CertJobs,        \* runCertChecksForTenant() calls, again and again
    Alerts,          \* alert rows that may be created
    CertFailures     \* bound: statements that fail, and crashes

ASSUME CertBounds == IsFiniteSet(Alerts) /\ CertFailures \in Nat

VARIABLES
    cert,            \* how long the certificate still is valid
    alert,           \* the issuer's CERT_EXPIRING and CERT_EXPIRED rows: what the unread say
    certJob,         \* what each job is doing
    certFailures,    \* failures so far
    fresh,           \* history: nothing but this job moved since a job looked for the alert
    twin             \* history: two jobs once looked for the alert at the same time

certHistory == <<fresh, twin>>
certVars == <<cert, alert, certJob, certFailures, certHistory>>

CertStates == {"valid", "expiring", "expired"}

CertTypeOK ==
    /\ cert \in CertStates
    /\ alert \in [Alerts -> {"absent", "read"} \cup CertStates]
    /\ certJob \in [CertJobs -> [at : {"idle", "read", "found"}, cert : CertStates,
                                 existing : SUBSET Alerts]]
    /\ certFailures \in Nat /\ fresh \in BOOLEAN /\ twin \in BOOLEAN

NoCertJob == [at |-> "idle", cert |-> "valid", existing |-> {}]

CertInit ==
    /\ cert = "valid" /\ alert = [a \in Alerts |-> "absent"]
    /\ certJob = [j \in CertJobs |-> NoCertJob]
    /\ certFailures = 0 /\ fresh = FALSE /\ twin = FALSE

CertFailure == certFailures < CertFailures /\ certFailures' = certFailures + 1

-----------------------------------------------------------------------------
(* runCertChecksForTenant(), for this issuer.                              *)

Unread == {a \in Alerts : alert[a] \in CertStates}

\* The issuers are read.
ReadsCert(j) ==
    /\ certJob[j].at = "idle"
    /\ certJob' = [certJob EXCEPT ![j] = [NoCertJob EXCEPT !.at = "read", !.cert = cert]]
    /\ fresh' = FALSE
    /\ UNCHANGED <<cert, alert, certFailures, twin>>

\* findUnreadCertAlertByIssuer(): one of those unread.  The newest is the one written last,
\* which is left open here.
FindsAlert(j) ==
    /\ certJob[j].at = "read"
    /\ \E found \in SUBSET Unread :
          /\ Cardinality(found) = IF Unread = {} THEN 0 ELSE 1
          /\ certJob' = [certJob EXCEPT ![j].at = "found", ![j].existing = found]
    /\ twin' = (twin \/ \E k \in CertJobs \ {j} : certJob[k].at = "found")
    /\ fresh' = \A k \in CertJobs \ {j} : certJob[k].at = "idle"
    /\ UNCHANGED <<cert, alert, certFailures>>

\* More than 30 days are left: if there is one, every unread alert is marked read.
DismissesAlerts(j) ==
    alert' = IF certJob[j].existing = {} THEN alert
             ELSE [a \in Alerts |-> IF a \in Unread THEN "read" ELSE alert[a]]

\* The alert found is rewritten, and stays read if it was read since; or one is created.
RaisesAlert(j) ==
    \/ /\ certJob[j].existing # {}
       /\ alert' = [a \in Alerts |-> IF a \in certJob[j].existing \cap Unread
                                     THEN certJob[j].cert ELSE alert[a]]
    \/ /\ certJob[j].existing = {}
       /\ \E a \in Alerts : alert[a] = "absent" /\ alert' = [alert EXCEPT ![a] = certJob[j].cert]

ChecksCert(j) ==
    /\ certJob[j].at = "found"
    /\ \/ certJob[j].cert = "valid" /\ DismissesAlerts(j)
       \/ certJob[j].cert # "valid" /\ RaisesAlert(j)
    /\ certJob' = [certJob EXCEPT ![j] = NoCertJob]
    /\ fresh' = (fresh /\ certJob[j].cert = cert)
    /\ UNCHANGED <<cert, certFailures, twin>>

\* A statement fails: the job goes on with the next tenant.
CertJobFails(j) ==
    /\ certJob[j].at # "idle" /\ CertFailure
    /\ certJob' = [certJob EXCEPT ![j] = NoCertJob] /\ fresh' = FALSE
    /\ UNCHANGED <<cert, alert, twin>>

\* Time passes, or renewCertificate().
CertChanges ==
    /\ cert' = CASE cert = "valid" -> "expiring" [] cert = "expiring" -> "expired" [] OTHER -> "valid"
    /\ fresh' = FALSE
    /\ UNCHANGED <<alert, certJob, certFailures, twin>>

ReadsAlert(a) ==
    /\ a \in Unread /\ alert' = [alert EXCEPT ![a] = "read"] /\ fresh' = FALSE
    /\ UNCHANGED <<cert, certJob, certFailures, twin>>

-----------------------------------------------------------------------------
CertNext ==
    \/ \E j \in CertJobs : ReadsCert(j) \/ FindsAlert(j) \/ ChecksCert(j) \/ CertJobFails(j)
    \/ \E a \in Alerts : ReadsAlert(a)
    \/ CertChanges

CertSpec == CertInit /\ [][CertNext]_certVars

-----------------------------------------------------------------------------
(* Property.                                                               *)

\* After a job ended well, and until the certificate changes, the tenant reads an alert
\* or another job begins, there is one unread alert, which says how long the
\* certificate is valid, or none when it is for long; unless two jobs once looked for
\* the alert at the same time (notification.service.js:471-500).
AlertTellsCertificate ==
    fresh /\ (\A j \in CertJobs : certJob[j].at = "idle") /\ ~twin =>
        IF cert = "valid" THEN Unread = {} ELSE \E a \in Alerts : Unread = {a} /\ alert[a] = cert
=============================================================================
