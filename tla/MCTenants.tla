----------------------------- MODULE MCTenants -----------------------------
(***************************************************************************)
(* The agreements a tenant accepts, its subscription, the prices it is     *)
(* told of, its notifications, and the attempts counted against it.  The   *)
(* modules share no state, and in every behaviour one of them moves.       *)
(***************************************************************************)
EXTENDS AttemptTracker, Agreements, Billing, Prices, Notices, CertAlerts, TLC

CONSTANTS k1, k2, k3, x1, b1, b2, plan1, seat1, d1, d2, d3, d4

VARIABLE part   \* the module that moves

TenantsInit ==
    /\ part \in {"attempts", "agreements", "billing", "prices", "notices",
                 "certificates"}
    /\ AttemptsInit /\ AgreementsInit /\ BillingInit /\ PricesInit
    /\ NoticesInit /\ CertInit
    /\ price[plan1].status = "PUBLISHED" /\ price[seat1].table = "seat_prices"
    /\ price[seat1].status = "PUBLISHED"
    /\ part # "billing" => subscription = <<>> /\ ~tenant.sandbox
    \* A year paid from the start is over after the last day: it comes by a request instead.
    /\ tenant.cap.interval = "MONTHLY"

TenantsNext ==
    /\ UNCHANGED part
    /\ \/ /\ part = "attempts" /\ AttemptsNext
          /\ UNCHANGED <<agreementsVars, billingVars, pricesVars, noticesVars, certVars>>
       \/ /\ part = "agreements" /\ AgreementsNext
          /\ UNCHANGED <<attemptsVars, billingVars, pricesVars, noticesVars, certVars>>
       \/ /\ part = "billing" /\ BillingNext
          /\ UNCHANGED <<attemptsVars, agreementsVars, pricesVars, noticesVars, certVars>>
       \/ /\ part = "prices" /\ PricesNext
          /\ UNCHANGED <<attemptsVars, agreementsVars, billingVars, noticesVars, certVars>>
       \/ /\ part = "notices" /\ NoticesNext
          /\ UNCHANGED <<attemptsVars, agreementsVars, billingVars, pricesVars, certVars>>
       \/ /\ part = "certificates" /\ CertNext
          /\ UNCHANGED <<attemptsVars, agreementsVars, billingVars, pricesVars, noticesVars>>

TenantsSpec ==
    TenantsInit /\ [][TenantsNext]_<<part, attemptsVars, agreementsVars, billingVars,
                                     pricesVars, noticesVars, certVars>>

\* Every variable of the module that moves has its type.
TenantsTypeOK ==
    CASE part = "attempts"     -> AttemptsTypeOK
      [] part = "agreements"   -> AgreementsTypeOK
      [] part = "billing"      -> BillingTypeOK
      [] part = "prices"       -> PricesTypeOK
      [] part = "notices"      -> NoticesTypeOK
      [] part = "certificates" -> CertTypeOK

\* A notification tells what is so: a price once, the documents it counts, the
\* certificate as it is; within the bounds each part states (pricing.service.js:119-136,
\* notification.service.js:185-213, 471-500).
NoticesTellState == ToldOnce /\ NoticeCountsDocuments /\ AlertTellsCertificate

Symmetry == Permutations(Versions) \cup Permutations(Callers)
=============================================================================
