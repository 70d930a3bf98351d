------------------------------ MODULE Accounts ------------------------------
(***************************************************************************)
(* One tenant: registration, e-mail verification, account recovery, its    *)
(* API keys and its promotion to production.                               *)
(*                                                                         *)
(* A request reads the tenant when it begins and writes it later, without  *)
(* a lock and outside any transaction, apart from the tenant's own INSERT. *)
(* Reads that follow each other are one step.  A key is its environment,   *)
(* and whether it is reserved for the web application; the check of scopes *)
(* and of the tier's limit refuses a request, and is left out.             *)
(***************************************************************************)
EXTENDS Naturals, FiniteSets

CONSTANTS
    ApiKeys,         \* api_keys that may be created
    Recoveries,      \* recover() calls with the right certificate
    Resends,         \* resendVerification() calls
    Clicks,          \* verifyEmail() calls
    PromoteCalls,    \* promote() calls, the tenant's own and the administrator's
    Mints,           \* createKey() and createApiKey() calls, the tenant's and the administrator's
    Revocations,     \* revokeKey() calls
    MaxRequests,     \* bound: how many of these calls are made
    AccountFailures  \* bound: statements that fail, and crashes

ASSUME ClicksAssumption ==
    Clicks \cap (Recoveries \cup Resends \cup PromoteCalls \cup Mints \cup Revocations) = {}

VARIABLES
    account,         \* tenants: status, verification_token and sandbox
    issuerExists,    \* the tenant's first issuer
    key,             \* api_keys
    registration,    \* the register() call
    request,         \* what each of the other calls is doing
    issued,          \* verification tokens made so far; a later one is a greater one
    accountFailures, \* failures so far
    owed,            \* history: the token of the last recovery, until it or a later one is redeemed
    overtaken,       \* history: a recovery demoted the tenant while a click had its token found
    excused          \* history: something may have taken the tenant's last key away

accountHistory == <<owed, overtaken, excused>>
accountsVars == <<account, issuerExists, key, registration, request, issued, accountFailures,
                  accountHistory>>

AccountCalls == Recoveries \cup Resends \cup Clicks \cup PromoteCalls \cup Mints \cup Revocations
Environments == {"sandbox", "production"}

Request == [at : {"idle", "read", "revoked", "keyed", "listed", "creating", "minting", "done"},
            token : Nat, env : Environments, keys : SUBSET ApiKeys, by : SUBSET ApiKeys]

AccountsTypeOK ==
    /\ account \in [status : {"ABSENT", "PENDING_VERIFICATION", "ACTIVE", "SUSPENDED"},
                    token : Nat, sandbox : BOOLEAN]
    /\ issuerExists \in BOOLEAN
    /\ key \in [ApiKeys -> [env : Environments \cup {"none"}, active : BOOLEAN,
                            reserved : BOOLEAN]]
    /\ registration \in {"idle", "tenant", "issuer", "key", "done"}
    /\ request \in [AccountCalls -> Request]
    /\ issued \in Nat /\ accountFailures \in Nat /\ owed \in Nat /\ overtaken \in BOOLEAN
    /\ excused \in BOOLEAN

NoRequest == [at |-> "idle", token |-> 0, env |-> "sandbox", keys |-> {}, by |-> {}]

AccountsInit ==
    /\ account = [status |-> "ABSENT", token |-> 0, sandbox |-> TRUE]
    /\ issuerExists = FALSE
    /\ key = [k \in ApiKeys |-> [env |-> "none", active |-> FALSE, reserved |-> FALSE]]
    /\ registration = "idle"
    /\ request = [c \in AccountCalls |-> NoRequest]
    /\ issued = 0 /\ accountFailures = 0
    /\ owed = 0 /\ overtaken = FALSE /\ excused = FALSE

Environment == IF account.sandbox THEN "sandbox" ELSE "production"
ActiveKeys == {k \in ApiKeys : key[k].active}
UsableKeys == {k \in ActiveKeys : key[k].env = Environment}

NewKey(k, env, reserved) ==
    /\ key[k].env = "none"
    /\ key' = [key EXCEPT ![k] = [env |-> env, active |-> TRUE, reserved |-> reserved]]

RevokesAll(env) ==
    key' = [k \in ApiKeys |-> IF key[k].env = env THEN [key[k] EXCEPT !.active = FALSE]
                              ELSE key[k]]

BeginsCall(c) ==
    /\ request[c].at = "idle"
    /\ Cardinality({d \in AccountCalls : request[d].at # "idle"}) < MaxRequests
Steps(c, place) == request' = [request EXCEPT ![c].at = place]
Closes(c) == request' = [request EXCEPT ![c] = [NoRequest EXCEPT !.at = "done"]]

AccountFailure == accountFailures < AccountFailures /\ accountFailures' = accountFailures + 1

-----------------------------------------------------------------------------
(* register().  The tenant and its quota are one transaction; the issuer,  *)
(* the document types and sequentials, and the key come after it.          *)

Registers ==
    /\ registration = "idle" /\ account.status = "ABSENT"
    /\ registration' = "tenant" /\ issued' = issued + 1
    /\ account' = [status |-> "PENDING_VERIFICATION", token |-> issued', sandbox |-> TRUE]
    /\ UNCHANGED <<issuerExists, key, request, accountFailures, accountHistory>>

CreatesIssuer ==
    /\ registration = "tenant" /\ registration' = "issuer" /\ issuerExists' = TRUE
    /\ UNCHANGED <<account, key, request, issued, accountFailures, accountHistory>>

CreatesInitialKey(k) ==
    /\ registration = "issuer" /\ registration' = "key" /\ NewKey(k, "sandbox", TRUE)
    /\ UNCHANGED <<account, issuerExists, request, issued, accountFailures, accountHistory>>

\* The effect with the verification link is inserted, and the key is answered.
MailsLink ==
    /\ registration = "key" /\ registration' = "done"
    /\ UNCHANGED <<account, issuerExists, key, request, issued, accountFailures, accountHistory>>

\* The issuer exists under another tenant, or a statement fails: the tenant stays, and
\* a second register() is refused because of it.
RegistrationFails ==
    /\ registration \in {"tenant", "issuer", "key"} /\ AccountFailure
    /\ registration' = "done" /\ excused' = (excused \/ registration # "key")
    /\ UNCHANGED <<account, issuerExists, key, request, issued, owed, overtaken>>

-----------------------------------------------------------------------------
(* recover(), not alreadyLinked.                                           *)

FindsAccount(c) ==
    /\ BeginsCall(c) /\ issuerExists
    /\ account.status \in {"PENDING_VERIFICATION", "ACTIVE"}
    /\ request' = [request EXCEPT ![c].at = "read", ![c].env = Environment]
    /\ UNCHANGED <<account, issuerExists, key, registration, issued, accountFailures, accountHistory>>

RevokesKeys(c) ==
    /\ request[c].at = "read" /\ RevokesAll(request[c].env) /\ Steps(c, "revoked")
    /\ UNCHANGED <<account, issuerExists, registration, issued, accountFailures, accountHistory>>

CreatesRecoveryKey(c, k) ==
    /\ request[c].at = "revoked" /\ Steps(c, "keyed")
    /\ \E reserved \in BOOLEAN : NewKey(k, request[c].env, reserved)
    /\ UNCHANGED <<account, issuerExists, registration, issued, accountFailures, accountHistory>>

\* demoteToPendingVerification(), whatever the status has become; then the event, and
\* the effect with the new link.
Demotes(c) ==
    /\ request[c].at = "keyed" /\ Closes(c)
    /\ issued' = issued + 1 /\ owed' = issued'
    /\ account' = [account EXCEPT !.status = "PENDING_VERIFICATION", !.token = issued']
    /\ overtaken' = (overtaken \/ \E v \in Clicks : request[v].at = "read")
    /\ UNCHANGED <<issuerExists, key, registration, accountFailures, excused>>

-----------------------------------------------------------------------------
(* resendVerification() and verifyEmail().                                 *)

ReadsUnverified(c) ==
    /\ BeginsCall(c) /\ account.status = "PENDING_VERIFICATION" /\ Steps(c, "read")
    /\ UNCHANGED <<account, issuerExists, key, registration, issued, accountFailures, accountHistory>>

RenewsToken(c) ==
    /\ request[c].at = "read" /\ Closes(c)
    /\ issued' = issued + 1 /\ account' = [account EXCEPT !.token = issued']
    /\ UNCHANGED <<issuerExists, key, registration, accountFailures, accountHistory>>

\* Mutant: a link that a later one has replaced still verifies.
FindsAnyToken(v) ==
    /\ BeginsCall(v)
    /\ \E t \in 1 .. issued : request' = [request EXCEPT ![v].at = "read", ![v].token = t]
    /\ UNCHANGED <<account, issuerExists, key, registration, issued, accountFailures, accountHistory>>

\* findByVerificationToken(): the row that has this token, not expired, whatever its
\* status.
FindsToken(v) ==
    /\ BeginsCall(v) /\ account.token # 0
    /\ request' = [request EXCEPT ![v].at = "read", ![v].token = account.token]
    /\ UNCHANGED <<account, issuerExists, key, registration, issued, accountFailures, accountHistory>>

\* activate(): every column, without looking at them.
Activated == account' = [account EXCEPT !.status = "ACTIVE", !.token = 0]

Activates(v) ==
    /\ request[v].at = "read" /\ Activated /\ Closes(v)
    /\ owed' = IF request[v].token >= owed THEN 0 ELSE owed
    /\ UNCHANGED <<issuerExists, key, registration, issued, accountFailures, overtaken, excused>>

-----------------------------------------------------------------------------
(* promote(), in tenant.service.js and in admin.service.js: the            *)
(* administrator's does not look at the status.                            *)

ChecksSandbox(c) ==
    /\ BeginsCall(c) /\ account.status # "ABSENT" /\ account.sandbox /\ Steps(c, "read")
    /\ UNCHANGED <<account, issuerExists, key, registration, issued, accountFailures, accountHistory>>

\* Production sequentials are initialised, and the keys are listed, the reserved too.
ListsSandboxKeys(c) ==
    /\ request[c].at = "read"
    /\ request' = [request EXCEPT ![c].at = "listed", ![c].keys = ActiveKeys]
    /\ excused' = (excused \/ ActiveKeys = {})
    /\ UNCHANGED <<account, issuerExists, key, registration, issued, accountFailures, owed, overtaken>>

RevokesSandbox(c) ==
    /\ request[c].at = "listed" /\ RevokesAll("sandbox") /\ Steps(c, "creating")
    /\ UNCHANGED <<account, issuerExists, registration, issued, accountFailures, accountHistory>>

MirrorsKey(c, old, k) ==
    /\ request[c].at = "creating" /\ old \in request[c].keys
    /\ NewKey(k, "production", key[old].reserved)
    /\ request' = [request EXCEPT ![c].keys = @ \ {old}]
    /\ UNCHANGED <<account, issuerExists, registration, issued, accountFailures, accountHistory>>

\* Mutant: the tenant is promoted before every key has its copy.
PromotesEarly(c) ==
    /\ request[c].at = "creating" /\ Closes(c)
    /\ account' = [account EXCEPT !.sandbox = FALSE]
    /\ UNCHANGED <<issuerExists, key, registration, issued, accountFailures, accountHistory>>

PromotesTenant(c) ==
    /\ request[c].at = "creating" /\ request[c].keys = {} /\ Closes(c)
    /\ account' = [account EXCEPT !.sandbox = FALSE]
    /\ UNCHANGED <<issuerExists, key, registration, issued, accountFailures, accountHistory>>

-----------------------------------------------------------------------------
(* api-key.service.js.                                                     *)

\* An active tenant's key may ask for a sandbox key, and for a production key once one
\* the tenant can see exists.
AsksForKey(c, env) ==
    /\ BeginsCall(c) /\ account.status = "ACTIVE" /\ ActiveKeys # {}
    /\ env = "production" => \E k \in ActiveKeys : key[k].env = env /\ ~key[k].reserved
    /\ request' = [request EXCEPT ![c].at = "read", ![c].env = env]
    /\ UNCHANGED <<account, issuerExists, key, registration, issued, accountFailures, accountHistory>>

MintsKey(c, k) ==
    /\ request[c].at = "read" /\ NewKey(k, request[c].env, FALSE) /\ Closes(c)
    /\ UNCHANGED <<account, issuerExists, registration, issued, accountFailures, accountHistory>>

AsksToRevoke(c, by, k) ==
    /\ BeginsCall(c) /\ by \in ActiveKeys /\ k \in ActiveKeys \ {by} /\ ~key[k].reserved
    /\ account.status # "SUSPENDED"
    /\ request' = [request EXCEPT ![c].at = "read", ![c].by = {by}, ![c].keys = {k}]
    /\ UNCHANGED <<account, issuerExists, key, registration, issued, accountFailures, accountHistory>>

\* By the time of the write the key that asked may be revoked itself; and it may be a key
\* for the other environment than the one it revokes.
RevokesOne(c) ==
    /\ request[c].at = "read" /\ Closes(c)
    /\ key' = [k \in ApiKeys |-> IF k \in request[c].keys THEN [key[k] EXCEPT !.active = FALSE]
                                 ELSE key[k]]
    /\ excused' = \/ excused \/ \E b \in request[c].by : ~key[b].active
                  \/ \E b \in request[c].by, k \in request[c].keys : key[b].env # key[k].env
    /\ UNCHANGED <<account, issuerExists, registration, issued, accountFailures, owed, overtaken>>

-----------------------------------------------------------------------------
(* The administrator, and failures.                                        *)

\* updateTenantStatus() leaves the token; verifyTenant() is activate().
AdminSetsStatus ==
    /\ account.status # "ABSENT"
    /\ \/ \E st \in {"PENDING_VERIFICATION", "ACTIVE", "SUSPENDED"} :
             account' = [account EXCEPT !.status = st]
       \/ Activated
    /\ owed' = IF account'.status = "ACTIVE" THEN 0 ELSE owed
    /\ UNCHANGED <<issuerExists, key, registration, request, issued, accountFailures, overtaken,
                   excused>>

AdminRevokes(k) ==
    /\ key[k].active /\ key' = [key EXCEPT ![k].active = FALSE]
    /\ excused' = TRUE
    /\ UNCHANGED <<account, issuerExists, registration, request, issued, accountFailures, owed,
                   overtaken>>

\* createApiKey(): for either environment and of either kind, whatever the status; it
\* may revoke the environment's keys first.
AdminAsksForKey(c, env) ==
    /\ BeginsCall(c) /\ account.status # "ABSENT"
    /\ request' = [request EXCEPT ![c].at = "minting", ![c].env = env]
    /\ \/ UNCHANGED <<key, excused>>
       \/ RevokesAll(env) /\ excused' = TRUE
    /\ UNCHANGED <<account, issuerExists, registration, issued, accountFailures, owed, overtaken>>

AdminMintsKey(c, k) ==
    /\ request[c].at = "minting" /\ Closes(c)
    /\ \E reserved \in BOOLEAN : NewKey(k, request[c].env, reserved)
    /\ UNCHANGED <<account, issuerExists, registration, issued, accountFailures, accountHistory>>

\* createApiKey() with replaceKeyId: one transaction, and the new key may be for the
\* other environment.
AdminReplacesKey(c, old, k, env) ==
    /\ BeginsCall(c) /\ Closes(c)
    /\ key[old].active /\ key[k].env = "none"
    /\ \E reserved \in BOOLEAN :
          key' = [key EXCEPT ![old].active = FALSE,
                             ![k] = [env |-> env, active |-> TRUE, reserved |-> reserved]]
    /\ excused' = (excused \/ env # key[old].env)
    /\ UNCHANGED <<account, issuerExists, registration, issued, accountFailures, owed, overtaken>>

\* A statement of a request fails, or its process ends.
RequestFails(c) ==
    /\ request[c].at \notin {"idle", "done"} /\ AccountFailure /\ Closes(c)
    /\ excused' = (excused \/ request[c].at \in {"revoked", "creating"})
    /\ UNCHANGED <<account, issuerExists, key, registration, issued, owed, overtaken>>

-----------------------------------------------------------------------------
RegistrationStep ==
    \/ Registers \/ CreatesIssuer \/ MailsLink \/ RegistrationFails
    \/ \E k \in ApiKeys : CreatesInitialKey(k)

RecoveryStep(c) == \/ FindsAccount(c) \/ RevokesKeys(c) \/ Demotes(c)
                   \/ \E k \in ApiKeys : CreatesRecoveryKey(c, k)

PromoteStep(c) ==
    \/ ChecksSandbox(c) \/ ListsSandboxKeys(c) \/ RevokesSandbox(c) \/ PromotesTenant(c)
    \/ \E old, k \in ApiKeys : MirrorsKey(c, old, k)

AccountsNext ==
    \/ RegistrationStep \/ AdminSetsStatus
    \/ \E c \in Recoveries : RecoveryStep(c)
    \/ \E c \in Resends : ReadsUnverified(c) \/ RenewsToken(c)
    \/ \E v \in Clicks : FindsToken(v) \/ Activates(v)
    \/ \E c \in PromoteCalls : PromoteStep(c)
    \/ \E c \in Mints : \/ \E env \in Environments : AsksForKey(c, env)
                        \/ \E env \in Environments : AdminAsksForKey(c, env)
                        \/ \E k \in ApiKeys : MintsKey(c, k) \/ AdminMintsKey(c, k)
                        \/ \E old, k \in ApiKeys, env \in Environments : AdminReplacesKey(c, old, k, env)
    \/ \E c \in Revocations : \/ \E by, k \in ApiKeys : AsksToRevoke(c, by, k)
                              \/ RevokesOne(c)
    \/ \E k \in ApiKeys : AdminRevokes(k)
    \/ \E c \in AccountCalls : RequestFails(c)

AccountsSpec == AccountsInit /\ [][AccountsNext]_accountsVars

-----------------------------------------------------------------------------
(* Properties.                                                             *)

Busy == \/ registration \in {"tenant", "issuer"}
        \/ \E c \in Recoveries \cup PromoteCalls : request[c].at \in {"revoked", "listed", "creating"}

\* A tenant has a key for its environment, except while a registration, a recovery or
\* a promotion is between revoking and creating keys, and after one of these: such a
\* call was interrupted; a promotion found no key to copy, before the first was created
\* or inside a recovery; the administrator revoked a key, or replaced it by one of
\* the other environment; two keys revoked each other;
\* or a key was revoked by one for the other environment (registration.service.js:172-185,
\* 257-272, tenant.service.js:100-116, api-key.service.js:109-123).
NotLockedOut ==
    account.status = "ABSENT" \/ UsableKeys # {} \/ Busy \/ excused

\* Once a recovery has demoted the tenant, it is ACTIVE again only after the link of
\* that recovery, or a later one, was used, or by the administrator; unless a click
\* had found its token when the recovery replaced it (registration.service.js:274-285,
\* 372-382).
RecoveryIsVerified == account.status = "ACTIVE" => owed = 0 \/ overtaken
=============================================================================
