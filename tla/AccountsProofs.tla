--------------------------- MODULE AccountsProofs ---------------------------
(***************************************************************************)
(* Proofs about a tenant's account and its keys, for any calls, keys and   *)
(* orders in which they overlap and fail.                                  *)
(***************************************************************************)
EXTENDS Accounts, TLAPS

USE ClicksAssumption

-----------------------------------------------------------------------------
(* Accounts: a recovery must be verified.                                  *)

\* A link that was made is no newer than the last; the tenant's, and one that a click has
\* in its hands, is not older than the one a recovery left, unless the recovery overtook
\* the click.
LinksOK ==
    /\ owed <= issued
    /\ account.token = 0 \/ owed <= account.token
    /\ \A v \in Clicks : request[v].at = "read" => owed <= request[v].token \/ overtaken
    /\ RecoveryIsVerified

AccountsInv == AccountsTypeOK /\ LinksOK

LEMMA IdleIsRequest == NoRequest \in Request
  BY DEF NoRequest, Request, Environments

LEMMA AccountsInitially == AccountsInit => AccountsInv
<1> SUFFICES ASSUME AccountsInit PROVE AccountsInv
  OBVIOUS
<1>1. AccountsTypeOK
  BY IdleIsRequest DEF AccountsInit, AccountsTypeOK, Environments
<1>2. \A v \in Clicks : request[v].at = "idle"
  BY DEF AccountsInit, NoRequest, AccountCalls
<1>3. LinksOK
  BY <1>2 DEF AccountsInit, LinksOK, RecoveryIsVerified
<1> QED BY <1>1, <1>3 DEF AccountsInv

\* What a call does next is typed if its parts are.
LEMMA RequestMoves ==
    ASSUME AccountsTypeOK, NEW c \in AccountCalls, NEW q \in Request,
           request' = [request EXCEPT ![c] = q]
    PROVE  /\ request' \in [AccountCalls -> Request]
           /\ request'[c] = q /\ \A d \in AccountCalls \ {c} : request'[d] = request[d]
  BY DEF AccountsTypeOK

\* A step that makes no link, redeems none and leaves the clicks with what they found.
LEMMA LinksKept ==
    ASSUME LinksOK, UNCHANGED <<account, issued, owed, overtaken>>,
           \A v \in Clicks : request'[v].at = "read" => request'[v] = request[v]
    PROVE  LinksOK'
  BY DEF LinksOK, RecoveryIsVerified

LEMMA RegistrationKeeps ==
    ASSUME AccountsInv, RegistrationStep
    PROVE  AccountsInv'
<1> USE DEF AccountsInv
<1>1. CASE Registers
  <2>1. AccountsTypeOK'
    BY <1>1 DEF Registers, AccountsTypeOK, accountHistory
  <2>2. /\ issued' = issued + 1 /\ account'.token = issued' /\ account'.status # "ACTIVE"
        /\ UNCHANGED <<request, owed, overtaken>> /\ owed \in Nat /\ issued \in Nat
    BY <1>1 DEF Registers, AccountsTypeOK, accountHistory
  <2>3. LinksOK'
    BY <2>2 DEF LinksOK, RecoveryIsVerified
  <2> QED BY <2>1, <2>3
<1>2. CASE CreatesIssuer \/ MailsLink \/ RegistrationFails
  <2>1. CASE CreatesIssuer
    BY <1>2, <2>1, LinksKept DEF CreatesIssuer, AccountsTypeOK, accountHistory
  <2>2. CASE MailsLink
    BY <1>2, <2>2, LinksKept DEF MailsLink, AccountsTypeOK, accountHistory
  <2>3. CASE RegistrationFails
    BY <1>2, <2>3, LinksKept DEF RegistrationFails, AccountFailure, AccountsTypeOK
  <2> QED BY <1>2, <2>1, <2>2, <2>3
<1>3. ASSUME NEW k \in ApiKeys, CreatesInitialKey(k) PROVE AccountsInv'
  <2>1. AccountsTypeOK'
    BY <1>3 DEF CreatesInitialKey, NewKey, AccountsTypeOK, accountHistory, Environments
  <2>2. LinksOK'
    BY <1>3, LinksKept DEF CreatesInitialKey, accountHistory
  <2> QED BY <2>1, <2>2
<1> QED BY <1>1, <1>2, <1>3 DEF RegistrationStep

\* The place of a call is one of these, whatever else it remembers.
LEMMA StepsMove ==
    ASSUME AccountsTypeOK, NEW c \in AccountCalls,
           NEW place \in {"idle", "read", "revoked", "keyed", "listed", "creating", "minting", "done"},
           Steps(c, place)
    PROVE  /\ request' \in [AccountCalls -> Request] /\ request'[c].at = place
           /\ \A d \in AccountCalls \ {c} : request'[d] = request[d]
<1>1. PICK q \in Request : q = [request[c] EXCEPT !.at = place]
  BY DEF AccountsTypeOK, Request
<1>2. request' = [request EXCEPT ![c] = q] /\ q.at = place
  BY <1>1 DEF Steps, AccountsTypeOK, Request
<1> QED BY <1>2, RequestMoves

LEMMA ClosesMove ==
    ASSUME AccountsTypeOK, NEW c \in AccountCalls, Closes(c)
    PROVE  /\ request' \in [AccountCalls -> Request] /\ request'[c].at = "done"
           /\ \A d \in AccountCalls \ {c} : request'[d] = request[d]
<1>1. PICK q \in Request : q = [NoRequest EXCEPT !.at = "done"]
  BY IdleIsRequest DEF NoRequest, Request
<1>2. request' = [request EXCEPT ![c] = q] /\ q.at = "done"
  BY <1>1 DEF Closes, NoRequest
<1> QED BY <1>2, RequestMoves

\* A call that is no click moves, or a click ends, and the links stay.
LEMMA OtherMoves ==
    ASSUME LinksOK, UNCHANGED <<account, issued, owed, overtaken>>, NEW c \in AccountCalls,
           c \notin Clicks \/ request'[c].at = "done",
           \A d \in AccountCalls \ {c} : request'[d] = request[d]
    PROVE  LinksOK'
  BY LinksKept DEF AccountCalls

AccountRow ==
    [status : {"ABSENT", "PENDING_VERIFICATION", "ACTIVE", "SUSPENDED"}, token : Nat,
     sandbox : BOOLEAN]
KeyRow == [env : Environments \cup {"none"}, active : BOOLEAN, reserved : BOOLEAN]

\* A key that is revoked is still a key.
LEMMA RevokedIsRow ==
    ASSUME NEW row \in KeyRow
    PROVE  [row EXCEPT !.active = FALSE] \in KeyRow
  BY DEF KeyRow

LEMMA KeysStayTyped ==
    ASSUME AccountsTypeOK, NEW env \in Environments
    PROVE  /\ RevokesAll(env) => key' \in [ApiKeys -> KeyRow]
           /\ \A k \in ApiKeys, reserved \in BOOLEAN : NewKey(k, env, reserved) => key' \in [ApiKeys -> KeyRow]
<1>1. key \in [ApiKeys -> KeyRow]
  BY DEF AccountsTypeOK, KeyRow
<1>2. ASSUME RevokesAll(env) PROVE key' \in [ApiKeys -> KeyRow]
  <2>1. \A k \in ApiKeys : [key[k] EXCEPT !.active = FALSE] \in KeyRow
    BY <1>1, RevokedIsRow
  <2> QED BY <1>1, <1>2, <2>1 DEF RevokesAll
<1>3. ASSUME NEW k \in ApiKeys, NEW reserved \in BOOLEAN, NewKey(k, env, reserved)
      PROVE  key' \in [ApiKeys -> KeyRow]
  <2>1. [env |-> env, active |-> TRUE, reserved |-> reserved] \in KeyRow
    BY DEF KeyRow
  <2> QED BY <1>1, <1>3, <2>1 DEF NewKey
<1> QED BY <1>2, <1>3

LEMMA RecoveryKeeps ==
    ASSUME AccountsInv, NEW c \in Recoveries, RecoveryStep(c)
    PROVE  AccountsInv'
<1> USE DEF AccountsInv
<1>0. c \in AccountCalls /\ c \notin Clicks /\ request[c] \in Request /\ request[c].env \in Environments
  BY DEF AccountCalls, AccountsTypeOK, Request
<1>1. CASE FindsAccount(c)
  <2>1. PICK q \in Request : q = [request[c] EXCEPT !.at = "read", !.env = Environment]
    BY <1>0 DEF Request, Environment, Environments
  <2>2. request' = [request EXCEPT ![c] = q]
    BY <1>0, <1>1, <2>1 DEF FindsAccount, AccountsTypeOK
  <2>3. AccountsTypeOK'
    BY <1>0, <1>1, <2>2, RequestMoves DEF FindsAccount, AccountsTypeOK, accountHistory
  <2>4. LinksOK'
    BY <1>0, <1>1, <2>2, RequestMoves, OtherMoves DEF FindsAccount, accountHistory
  <2> QED BY <2>3, <2>4
<1>2. CASE RevokesKeys(c)
  <2>1. AccountsTypeOK'
    BY <1>0, <1>2, StepsMove, KeysStayTyped DEF RevokesKeys, AccountsTypeOK, KeyRow, accountHistory
  <2>2. LinksOK'
    BY <1>0, <1>2, StepsMove, OtherMoves DEF RevokesKeys, accountHistory
  <2> QED BY <2>1, <2>2
<1>3. ASSUME NEW k \in ApiKeys, CreatesRecoveryKey(c, k) PROVE AccountsInv'
  <2>1. AccountsTypeOK'
    BY <1>0, <1>3, StepsMove, KeysStayTyped DEF CreatesRecoveryKey, AccountsTypeOK, KeyRow, accountHistory
  <2>2. LinksOK'
    BY <1>0, <1>3, StepsMove, OtherMoves DEF CreatesRecoveryKey, accountHistory
  <2> QED BY <2>1, <2>2
<1>4. CASE Demotes(c)
  <2>1. /\ issued \in Nat /\ issued' = issued + 1 /\ issued' \in Nat /\ owed' = issued'
        /\ account' = [account EXCEPT !.status = "PENDING_VERIFICATION", !.token = issued']
        /\ overtaken' \in BOOLEAN /\ UNCHANGED <<issuerExists, key, registration, accountFailures, excused>>
    BY <1>4 DEF Demotes, AccountsTypeOK
  <2>2. AccountsTypeOK'
    BY <1>0, <1>4, <2>1, ClosesMove DEF Demotes, AccountsTypeOK
  <2>3. account'.token = issued' /\ account'.status = "PENDING_VERIFICATION"
    BY <2>1 DEF AccountsTypeOK
  <2>4. ASSUME NEW v \in Clicks, request'[v].at = "read" PROVE overtaken'
    <3>1. request[v].at = "read"
      BY <1>0, <1>4, <2>4, ClosesMove DEF Demotes, AccountCalls
    <3> QED BY <1>4, <3>1 DEF Demotes
  <2>5. LinksOK'
    BY <2>1, <2>3, <2>4 DEF LinksOK, RecoveryIsVerified
  <2> QED BY <2>2, <2>5
<1> QED BY <1>1, <1>2, <1>3, <1>4 DEF RecoveryStep

LEMMA ResendKeeps ==
    ASSUME AccountsInv, NEW c \in Resends, ReadsUnverified(c) \/ RenewsToken(c)
    PROVE  AccountsInv'
<1> USE DEF AccountsInv
<1>0. c \in AccountCalls /\ c \notin Clicks
  BY DEF AccountCalls
<1>1. CASE ReadsUnverified(c)
  <2>1. AccountsTypeOK'
    BY <1>0, <1>1, StepsMove DEF ReadsUnverified, AccountsTypeOK, accountHistory
  <2>2. LinksOK'
    BY <1>0, <1>1, StepsMove, OtherMoves DEF ReadsUnverified, accountHistory
  <2> QED BY <2>1, <2>2
<1>2. CASE RenewsToken(c)
  <2>1. AccountsTypeOK'
    BY <1>0, <1>2, ClosesMove DEF RenewsToken, AccountsTypeOK, accountHistory
  <2>2. /\ issued \in Nat /\ owed \in Nat /\ issued' = issued + 1 /\ account'.token = issued'
        /\ account'.status = account.status /\ UNCHANGED <<owed, overtaken>>
    BY <1>2 DEF RenewsToken, AccountsTypeOK, accountHistory
  <2>3. \A v \in Clicks : request'[v] = request[v]
    BY <1>0, <1>2, ClosesMove DEF RenewsToken, AccountCalls
  <2>4. LinksOK'
    BY <2>2, <2>3 DEF LinksOK, RecoveryIsVerified
  <2> QED BY <2>1, <2>4
<1> QED BY <1>1, <1>2

\* The click takes the token that the tenant has, and when it is redeemed an older one
\* than the recovery's has been overtaken by it.
LEMMA ClickKeeps ==
    ASSUME AccountsInv, NEW v \in Clicks, FindsToken(v) \/ Activates(v)
    PROVE  AccountsInv'
<1> USE DEF AccountsInv
<1>0. v \in AccountCalls /\ request[v] \in Request
  BY DEF AccountCalls, AccountsTypeOK
<1>1. CASE FindsToken(v)
  <2>1. PICK q \in Request : q = [request[v] EXCEPT !.at = "read", !.token = account.token]
    BY <1>0 DEF Request, AccountsTypeOK
  <2>2. request' = [request EXCEPT ![v] = q] /\ q.token = account.token
    BY <1>0, <1>1, <2>1 DEF FindsToken, AccountsTypeOK, Request
  <2>3. AccountsTypeOK'
    BY <1>0, <1>1, <2>2, RequestMoves DEF FindsToken, AccountsTypeOK, accountHistory
  <2>4. request'[v].token = account.token /\ \A d \in Clicks \ {v} : request'[d] = request[d]
    BY <1>0, <2>2, RequestMoves DEF AccountCalls
  <2>5. LinksOK'
    BY <1>1, <2>4 DEF FindsToken, LinksOK, RecoveryIsVerified, accountHistory
  <2> QED BY <2>3, <2>5
<1>2. CASE Activates(v)
  <2>1. owed' \in Nat
    BY <1>2 DEF Activates, AccountsTypeOK
  <2>2. AccountsTypeOK'
    BY <1>0, <1>2, <2>1, ClosesMove DEF Activates, Activated, AccountsTypeOK
  <2>3. request'[v].at = "done" /\ \A d \in Clicks \ {v} : request'[d] = request[d]
    BY <1>0, <1>2, ClosesMove DEF Activates, AccountCalls
  <2>4. account'.token = 0 /\ UNCHANGED <<issued, overtaken>> /\ request[v].at = "read"
        /\ owed' = IF request[v].token >= owed THEN 0 ELSE owed
    BY <1>2 DEF Activates, Activated, AccountsTypeOK
  <2>5. request[v].token \in Nat /\ owed \in Nat /\ issued \in Nat
        /\ \A d \in Clicks : request[d].token \in Nat
    BY <1>0 DEF Request, AccountsTypeOK, AccountCalls
  <2>6. owed' <= owed /\ (owed' = 0 \/ overtaken)
    BY <2>4, <2>5 DEF LinksOK
  <2>7. LinksOK'
    BY <2>1, <2>3, <2>4, <2>5, <2>6 DEF LinksOK, RecoveryIsVerified
  <2> QED BY <2>2, <2>7
<1> QED BY <1>1, <1>2

LEMMA PromotionKeeps ==
    ASSUME AccountsInv, NEW c \in PromoteCalls, PromoteStep(c)
    PROVE  AccountsInv'
<1> USE DEF AccountsInv
<1>0. c \in AccountCalls /\ c \notin Clicks /\ request[c] \in Request
  BY DEF AccountCalls, AccountsTypeOK
<1>1. CASE ChecksSandbox(c)
  <2>1. AccountsTypeOK'
    BY <1>0, <1>1, StepsMove DEF ChecksSandbox, AccountsTypeOK, accountHistory
  <2>2. LinksOK'
    BY <1>0, <1>1, StepsMove, OtherMoves DEF ChecksSandbox, accountHistory
  <2> QED BY <2>1, <2>2
<1>2. CASE ListsSandboxKeys(c)
  <2>1. PICK q \in Request : q = [request[c] EXCEPT !.at = "listed", !.keys = ActiveKeys]
    BY <1>0 DEF Request, ActiveKeys
  <2>2. request' = [request EXCEPT ![c] = q]
    BY <1>0, <1>2, <2>1 DEF ListsSandboxKeys, AccountsTypeOK
  <2>3. AccountsTypeOK'
    BY <1>0, <1>2, <2>2, RequestMoves DEF ListsSandboxKeys, AccountsTypeOK
  <2>4. LinksOK'
    BY <1>0, <1>2, <2>2, RequestMoves, OtherMoves DEF ListsSandboxKeys
  <2> QED BY <2>3, <2>4
<1>3. CASE RevokesSandbox(c)
  <2>1. AccountsTypeOK'
    BY <1>0, <1>3, StepsMove, KeysStayTyped
    DEF RevokesSandbox, AccountsTypeOK, accountHistory, KeyRow, Environments
  <2>2. LinksOK'
    BY <1>0, <1>3, StepsMove, OtherMoves DEF RevokesSandbox, accountHistory
  <2> QED BY <2>1, <2>2
<1>4. CASE PromotesTenant(c)
  <2>1. AccountsTypeOK'
    BY <1>0, <1>4, ClosesMove DEF PromotesTenant, AccountsTypeOK, accountHistory
  <2>2. \A v \in Clicks : request'[v] = request[v]
    BY <1>0, <1>4, ClosesMove DEF PromotesTenant, AccountCalls
  <2>3. account'.token = account.token /\ account'.status = account.status
        /\ UNCHANGED <<issued, owed, overtaken>>
    BY <1>4 DEF PromotesTenant, AccountsTypeOK, accountHistory
  <2>4. LinksOK'
    BY <2>2, <2>3 DEF LinksOK, RecoveryIsVerified
  <2> QED BY <2>1, <2>4
<1>5. ASSUME NEW old \in ApiKeys, NEW k \in ApiKeys, MirrorsKey(c, old, k) PROVE AccountsInv'
  <2>1. PICK q \in Request : q = [request[c] EXCEPT !.keys = @ \ {old}]
    BY <1>0 DEF Request
  <2>2. request' = [request EXCEPT ![c] = q]
    BY <1>0, <1>5, <2>1 DEF MirrorsKey, AccountsTypeOK
  <2>3. key' \in [ApiKeys -> KeyRow]
    BY <1>5, KeysStayTyped DEF MirrorsKey, AccountsTypeOK, Environments
  <2>4. AccountsTypeOK'
    BY <1>0, <1>5, <2>2, <2>3, RequestMoves DEF MirrorsKey, AccountsTypeOK, accountHistory, KeyRow
  <2>5. LinksOK'
    BY <1>0, <1>5, <2>2, RequestMoves, OtherMoves DEF MirrorsKey, accountHistory
  <2> QED BY <2>4, <2>5
<1> QED BY <1>1, <1>2, <1>3, <1>4, <1>5 DEF PromoteStep

LEMMA MintKeeps ==
    ASSUME AccountsInv, NEW c \in Mints,
           \/ \E env \in Environments : AsksForKey(c, env) \/ AdminAsksForKey(c, env)
           \/ \E k \in ApiKeys : MintsKey(c, k) \/ AdminMintsKey(c, k)
           \/ \E old, k \in ApiKeys, env \in Environments : AdminReplacesKey(c, old, k, env)
    PROVE  AccountsInv'
<1> USE DEF AccountsInv
<1>0. c \in AccountCalls /\ c \notin Clicks /\ request[c] \in Request /\ request[c].env \in Environments
  BY DEF AccountCalls, AccountsTypeOK, Request
<1>1. ASSUME NEW env \in Environments, AsksForKey(c, env)
      PROVE  AccountsInv'
  <2>1. PICK q \in Request : q = [request[c] EXCEPT !.at = "read", !.env = env]
    BY <1>0 DEF Request
  <2>2. request' = [request EXCEPT ![c] = q]
    BY <1>0, <1>1, <2>1 DEF AsksForKey, AccountsTypeOK
  <2>3. AccountsTypeOK'
    BY <1>0, <1>1, <2>2, RequestMoves DEF AsksForKey, AccountsTypeOK, accountHistory
  <2>4. LinksOK'
    BY <1>0, <1>1, <2>2, RequestMoves, OtherMoves DEF AsksForKey, accountHistory
  <2> QED BY <2>3, <2>4
<1>2. ASSUME NEW env \in Environments, AdminAsksForKey(c, env)
      PROVE  AccountsInv'
  <2>1. PICK q \in Request : q = [request[c] EXCEPT !.at = "minting", !.env = env]
    BY <1>0 DEF Request
  <2>2. request' = [request EXCEPT ![c] = q]
    BY <1>0, <1>2, <2>1 DEF AdminAsksForKey, AccountsTypeOK
  <2>3. key' \in [ApiKeys -> KeyRow]
        /\ excused' \in BOOLEAN
    BY <1>2, KeysStayTyped DEF AdminAsksForKey, AccountsTypeOK, KeyRow
  <2>4. AccountsTypeOK'
    BY <1>0, <1>2, <2>2, <2>3, RequestMoves DEF AdminAsksForKey, AccountsTypeOK, KeyRow
  <2>5. LinksOK'
    BY <1>0, <1>2, <2>2, RequestMoves, OtherMoves DEF AdminAsksForKey
  <2> QED BY <2>4, <2>5
<1>3. ASSUME NEW k \in ApiKeys, MintsKey(c, k)
      PROVE  AccountsInv'
  <2>1. AccountsTypeOK'
    BY <1>0, <1>3, ClosesMove, KeysStayTyped DEF MintsKey, AccountsTypeOK, accountHistory, KeyRow
  <2>2. LinksOK'
    BY <1>0, <1>3, ClosesMove, OtherMoves DEF MintsKey, accountHistory
  <2> QED BY <2>1, <2>2
<1>4. ASSUME NEW k \in ApiKeys, AdminMintsKey(c, k)
      PROVE  AccountsInv'
  <2>1. AccountsTypeOK'
    BY <1>0, <1>4, ClosesMove, KeysStayTyped DEF AdminMintsKey, AccountsTypeOK, accountHistory, KeyRow
  <2>2. LinksOK'
    BY <1>0, <1>4, ClosesMove, OtherMoves DEF AdminMintsKey, accountHistory
  <2> QED BY <2>1, <2>2
<1>5. ASSUME NEW old \in ApiKeys, NEW k \in ApiKeys, NEW env \in Environments, AdminReplacesKey(c, old, k, env)
      PROVE  AccountsInv'
  <2>1. PICK reserved \in BOOLEAN :
            key' = [key EXCEPT ![old].active = FALSE,
                               ![k] = [env |-> env, active |-> TRUE, reserved |-> reserved]]
    BY <1>5 DEF AdminReplacesKey
  <2>2. [key[old] EXCEPT !.active = FALSE] \in KeyRow
        /\ [env |-> env, active |-> TRUE, reserved |-> reserved] \in KeyRow
    BY RevokedIsRow DEF AccountsTypeOK, KeyRow
  <2>3. key' \in [ApiKeys -> KeyRow]
    BY <2>1, <2>2 DEF AccountsTypeOK, KeyRow
  <2>4. AccountsTypeOK'
    BY <1>0, <1>5, <2>3, ClosesMove DEF AdminReplacesKey, AccountsTypeOK, KeyRow
  <2>5. LinksOK'
    BY <1>0, <1>5, ClosesMove, OtherMoves DEF AdminReplacesKey
  <2> QED BY <2>4, <2>5
<1> QED BY <1>1, <1>2, <1>3, <1>4, <1>5

LEMMA RevocationKeeps ==
    ASSUME AccountsInv, NEW c \in Revocations,
           RevokesOne(c) \/ \E by, k \in ApiKeys : AsksToRevoke(c, by, k)
    PROVE  AccountsInv'
<1> USE DEF AccountsInv
<1>0. c \in AccountCalls /\ c \notin Clicks /\ request[c] \in Request
  BY DEF AccountCalls, AccountsTypeOK
<1>1. ASSUME NEW by \in ApiKeys, NEW k \in ApiKeys, AsksToRevoke(c, by, k) PROVE AccountsInv'
  <2>1. PICK q \in Request : q = [request[c] EXCEPT !.at = "read", !.by = {by}, !.keys = {k}]
    BY <1>0 DEF Request
  <2>2. request' = [request EXCEPT ![c] = q]
    BY <1>0, <1>1, <2>1 DEF AsksToRevoke, AccountsTypeOK
  <2>3. AccountsTypeOK'
    BY <1>0, <1>1, <2>2, RequestMoves DEF AsksToRevoke, AccountsTypeOK, accountHistory
  <2>4. LinksOK'
    BY <1>0, <1>1, <2>2, RequestMoves, OtherMoves DEF AsksToRevoke, accountHistory
  <2> QED BY <2>3, <2>4
<1>2. CASE RevokesOne(c)
  <2>1. \A j \in ApiKeys : [key[j] EXCEPT !.active = FALSE] \in KeyRow /\ key[j] \in KeyRow
    BY RevokedIsRow DEF AccountsTypeOK, KeyRow
  <2>2. key' \in [ApiKeys -> KeyRow]
    BY <1>2, <2>1 DEF RevokesOne
  <2>3. excused' \in BOOLEAN
    BY <1>2 DEF RevokesOne, AccountsTypeOK
  <2>4. AccountsTypeOK'
    BY <1>0, <1>2, <2>2, <2>3, ClosesMove DEF RevokesOne, AccountsTypeOK, KeyRow
  <2>5. LinksOK'
    BY <1>0, <1>2, ClosesMove, OtherMoves DEF RevokesOne
  <2> QED BY <2>4, <2>5
<1> QED BY <1>1, <1>2

LEMMA OthersKeep ==
    ASSUME AccountsInv,
           \/ AdminSetsStatus \/ \E k \in ApiKeys : AdminRevokes(k)
           \/ \E c \in AccountCalls : RequestFails(c)
    PROVE  AccountsInv'
<1> USE DEF AccountsInv
<1>1. CASE AdminSetsStatus
  <2>1. PICK st \in {"PENDING_VERIFICATION", "ACTIVE", "SUSPENDED"}, t \in {0, account.token} :
            account' = [account EXCEPT !.status = st, !.token = t]
    <3>1. CASE Activated
      BY <3>1 DEF Activated
    <3>2. ASSUME NEW st \in {"PENDING_VERIFICATION", "ACTIVE", "SUSPENDED"},
                 account' = [account EXCEPT !.status = st]
          PROVE  account' = [account EXCEPT !.status = st, !.token = account.token]
      BY <3>2 DEF AccountsTypeOK
    <3> QED BY <1>1, <3>1, <3>2 DEF AdminSetsStatus
  <2>2. account'.status = st /\ account'.token = t /\ account.token \in Nat /\ owed \in Nat
    BY <2>1 DEF AccountsTypeOK
  <2>3. owed' = (IF st = "ACTIVE" THEN 0 ELSE owed) /\ UNCHANGED <<request, issued, overtaken>>
    BY <1>1, <2>2 DEF AdminSetsStatus
  <2>4. \A v \in Clicks : request[v].token \in Nat
    BY DEF AccountsTypeOK, Request, AccountCalls
  <2>5. owed' \in {0, owed} /\ issued \in Nat /\ (st = "ACTIVE" => owed' = 0)
    BY <2>3 DEF AccountsTypeOK
  <2>6. owed' \in Nat
    BY <2>2, <2>5
  <2>7. t \in Nat
    BY <2>2
  <2>8. account \in AccountRow
    BY DEF AccountsTypeOK, AccountRow
  <2>9. [account EXCEPT !.status = st, !.token = t] \in AccountRow
    BY <2>7, <2>8 DEF AccountRow
  <2>10. account' \in AccountRow
    BY <2>1, <2>9
  <2>11. UNCHANGED <<issuerExists, key, registration, request, issued, accountFailures,
                    overtaken, excused>>
    BY <1>1 DEF AdminSetsStatus
  <2>12. AccountsTypeOK'
    BY <2>6, <2>10, <2>11 DEF AccountsTypeOK, AccountRow
  <2>13. LinksOK'
    BY <2>2, <2>3, <2>4, <2>5 DEF LinksOK, RecoveryIsVerified
  <2> QED BY <2>12, <2>13
<1>2. ASSUME NEW k \in ApiKeys, AdminRevokes(k) PROVE AccountsInv'
  <2>1. [key[k] EXCEPT !.active = FALSE] \in KeyRow
    BY RevokedIsRow DEF AccountsTypeOK, KeyRow
  <2>2. AccountsTypeOK'
    BY <1>2, <2>1 DEF AdminRevokes, AccountsTypeOK, KeyRow
  <2>3. LinksOK'
    BY <1>2, LinksKept DEF AdminRevokes
  <2> QED BY <2>2, <2>3
<1>3. ASSUME NEW c \in AccountCalls, RequestFails(c) PROVE AccountsInv'
  <2>1. AccountsTypeOK'
    BY <1>3, ClosesMove DEF RequestFails, AccountFailure, AccountsTypeOK
  <2>2. LinksOK'
    BY <1>3, ClosesMove, OtherMoves DEF RequestFails
  <2> QED BY <2>1, <2>2
<1> QED BY <1>1, <1>2, <1>3

\* Every step of Accounts keeps the invariant.
LEMMA AccountsStep == AccountsInv /\ [AccountsNext]_accountsVars => AccountsInv'
<1> SUFFICES ASSUME AccountsInv, [AccountsNext]_accountsVars PROVE AccountsInv'
  OBVIOUS
<1>1. CASE UNCHANGED accountsVars
  BY <1>1 DEF accountsVars, accountHistory, AccountsInv, AccountsTypeOK, LinksOK, RecoveryIsVerified
<1>2. CASE AccountsNext
  BY <1>2, RegistrationKeeps, RecoveryKeeps, ResendKeeps, ClickKeeps, PromotionKeeps, MintKeeps,
     RevocationKeeps, OthersKeep
  DEF AccountsNext
<1> QED BY <1>1, <1>2

\* The variables of Accounts have their types, for any calls, keys and failures.
THEOREM AccountsTyping == AccountsSpec => []AccountsTypeOK
<1>1. AccountsInv => AccountsTypeOK
  BY DEF AccountsInv
<1> QED BY AccountsInitially, AccountsStep, <1>1, PTL DEF AccountsSpec

\* Once a recovery has demoted the tenant, only its own link or a later one, or the
\* administrator, makes it ACTIVE again, for any number of calls that overlap and fail:
\* no older link does, unless a click had found its token before
\* (registration.service.js:274-285, 372-382).
THEOREM RecoveriesAreVerified == AccountsSpec => []RecoveryIsVerified
<1>1. AccountsInv => RecoveryIsVerified
  BY DEF AccountsInv, LinksOK
<1> QED BY AccountsInitially, AccountsStep, <1>1, PTL DEF AccountsSpec

-----------------------------------------------------------------------------
(* Accounts: nobody is locked out.  Of each environment there is a key, or *)
(* a recovery that has revoked its keys is to create one.                  *)

HasKey(env) == \E k \in ApiKeys : key[k].active /\ key[k].env = env
Recovering(env) == \E r \in Recoveries : request[r].at = "revoked" /\ request[r].env = env
Held(env) == HasKey(env) \/ Recovering(env)

\* A promotion has keys to copy, or has copied one.
Copying ==
    \A c \in PromoteCalls : /\ request[c].at = "listed" => request[c].keys # {}
                            /\ request[c].at = "creating" => request[c].keys # {} \/ Held("production")

Promoting == \E c \in PromoteCalls : request[c].at = "creating"

KeysHeld ==
    excused \/ /\ Copying
               /\ ~account.sandbox => Held("production")
               /\ account.sandbox /\ account.status # "ABSENT" =>
                     Held("sandbox") \/ Promoting \/ registration \in {"tenant", "issuer"}

\* A revocation has two keys in its hands.
TwoKeys ==
    \A c \in AccountCalls :
        /\ request[c].at = "idle" => request[c].keys = {}
        /\ request[c].at = "read" => /\ request[c].by \cap request[c].keys = {}
                                     /\ request[c].keys = {} \/ request[c].by # {}

\* What a step of one call leaves of it.
LEMMA StepsKeep ==
    ASSUME AccountsTypeOK, NEW c \in AccountCalls,
           NEW place \in {"read", "revoked", "keyed", "listed", "creating", "minting", "done"},
           Steps(c, place)
    PROVE  /\ request'[c].at = place /\ request'[c].env = request[c].env
           /\ request'[c].keys = request[c].keys /\ request'[c].by = request[c].by
           /\ \A d \in AccountCalls \ {c} : request'[d] = request[d]
  BY DEF Steps, AccountsTypeOK, Request

\* A revocation keeps what it has in hand until it ends.
LEMMA TwoKeysMove ==
    ASSUME TwoKeys, NEW c \in AccountCalls,
           \A d \in AccountCalls \ {c} : request'[d] = request[d],
           request'[c].at # "idle",
           request'[c].at = "read" =>
               \/ request[c].at = "idle" /\ request'[c].keys = {}
               \/ request'[c].by \cap request'[c].keys = {} /\ request'[c].by # {}
    PROVE  TwoKeys'
  BY DEF TwoKeys

\* Every step leaves the revocations so.
LEMMA TwoKeysStep ==
    ASSUME AccountsTypeOK, TwoKeys, [AccountsNext]_accountsVars
    PROVE  TwoKeys'
<1>1. ASSUME NEW c \in AccountCalls, request[c].at = "idle",
             FindsAccount(c) \/ ReadsUnverified(c) \/ FindsToken(c) \/ ChecksSandbox(c)
                 \/ \E env \in Environments : AsksForKey(c, env)
      PROVE  TwoKeys'
  <2>1. /\ \A d \in AccountCalls \ {c} : request'[d] = request[d]
        /\ request'[c].at = "read" /\ request'[c].keys = request[c].keys
    BY <1>1 DEF FindsAccount, ReadsUnverified, FindsToken, ChecksSandbox, AsksForKey, Steps,
                AccountsTypeOK, Request
  <2> QED BY <1>1, <2>1, TwoKeysMove DEF TwoKeys
<1>2. ASSUME NEW c \in AccountCalls, NEW place \in {"revoked", "keyed", "creating"}, Steps(c, place)
      PROVE  TwoKeys'
  BY <1>2, StepsKeep, TwoKeysMove
<1>3. ASSUME NEW c \in AccountCalls, Closes(c) PROVE TwoKeys'
  BY <1>3, ClosesMove, TwoKeysMove
<1>4. ASSUME NEW c \in AccountCalls,
             \/ ListsSandboxKeys(c) \/ \E env \in Environments : AdminAsksForKey(c, env)
             \/ \E old, k \in ApiKeys : MirrorsKey(c, old, k)
      PROVE  TwoKeys'
  <2>1. /\ \A d \in AccountCalls \ {c} : request'[d] = request[d]
        /\ request'[c].at \in {"listed", "minting", "creating"}
    BY <1>4 DEF ListsSandboxKeys, AdminAsksForKey, MirrorsKey, AccountsTypeOK, Request
  <2> QED BY <2>1, TwoKeysMove
<1>5. ASSUME NEW c \in AccountCalls, NEW by \in ApiKeys, NEW k \in ApiKeys, AsksToRevoke(c, by, k)
      PROVE  TwoKeys'
  <2>1. /\ \A d \in AccountCalls \ {c} : request'[d] = request[d]
        /\ request'[c].by = {by} /\ request'[c].keys = {k} /\ by # k /\ request'[c].at = "read"
    BY <1>5 DEF AsksToRevoke, AccountsTypeOK, Request
  <2> QED BY <2>1, TwoKeysMove
<1>6. ASSUME UNCHANGED request PROVE TwoKeys'
  BY <1>6 DEF TwoKeys
<1>7. CASE RegistrationStep \/ AdminSetsStatus \/ (\E k \in ApiKeys : AdminRevokes(k))
           \/ UNCHANGED accountsVars
  <2>1. UNCHANGED request
    BY <1>7 DEF RegistrationStep, Registers, CreatesIssuer, MailsLink, RegistrationFails,
                CreatesInitialKey, AdminSetsStatus, AdminRevokes, accountsVars
  <2> QED BY <1>6, <2>1
<1>8. ASSUME NEW c \in Recoveries, RecoveryStep(c) PROVE TwoKeys'
  BY <1>1, <1>2, <1>3, <1>8 DEF RecoveryStep, AccountCalls, FindsAccount, BeginsCall, RevokesKeys,
        Demotes, CreatesRecoveryKey
<1>9. ASSUME NEW c \in Resends, ReadsUnverified(c) \/ RenewsToken(c) PROVE TwoKeys'
  BY <1>1, <1>3, <1>9 DEF AccountCalls, ReadsUnverified, BeginsCall, RenewsToken
<1>10. ASSUME NEW c \in Clicks, FindsToken(c) \/ Activates(c) PROVE TwoKeys'
  BY <1>1, <1>3, <1>10 DEF AccountCalls, FindsToken, BeginsCall, Activates
<1>11. ASSUME NEW c \in PromoteCalls, PromoteStep(c) PROVE TwoKeys'
  BY <1>1, <1>2, <1>3, <1>4, <1>11 DEF PromoteStep, AccountCalls, ChecksSandbox, BeginsCall,
        RevokesSandbox, PromotesTenant
<1>12. ASSUME NEW c \in Mints,
              \/ \E env \in Environments : AsksForKey(c, env)
              \/ \E env \in Environments : AdminAsksForKey(c, env)
              \/ \E k \in ApiKeys : MintsKey(c, k) \/ AdminMintsKey(c, k)
              \/ \E old, k \in ApiKeys, env \in Environments : AdminReplacesKey(c, old, k, env)
       PROVE  TwoKeys'
  BY <1>1, <1>3, <1>4, <1>12 DEF AccountCalls, AsksForKey, BeginsCall, MintsKey, AdminMintsKey,
        AdminReplacesKey
<1>13. ASSUME NEW c \in Revocations,
              (\E by, k \in ApiKeys : AsksToRevoke(c, by, k)) \/ RevokesOne(c)
       PROVE  TwoKeys'
  BY <1>3, <1>5, <1>13 DEF AccountCalls, RevokesOne
<1>14. ASSUME NEW c \in AccountCalls, RequestFails(c) PROVE TwoKeys'
  BY <1>3, <1>14 DEF RequestFails
<1> QED BY <1>7, <1>8, <1>9, <1>10, <1>11, <1>12, <1>13, <1>14 DEF AccountsNext

\* A key more takes none away, and its environment has one.
LEMMA NewKeyHolds ==
    ASSUME AccountsTypeOK, NEW k \in ApiKeys, NEW env \in Environments, NEW reserved \in BOOLEAN,
           NewKey(k, env, reserved)
    PROVE  HasKey(env)' /\ \A e \in Environments : HasKey(e) => HasKey(e)'
<1>1. /\ key[k].env = "none" /\ key'[k].active /\ key'[k].env = env
      /\ \A j \in ApiKeys \ {k} : key'[j] = key[j]
  BY DEF NewKey, AccountsTypeOK
<1>2. HasKey(env)'
  BY <1>1 DEF HasKey
<1>3. ASSUME NEW e \in Environments, HasKey(e) PROVE HasKey(e)'
  <2>1. PICK j \in ApiKeys : key[j].active /\ key[j].env = e
    BY <1>3 DEF HasKey
  <2>2. j # k
    BY <1>1, <2>1 DEF Environments
  <2> QED BY <1>1, <2>1, <2>2 DEF HasKey
<1> QED BY <1>2, <1>3

\* A step that takes no key, and no recovery out of its place, leaves what is held.
LEMMA HeldStays ==
    ASSUME \A e \in Environments : HasKey(e) => HasKey(e)', NEW c \in AccountCalls,
           \A d \in AccountCalls \ {c} : request'[d] = request[d],
           request[c].at # "revoked"
    PROVE  \A e \in Environments : Held(e) => Held(e)'
<1> SUFFICES ASSUME NEW e \in Environments, Held(e) PROVE Held(e)'
  OBVIOUS
<1>1. CASE HasKey(e)
  BY <1>1 DEF Held
<1>2. CASE Recovering(e)
  <2>1. PICK r \in Recoveries : request[r].at = "revoked" /\ request[r].env = e
    BY <1>2 DEF Recovering
  <2>2. request'[r] = request[r]
    BY <2>1 DEF AccountCalls
  <2> QED BY <2>1, <2>2 DEF Held, Recovering
<1> QED BY <1>1, <1>2 DEF Held

\* A step of a call that copies nothing, and of which nothing held depends.
LEMMA OtherStays ==
    ASSUME KeysHeld, excused => excused', \A e \in Environments : Held(e) => Held(e)',
           NEW c \in AccountCalls, \A d \in AccountCalls \ {c} : request'[d] = request[d],
           request[c].at # "creating", request'[c].at \notin {"listed", "creating"},
           UNCHANGED registration, account'.sandbox = account.sandbox,
           account'.status # "ABSENT" => account.status # "ABSENT"
    PROVE  KeysHeld'
<1> USE DEF Environments
<1> SUFFICES ASSUME ~excused' PROVE KeysHeld'
  BY DEF KeysHeld
<1>1. ~excused
  OBVIOUS
<1>2. Copying'
  BY <1>1 DEF KeysHeld, Copying, AccountCalls
<1>3. Promoting => Promoting'
  BY DEF Promoting, AccountCalls
<1> QED BY <1>1, <1>2, <1>3 DEF KeysHeld

\* Likewise one that leaves the keys alone.
LEMMA QuietStays ==
    ASSUME KeysHeld, excused => excused', UNCHANGED <<key, registration>>,
           NEW c \in AccountCalls, \A d \in AccountCalls \ {c} : request'[d] = request[d],
           request[c].at \notin {"revoked", "creating"}, request'[c].at \notin {"listed", "creating"},
           account'.sandbox = account.sandbox,
           account'.status # "ABSENT" => account.status # "ABSENT"
    PROVE  KeysHeld'
<1>1. \A e : HasKey(e) => HasKey(e)'
  BY DEF HasKey
<1>2. \A e \in Environments : Held(e) => Held(e)'
  BY <1>1, HeldStays
<1> QED BY <1>2, OtherStays

\* Before the registration there is nothing: no link, no key and no call.
NothingYet ==
    account.status = "ABSENT" =>
        /\ account.token = 0 /\ registration = "idle"
        /\ \A k \in ApiKeys : ~key[k].active
        /\ \A c \in AccountCalls : request[c].at = "idle"

LEMMA NothingYetStep ==
    ASSUME AccountsTypeOK, NothingYet, [AccountsNext]_accountsVars
    PROVE  NothingYet'
<1> SUFFICES ASSUME account'.status = "ABSENT" PROVE NothingYet'
  BY DEF NothingYet
<1> USE DEF AccountsTypeOK
<1>1. CASE UNCHANGED accountsVars
  BY <1>1 DEF accountsVars, NothingYet
<1>2. CASE account.status = "ABSENT"
  <2>1. ~RegistrationStep
    BY <1>2 DEF NothingYet, RegistrationStep, Registers, CreatesIssuer, MailsLink, RegistrationFails,
           CreatesInitialKey
  <2>2. ASSUME NEW c \in AccountCalls
        PROVE  /\ ~FindsAccount(c) /\ ~RevokesKeys(c) /\ ~Demotes(c) /\ ~ReadsUnverified(c)
               /\ ~RenewsToken(c) /\ ~FindsToken(c) /\ ~Activates(c) /\ ~ChecksSandbox(c)
               /\ ~ListsSandboxKeys(c) /\ ~RevokesSandbox(c) /\ ~PromotesTenant(c)
               /\ ~RevokesOne(c) /\ ~RequestFails(c)
    BY <1>2 DEF NothingYet, FindsAccount, RevokesKeys, Demotes, ReadsUnverified, RenewsToken,
           FindsToken, Activates, ChecksSandbox, ListsSandboxKeys, RevokesSandbox, PromotesTenant,
           RevokesOne, RequestFails
  <2>3. ASSUME NEW c \in AccountCalls, NEW old \in ApiKeys, NEW k \in ApiKeys, NEW env \in Environments
        PROVE  /\ ~CreatesRecoveryKey(c, k) /\ ~MirrorsKey(c, old, k) /\ ~MintsKey(c, k)
               /\ ~AdminMintsKey(c, k) /\ ~AdminReplacesKey(c, old, k, env) /\ ~AsksToRevoke(c, old, k)
               /\ ~AdminRevokes(k) /\ ~AsksForKey(c, env) /\ ~AdminAsksForKey(c, env)
    BY <1>2 DEF NothingYet, CreatesRecoveryKey, MirrorsKey, MintsKey, AdminMintsKey, AdminReplacesKey,
           AsksToRevoke, AdminRevokes, AsksForKey, AdminAsksForKey, ActiveKeys
  <2>4. ~AdminSetsStatus
    BY <1>2 DEF AdminSetsStatus
  <2>5. ~\E k \in ApiKeys : AdminRevokes(k)
    BY <1>2 DEF NothingYet, AdminRevokes
  <2> HIDE DEF AccountsTypeOK
  <2>6. \A c \in Recoveries : ~RecoveryStep(c)
    BY <2>2, <2>3 DEF RecoveryStep, AccountCalls, Environments
  <2>7. \A c \in PromoteCalls : ~PromoteStep(c)
    BY <2>2, <2>3 DEF PromoteStep, AccountCalls, Environments
  <2>8. \A c \in AccountCalls, old \in ApiKeys, k \in ApiKeys : ~AsksToRevoke(c, old, k)
    BY <2>3 DEF Environments
  <2>9. \A c \in AccountCalls, old \in ApiKeys, k \in ApiKeys, env \in Environments :
            ~AdminReplacesKey(c, old, k, env)
    BY <2>3
  <2>10. \A c \in AccountCalls, k \in ApiKeys : ~MintsKey(c, k) /\ ~AdminMintsKey(c, k)
    BY <2>3 DEF Environments
  <2>11. CASE \E c \in Mints : \E env \in Environments : AsksForKey(c, env) \/ AdminAsksForKey(c, env)
    <3>1. PICK c \in AccountCalls, env \in Environments : AsksForKey(c, env) \/ AdminAsksForKey(c, env)
      BY <2>11 DEF AccountCalls
    <3>2. ActiveKeys = {}
      BY <1>2 DEF NothingYet, ActiveKeys
    <3> QED BY <1>2, <3>1, <3>2 DEF AsksForKey, AdminAsksForKey
  <2>12. ASSUME NEW c \in AccountCalls PROVE /\ ~ReadsUnverified(c) /\ ~RenewsToken(c) /\ ~FindsToken(c)
                                             /\ ~Activates(c) /\ ~RevokesOne(c) /\ ~RequestFails(c)
    BY <2>2
  <2>13. CASE AccountsNext
    BY <2>1, <2>4, <2>5, <2>6, <2>7, <2>8, <2>9, <2>10, <2>11, <2>12, <2>13 DEF AccountsNext, AccountCalls
  <2> QED BY <1>1, <2>13
<1>3. CASE account.status # "ABSENT"
  <2>1. CASE RegistrationStep \/ AdminSetsStatus \/ \E k \in ApiKeys : AdminRevokes(k)
    BY <1>3, <2>1 DEF RegistrationStep, Registers, CreatesIssuer, MailsLink, RegistrationFails,
        CreatesInitialKey, AdminSetsStatus, Activated, AdminRevokes
  <2>2. ASSUME NEW c \in AccountCalls, RecoveryStep(c) PROVE NothingYet'
    BY <1>3, <2>2 DEF RecoveryStep, FindsAccount, RevokesKeys, Demotes, CreatesRecoveryKey
  <2>3. ASSUME NEW c \in AccountCalls, PromoteStep(c) PROVE NothingYet'
    BY <1>3, <2>3 DEF PromoteStep, ChecksSandbox, ListsSandboxKeys, RevokesSandbox, MirrorsKey,
        PromotesTenant
  <2>4. ASSUME NEW c \in AccountCalls,
               ReadsUnverified(c) \/ RenewsToken(c) \/ FindsToken(c) \/ Activates(c) \/ RequestFails(c)
        PROVE  NothingYet'
    BY <1>3, <2>4 DEF ReadsUnverified, RenewsToken, FindsToken, Activates, Activated, RequestFails
  <2>5. ASSUME NEW c \in AccountCalls, NEW old \in ApiKeys, NEW k \in ApiKeys, NEW env \in Environments,
               AdminReplacesKey(c, old, k, env) \/ AsksToRevoke(c, old, k)
        PROVE  NothingYet'
    BY <1>3, <2>5 DEF AdminReplacesKey, AsksToRevoke
  <2>6. CASE \E c \in Mints, env \in Environments : AsksForKey(c, env) \/ AdminAsksForKey(c, env)
    BY <1>3, <2>6 DEF AsksForKey, AdminAsksForKey
  <2>7. CASE \E c \in Revocations : RevokesOne(c)
    BY <1>3, <2>7 DEF RevokesOne
  <2>8. CASE \E c \in Mints, k \in ApiKeys : MintsKey(c, k) \/ AdminMintsKey(c, k)
    BY <1>3, <2>8 DEF MintsKey, AdminMintsKey
  <2> HIDE DEF AccountsTypeOK
  <2>9. CASE AccountsNext
    BY <1>3, <2>1, <2>2, <2>3, <2>4, <2>5, <2>6, <2>7, <2>8, <2>9 DEF AccountsNext, AccountCalls, Environments
  <2> QED BY <1>1, <2>9
<1> QED BY <1>2, <1>3

LEMMA RegistrationHolds ==
    ASSUME AccountsTypeOK, KeysHeld, RegistrationStep
    PROVE  KeysHeld'
<1>1. UNCHANGED request
  BY DEF RegistrationStep, Registers, CreatesIssuer, CreatesInitialKey, MailsLink, RegistrationFails
<1>2. \A e : Recovering(e)' = Recovering(e)
  BY <1>1 DEF Recovering
<1>3. Promoting' = Promoting
  BY <1>1 DEF Promoting
<1>4. CASE Registers \/ CreatesIssuer \/ MailsLink \/ RegistrationFails
  <2>1. UNCHANGED key
    BY <1>4 DEF Registers, CreatesIssuer, MailsLink, RegistrationFails
  <2>2. \A e : Held(e)' = Held(e)
    BY <1>2, <2>1 DEF Held, HasKey
  <2>3. Copying => Copying'
    BY <1>1, <2>2 DEF Copying
  <2>4. CASE Registers
    BY <1>3, <2>2, <2>3, <2>4 DEF Registers, KeysHeld, accountHistory
  <2>5. CASE CreatesIssuer
    BY <1>3, <2>2, <2>3, <2>5 DEF CreatesIssuer, KeysHeld, accountHistory
  <2>6. CASE MailsLink
    BY <1>3, <2>2, <2>3, <2>6 DEF MailsLink, KeysHeld, accountHistory
  <2>7. CASE RegistrationFails
    BY <1>3, <2>2, <2>3, <2>7 DEF RegistrationFails, KeysHeld
  <2> QED BY <1>4, <2>4, <2>5, <2>6, <2>7
<1>5. ASSUME NEW k \in ApiKeys, CreatesInitialKey(k) PROVE KeysHeld'
  <2>1. HasKey("sandbox")' /\ \A e \in Environments : HasKey(e) => HasKey(e)'
    BY <1>5, NewKeyHolds DEF CreatesInitialKey, Environments
  <2>2. Held("sandbox")' /\ (Held("production") => Held("production")')
    BY <1>2, <2>1 DEF Held, Environments
  <2>3. Copying => Copying'
    BY <1>1, <2>2 DEF Copying
  <2> QED BY <1>5, <2>2, <2>3 DEF CreatesInitialKey, KeysHeld, accountHistory
<1> QED BY <1>4, <1>5 DEF RegistrationStep

LEMMA RecoveryHolds ==
    ASSUME AccountsTypeOK, NothingYet, KeysHeld, NEW c \in Recoveries, RecoveryStep(c)
    PROVE  KeysHeld'
<1>0. c \in AccountCalls /\ request[c].env \in Environments
  BY DEF AccountCalls, AccountsTypeOK, Request
<1>1. CASE FindsAccount(c)
  <2>1. /\ \A d \in AccountCalls \ {c} : request'[d] = request[d]
        /\ request[c].at = "idle" /\ request'[c].at = "read"
    BY <1>0, <1>1 DEF FindsAccount, BeginsCall, AccountsTypeOK, Request
  <2> QED BY <1>0, <1>1, <2>1, QuietStays DEF FindsAccount, accountHistory
<1>2. CASE RevokesKeys(c)
  <2>1. /\ \A d \in AccountCalls \ {c} : request'[d] = request[d]
        /\ request[c].at = "read" /\ request'[c].at = "revoked" /\ request'[c].env = request[c].env
    BY <1>0, <1>2, StepsKeep DEF RevokesKeys
  <2>2. ASSUME NEW e \in Environments, e = request[c].env PROVE Held(e)'
    BY <2>1, <2>2 DEF Held, Recovering
  <2>3. ASSUME NEW e \in Environments, Held(e) PROVE Held(e)'
    <3>1. CASE e = request[c].env
      BY <2>2, <3>1
    <3>2. CASE e # request[c].env /\ HasKey(e)
      <4>1. PICK k \in ApiKeys : key[k].active /\ key[k].env = e
        BY <3>2 DEF HasKey
      <4>2. key'[k] = key[k]
        BY <1>2, <3>2, <4>1 DEF RevokesKeys, RevokesAll
      <4> QED BY <4>1, <4>2 DEF Held, HasKey
    <3>3. CASE Recovering(e)
      <4>1. PICK r \in Recoveries : request[r].at = "revoked" /\ request[r].env = e
        BY <3>3 DEF Recovering
      <4>2. request'[r] = request[r]
        BY <2>1, <4>1 DEF AccountCalls
      <4> QED BY <4>1, <4>2 DEF Held, Recovering
    <3> QED BY <2>3, <3>1, <3>2, <3>3 DEF Held
  <2> QED BY <1>0, <1>2, <2>1, <2>3, OtherStays DEF RevokesKeys, accountHistory
<1>3. ASSUME NEW k \in ApiKeys, CreatesRecoveryKey(c, k) PROVE KeysHeld'
  <2>1. /\ \A d \in AccountCalls \ {c} : request'[d] = request[d]
        /\ request[c].at = "revoked" /\ request'[c].at = "keyed"
    BY <1>0, <1>3, StepsKeep DEF CreatesRecoveryKey
  <2>2. PICK env \in Environments, reserved \in BOOLEAN :
            env = request[c].env /\ NewKey(k, env, reserved)
    BY <1>0, <1>3 DEF CreatesRecoveryKey
  <2>3. HasKey(env)' /\ \A e \in Environments : HasKey(e) => HasKey(e)'
    BY <2>2, NewKeyHolds
  <2>4. ASSUME NEW e \in Environments, Held(e) PROVE Held(e)'
    <3>1. CASE e = request[c].env
      BY <2>2, <2>3, <3>1 DEF Held
    <3>2. CASE e # request[c].env /\ Recovering(e)
      <4>1. PICK r \in Recoveries : request[r].at = "revoked" /\ request[r].env = e
        BY <3>2 DEF Recovering
      <4>2. request'[r] = request[r]
        BY <2>1, <3>2, <4>1 DEF AccountCalls
      <4> QED BY <4>1, <4>2 DEF Held, Recovering
    <3>3. CASE HasKey(e)
      BY <2>3, <3>3 DEF Held
    <3> QED BY <2>4, <3>1, <3>2, <3>3 DEF Held
  <2> QED BY <1>0, <1>3, <2>1, <2>4, OtherStays DEF CreatesRecoveryKey, accountHistory
<1>4. CASE Demotes(c)
  <2>1. /\ \A d \in AccountCalls \ {c} : request'[d] = request[d]
        /\ request[c].at = "keyed" /\ request'[c].at = "done"
    BY <1>0, <1>4, ClosesMove DEF Demotes
  <2>2. account'.sandbox = account.sandbox
    BY <1>4 DEF Demotes, AccountsTypeOK
  <2>3. account.status # "ABSENT"
    BY <1>0, <2>1 DEF NothingYet
  <2> QED BY <1>0, <1>4, <2>1, <2>2, <2>3, QuietStays DEF Demotes
<1> QED BY <1>1, <1>2, <1>3, <1>4 DEF RecoveryStep

LEMMA LinksHold ==
    ASSUME AccountsTypeOK, NothingYet, KeysHeld,
           \/ \E c \in Resends : ReadsUnverified(c) \/ RenewsToken(c)
           \/ \E v \in Clicks : FindsToken(v) \/ Activates(v)
    PROVE  KeysHeld'
<1>1. ASSUME NEW c \in AccountCalls, ReadsUnverified(c) PROVE KeysHeld'
  <2>1. /\ \A d \in AccountCalls \ {c} : request'[d] = request[d]
        /\ request[c].at = "idle" /\ request'[c].at = "read"
    BY <1>1, StepsKeep DEF ReadsUnverified, BeginsCall
  <2> QED BY <1>1, <2>1, QuietStays DEF ReadsUnverified, accountHistory
<1>2. ASSUME NEW c \in AccountCalls, RenewsToken(c) \/ Activates(c) PROVE KeysHeld'
  <2>1. /\ \A d \in AccountCalls \ {c} : request'[d] = request[d]
        /\ request[c].at = "read" /\ request'[c].at = "done"
    BY <1>2, ClosesMove DEF RenewsToken, Activates
  <2>2. account'.sandbox = account.sandbox /\ account.status # "ABSENT"
    BY <1>2, <2>1 DEF RenewsToken, Activates, Activated, AccountsTypeOK, NothingYet
  <2> QED BY <1>2, <2>1, <2>2, QuietStays DEF RenewsToken, Activates, accountHistory
<1>3. ASSUME NEW v \in AccountCalls, FindsToken(v) PROVE KeysHeld'
  <2>1. /\ \A d \in AccountCalls \ {v} : request'[d] = request[d]
        /\ request[v].at = "idle" /\ request'[v].at = "read"
    BY <1>3 DEF FindsToken, BeginsCall, AccountsTypeOK, Request
  <2> QED BY <1>3, <2>1, QuietStays DEF FindsToken, accountHistory
<1> QED BY <1>1, <1>2, <1>3 DEF AccountCalls

LEMMA PromotionHolds ==
    ASSUME AccountsTypeOK, NothingYet, KeysHeld, NEW c \in PromoteCalls, PromoteStep(c)
    PROVE  KeysHeld'
<1>0. c \in AccountCalls
  BY DEF AccountCalls
<1>1. CASE ChecksSandbox(c)
  <2>1. /\ \A d \in AccountCalls \ {c} : request'[d] = request[d]
        /\ request[c].at = "idle" /\ request'[c].at = "read"
    BY <1>0, <1>1, StepsKeep DEF ChecksSandbox, BeginsCall
  <2> QED BY <1>0, <1>1, <2>1, QuietStays DEF ChecksSandbox, accountHistory
<1>2. CASE ListsSandboxKeys(c)
  <2> SUFFICES ASSUME ~excused' PROVE KeysHeld'
    BY DEF KeysHeld
  <2>1. /\ \A d \in AccountCalls \ {c} : request'[d] = request[d]
        /\ request[c].at = "read" /\ request'[c].at = "listed" /\ request'[c].keys # {}
    BY <1>0, <1>2 DEF ListsSandboxKeys, AccountsTypeOK, Request
  <2>2. UNCHANGED <<account, key, registration>> /\ ~excused
    BY <1>2 DEF ListsSandboxKeys
  <2>3. \A e \in Environments : HasKey(e) => HasKey(e)'
    BY <2>2 DEF HasKey
  <2>4. \A e \in Environments : Held(e) => Held(e)'
    BY <1>0, <2>1, <2>3, HeldStays
  <2>5. Copying'
    BY <2>1, <2>2, <2>4 DEF KeysHeld, Copying, AccountCalls, Environments
  <2>6. Promoting => Promoting'
    BY <2>1 DEF Promoting, AccountCalls
  <2> QED BY <2>2, <2>4, <2>5, <2>6 DEF KeysHeld, Environments
<1>3. CASE RevokesSandbox(c)
  <2> SUFFICES ASSUME ~excused' PROVE KeysHeld'
    BY DEF KeysHeld
  <2>1. /\ \A d \in AccountCalls \ {c} : request'[d] = request[d]
        /\ request[c].at = "listed" /\ request'[c].at = "creating"
        /\ request'[c].keys = request[c].keys
    BY <1>0, <1>3, StepsKeep DEF RevokesSandbox
  <2>2. UNCHANGED <<account, registration>> /\ ~excused
    BY <1>3 DEF RevokesSandbox, accountHistory
  <2>3. Held("production") => Held("production")'
    <3>1. \A k \in ApiKeys : key[k].env = "production" => key'[k] = key[k]
      BY <1>3 DEF RevokesSandbox, RevokesAll
    <3>2. HasKey("production") => HasKey("production")'
      BY <3>1 DEF HasKey
    <3>3. Recovering("production") => Recovering("production")'
      BY <2>1 DEF Recovering, AccountCalls
    <3> QED BY <3>2, <3>3 DEF Held
  <2>4. Copying'
    BY <2>1, <2>2, <2>3 DEF KeysHeld, Copying, AccountCalls
  <2>5. Promoting'
    BY <2>1 DEF Promoting
  <2> QED BY <2>2, <2>3, <2>4, <2>5 DEF KeysHeld
<1>4. ASSUME NEW old \in ApiKeys, NEW k \in ApiKeys, MirrorsKey(c, old, k) PROVE KeysHeld'
  <2> SUFFICES ASSUME ~excused' PROVE KeysHeld'
    BY DEF KeysHeld
  <2>1. /\ \A d \in AccountCalls \ {c} : request'[d] = request[d]
        /\ request[c].at = "creating" /\ request'[c].at = "creating"
    BY <1>0, <1>4 DEF MirrorsKey, AccountsTypeOK, Request
  <2>2. UNCHANGED <<account, registration>> /\ ~excused
    BY <1>4 DEF MirrorsKey, accountHistory
  <2>3. HasKey("production")' /\ \A e \in Environments : HasKey(e) => HasKey(e)'
    <3>1. key[old].reserved \in BOOLEAN
      BY DEF AccountsTypeOK
    <3> QED BY <1>4, <3>1, NewKeyHolds DEF MirrorsKey, Environments
  <2>4. Held("production")' /\ (Held("sandbox") => Held("sandbox")')
    BY <1>0, <2>1, <2>3, HeldStays DEF Held, Environments
  <2>5. Copying'
    BY <2>1, <2>2, <2>4 DEF KeysHeld, Copying, AccountCalls
  <2>6. Promoting'
    BY <2>1 DEF Promoting
  <2> QED BY <2>4, <2>5, <2>6 DEF KeysHeld
<1>5. CASE PromotesTenant(c)
  <2> SUFFICES ASSUME ~excused' PROVE KeysHeld'
    BY DEF KeysHeld
  <2>1. /\ \A d \in AccountCalls \ {c} : request'[d] = request[d]
        /\ request[c].at = "creating" /\ request[c].keys = {} /\ request'[c].at = "done"
    BY <1>0, <1>5, ClosesMove DEF PromotesTenant
  <2>2. UNCHANGED <<key, registration>> /\ ~excused /\ ~account'.sandbox
    BY <1>5 DEF PromotesTenant, accountHistory, AccountsTypeOK
  <2>3. \A e \in Environments : HasKey(e) => HasKey(e)'
    BY <2>2 DEF HasKey
  <2>4. Held("production") => Held("production")'
    BY <1>0, <2>1, <2>3, HeldStays DEF Environments
  <2>5. Held("production")'
    BY <2>1, <2>2, <2>4 DEF KeysHeld, Copying
  <2>6. Copying'
    BY <2>1, <2>2, <2>5 DEF KeysHeld, Copying, AccountCalls
  <2> QED BY <2>2, <2>5, <2>6 DEF KeysHeld
<1> QED BY <1>1, <1>2, <1>3, <1>4, <1>5 DEF PromoteStep

LEMMA MintHolds ==
    ASSUME AccountsTypeOK, KeysHeld, NEW c \in Mints,
           \/ \E env \in Environments : AsksForKey(c, env)
           \/ \E env \in Environments : AdminAsksForKey(c, env)
           \/ \E k \in ApiKeys : MintsKey(c, k) \/ AdminMintsKey(c, k)
           \/ \E old, k \in ApiKeys, env \in Environments : AdminReplacesKey(c, old, k, env)
    PROVE  KeysHeld'
<1>0. c \in AccountCalls /\ request[c].env \in Environments
  BY DEF AccountCalls, AccountsTypeOK, Request
<1>1. ASSUME NEW env \in Environments, AsksForKey(c, env) PROVE KeysHeld'
  <2>1. /\ \A d \in AccountCalls \ {c} : request'[d] = request[d]
        /\ request[c].at = "idle" /\ request'[c].at = "read"
    BY <1>0, <1>1 DEF AsksForKey, BeginsCall, AccountsTypeOK, Request
  <2> QED BY <1>0, <1>1, <2>1, QuietStays DEF AsksForKey, accountHistory
<1>2. ASSUME NEW env \in Environments, AdminAsksForKey(c, env) PROVE KeysHeld'
  <2>1. CASE excused'
    BY <2>1 DEF KeysHeld
  <2>2. CASE ~excused'
    <3>1. /\ \A d \in AccountCalls \ {c} : request'[d] = request[d]
          /\ request[c].at = "idle" /\ request'[c].at = "minting"
      BY <1>0, <1>2 DEF AdminAsksForKey, BeginsCall, AccountsTypeOK, Request
    <3>2. UNCHANGED <<key, excused, registration, account>>
      BY <1>2, <2>2 DEF AdminAsksForKey
    <3> QED BY <1>0, <3>1, <3>2, QuietStays
  <2> QED BY <2>1, <2>2
<1>3. ASSUME NEW k \in ApiKeys, MintsKey(c, k) \/ AdminMintsKey(c, k) PROVE KeysHeld'
  <2>1. /\ \A d \in AccountCalls \ {c} : request'[d] = request[d]
        /\ request[c].at \in {"read", "minting"} /\ request'[c].at = "done"
    BY <1>0, <1>3, ClosesMove DEF MintsKey, AdminMintsKey
  <2>2. \A e \in Environments : HasKey(e) => HasKey(e)'
    <3>1. PICK env \in Environments, reserved \in BOOLEAN : NewKey(k, env, reserved)
      BY <1>0, <1>3 DEF MintsKey, AdminMintsKey
    <3> QED BY <3>1, NewKeyHolds
  <2>3. \A e \in Environments : Held(e) => Held(e)'
    BY <1>0, <2>1, <2>2, HeldStays
  <2>4. UNCHANGED <<account, registration, excused>>
    BY <1>3 DEF MintsKey, AdminMintsKey, accountHistory
  <2> QED BY <1>0, <2>1, <2>3, <2>4, OtherStays
<1>4. ASSUME NEW old \in ApiKeys, NEW k \in ApiKeys, NEW env \in Environments,
             AdminReplacesKey(c, old, k, env)
      PROVE  KeysHeld'
  <2>1. CASE excused'
    BY <2>1 DEF KeysHeld
  <2>2. CASE ~excused'
    <3>1. /\ \A d \in AccountCalls \ {c} : request'[d] = request[d]
          /\ request[c].at = "idle" /\ request'[c].at = "done"
      BY <1>0, <1>4, ClosesMove DEF AdminReplacesKey, BeginsCall
    <3>2. /\ ~excused /\ env = key[old].env /\ UNCHANGED <<account, registration>>
          /\ key[old].active /\ key[k].env = "none" /\ k # old
      BY <1>4, <2>2 DEF AdminReplacesKey, Environments
    <3>3. PICK reserved \in BOOLEAN :
              key' = [key EXCEPT ![old].active = FALSE,
                                 ![k] = [env |-> env, active |-> TRUE, reserved |-> reserved]]
      BY <1>4 DEF AdminReplacesKey
    <3>4. /\ key'[k].active /\ key'[k].env = env
          /\ \A j \in ApiKeys \ {k, old} : key'[j] = key[j]
      BY <3>3 DEF AccountsTypeOK
    <3>5. ASSUME NEW e \in Environments, HasKey(e) PROVE HasKey(e)'
      <4>1. PICK j \in ApiKeys : key[j].active /\ key[j].env = e
        BY <3>5 DEF HasKey
      <4>2. CASE j = old
        BY <3>2, <3>4, <4>1, <4>2 DEF HasKey
      <4>3. CASE j # old
        <5>1. j # k
          BY <3>2, <4>1 DEF Environments
        <5> QED BY <3>4, <4>1, <4>3, <5>1 DEF HasKey
      <4> QED BY <4>2, <4>3
    <3>6. \A e \in Environments : Held(e) => Held(e)'
      BY <1>0, <3>1, <3>5, HeldStays
    <3> QED BY <1>0, <3>1, <3>2, <3>6, OtherStays
  <2> QED BY <2>1, <2>2
<1> QED BY <1>1, <1>2, <1>3, <1>4

LEMMA RevocationHolds ==
    ASSUME AccountsTypeOK, TwoKeys, KeysHeld, NEW c \in Revocations,
           (\E by, k \in ApiKeys : AsksToRevoke(c, by, k)) \/ RevokesOne(c)
    PROVE  KeysHeld'
<1>0. c \in AccountCalls /\ request[c] \in Request
  BY DEF AccountCalls, AccountsTypeOK
<1>1. ASSUME NEW by \in ApiKeys, NEW k \in ApiKeys, AsksToRevoke(c, by, k) PROVE KeysHeld'
  <2>1. /\ \A d \in AccountCalls \ {c} : request'[d] = request[d]
        /\ request[c].at = "idle" /\ request'[c].at = "read"
    BY <1>0, <1>1 DEF AsksToRevoke, BeginsCall, AccountsTypeOK, Request
  <2> QED BY <1>0, <1>1, <2>1, QuietStays DEF AsksToRevoke, accountHistory
<1>2. CASE RevokesOne(c)
  <2>1. CASE excused'
    BY <2>1 DEF KeysHeld
  <2>2. CASE ~excused'
    <3>1. /\ \A d \in AccountCalls \ {c} : request'[d] = request[d]
          /\ request[c].at = "read" /\ request'[c].at = "done"
      BY <1>0, <1>2, ClosesMove DEF RevokesOne
    <3>2. /\ \A b \in request[c].by : key[b].active
          /\ \A b \in request[c].by, k \in request[c].keys : key[b].env = key[k].env
          /\ UNCHANGED <<account, registration, excused>>
      BY <1>2, <2>2 DEF RevokesOne, AccountsTypeOK
    <3>3. /\ request[c].by \subseteq ApiKeys
          /\ request[c].by \cap request[c].keys = {}
          /\ request[c].keys = {} \/ request[c].by # {}
      BY <1>0, <3>1 DEF TwoKeys, Request
    <3>4. \A j \in ApiKeys \ request[c].keys : key'[j] = key[j]
      BY <1>2 DEF RevokesOne
    <3>5. ASSUME NEW e \in Environments, HasKey(e) PROVE HasKey(e)'
      <4>1. PICK j \in ApiKeys : key[j].active /\ key[j].env = e
        BY <3>5 DEF HasKey
      <4>2. CASE j \notin request[c].keys
        BY <3>4, <4>1, <4>2 DEF HasKey
      <4>3. CASE j \in request[c].keys
        <5>1. PICK b \in request[c].by : TRUE
          BY <3>3, <4>3
        <5>2. b \in ApiKeys \ request[c].keys /\ key[b].active /\ key[b].env = e
          BY <3>2, <3>3, <4>1, <4>3, <5>1
        <5> QED BY <3>4, <5>2 DEF HasKey
      <4> QED BY <4>2, <4>3
    <3>6. \A e \in Environments : Held(e) => Held(e)'
      BY <1>0, <3>1, <3>5, HeldStays
    <3> QED BY <1>0, <3>1, <3>2, <3>6, OtherStays
  <2> QED BY <2>1, <2>2
<1> QED BY <1>1, <1>2

LEMMA AdminHolds ==
    ASSUME AccountsTypeOK, NothingYet, KeysHeld,
           \/ AdminSetsStatus \/ \E k \in ApiKeys : AdminRevokes(k)
           \/ \E c \in AccountCalls : RequestFails(c)
    PROVE  KeysHeld'
<1>1. CASE AdminSetsStatus
  <2>1. /\ UNCHANGED <<key, registration, request, excused>> /\ account.status # "ABSENT"
        /\ account'.sandbox = account.sandbox
    BY <1>1 DEF AdminSetsStatus, Activated, AccountsTypeOK
  <2>2. /\ Held("production")' = Held("production") /\ Held("sandbox")' = Held("sandbox")
        /\ Promoting' = Promoting
    BY <2>1 DEF Held, HasKey, Recovering, Promoting
  <2>3. Copying => Copying'
    BY <2>1, <2>2 DEF Copying
  <2> QED BY <2>1, <2>2, <2>3 DEF KeysHeld
<1>2. ASSUME NEW k \in ApiKeys, AdminRevokes(k) PROVE KeysHeld'
  BY <1>2 DEF AdminRevokes, KeysHeld
<1>3. ASSUME NEW c \in AccountCalls, RequestFails(c) PROVE KeysHeld'
  <2>1. CASE excused'
    BY <2>1 DEF KeysHeld
  <2>2. CASE ~excused'
    <3>1. /\ \A d \in AccountCalls \ {c} : request'[d] = request[d]
          /\ request'[c].at = "done"
      BY <1>3, ClosesMove DEF RequestFails
    <3>2. request[c].at \notin {"revoked", "creating"} /\ UNCHANGED <<key, registration, account>>
          /\ ~excused
      BY <1>3, <2>2 DEF RequestFails
    <3> QED BY <3>1, <3>2, QuietStays
  <2> QED BY <2>1, <2>2
<1> QED BY <1>1, <1>2, <1>3

\* The three together.
KeysInv == NothingYet /\ TwoKeys /\ KeysHeld

LEMMA KeysBegin == AccountsInit => KeysInv
<1> SUFFICES ASSUME AccountsInit PROVE KeysInv
  OBVIOUS
<1>1. \A c \in AccountCalls : request[c] = NoRequest
  BY DEF AccountsInit
<1>2. NothingYet
  BY <1>1 DEF AccountsInit, NothingYet, NoRequest
<1>3. TwoKeys
  BY <1>1 DEF TwoKeys, NoRequest
<1>4. Copying
  BY <1>1 DEF Copying, NoRequest, AccountCalls
<1>5. KeysHeld
  BY <1>4 DEF AccountsInit, KeysHeld
<1> QED BY <1>2, <1>3, <1>5 DEF KeysInv

LEMMA KeysStep == AccountsTypeOK /\ KeysInv /\ [AccountsNext]_accountsVars => KeysInv'
<1> SUFFICES ASSUME AccountsTypeOK, KeysInv, [AccountsNext]_accountsVars PROVE KeysInv'
  OBVIOUS
<1> USE DEF KeysInv
<1>1. TwoKeys' /\ NothingYet'
  BY TwoKeysStep, NothingYetStep
<1>2. CASE UNCHANGED accountsVars
  <2>1. UNCHANGED <<account, key, registration, request, excused>>
    BY <1>2 DEF accountsVars, accountHistory
  <2>2. /\ Held("production")' = Held("production") /\ Held("sandbox")' = Held("sandbox")
        /\ Promoting' = Promoting
    BY <2>1 DEF Held, HasKey, Recovering, Promoting
  <2>3. Copying' = Copying
    BY <2>1, <2>2 DEF Copying
  <2> QED BY <1>1, <2>1, <2>2, <2>3 DEF KeysHeld
<1>3. CASE AccountsNext
  <2>1. KeysHeld'
    BY <1>3, RegistrationHolds, RecoveryHolds, LinksHold, PromotionHolds, MintHolds,
       RevocationHolds, AdminHolds DEF AccountsNext
  <2> QED BY <1>1, <2>1
<1> QED BY <1>2, <1>3

\* A tenant always has a key for its environment, whatever calls overlap and fail, except
\* while a registration, a recovery or a promotion is between revoking and creating keys,
\* or after what the property lists (registration.service.js:172-185, 257-272,
\* tenant.service.js:100-116, api-key.service.js:109-123).
THEOREM NobodyIsLockedOut == AccountsSpec => []NotLockedOut
<1>1. AccountsTypeOK /\ KeysInv => NotLockedOut
  <2> SUFFICES ASSUME AccountsTypeOK, KeysInv, account.status # "ABSENT", ~excused, UsableKeys = {}
               PROVE  Busy
    BY DEF NotLockedOut
  <2>1. Environment = (IF account.sandbox THEN "sandbox" ELSE "production") /\ ~HasKey(Environment)
    BY DEF Environment, UsableKeys, ActiveKeys, HasKey
  <2>2. Recovering(Environment) \/ Promoting \/ registration \in {"tenant", "issuer"}
    BY <2>1 DEF KeysInv, KeysHeld, Held, AccountsTypeOK
  <2> QED BY <2>2 DEF Busy, Recovering, Promoting
<1> QED BY <1>1, AccountsTyping, KeysBegin, KeysStep, PTL DEF AccountsSpec
=============================================================================
