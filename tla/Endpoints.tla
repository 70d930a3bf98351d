----------------------------- MODULE Endpoints -----------------------------
(***************************************************************************)
(* The webhook endpoints of one tenant: the limit its plan sets, and the   *)
(* verified e-mail that a new address needs.                               *)
(*                                                                         *)
(* A call checks first and writes later; only a replacement is a           *)
(* transaction, and it locks nothing that it counts.  Of an endpoint the   *)
(* model keeps whether it is active and whether it is the web              *)
(* application's (reserved); address, secret and event types are left out, *)
(* and an update of these alone with them.                                 *)
(***************************************************************************)
EXTENDS Naturals, FiniteSets

CONSTANTS
    Endpoints,        \* rows of webhook_endpoints that may be created
    EndpointCalls,    \* calls, the tenant's and the administrator's
    MaxEndpointCalls, \* bound: calls made
    MaxReserved       \* RESERVED_WEBHOOK_ENDPOINTS_FOR_FRONTEND

ASSUME EndpointBounds == MaxEndpointCalls \in Nat /\ MaxReserved \in Nat

VARIABLES
    endpoint,         \* webhook_endpoints
    allowed,          \* the endpoints the plan allows
    isActive,         \* the tenant is ACTIVE
    endpointCall,     \* what each call is doing
    endpointCalls,    \* calls made so far
    exceeded          \* history: what may have passed the limit

endpointsVars == <<endpoint, allowed, isActive, endpointCall, endpointCalls, exceeded>>

NoEndpointCall == [at |-> "idle", endpoint |-> {}, reserved |-> FALSE]

EndpointsTypeOK ==
    /\ endpoint \in [Endpoints -> [exists : BOOLEAN, active : BOOLEAN, reserved : BOOLEAN]]
    /\ allowed \in 1 .. 2 /\ isActive \in BOOLEAN
    /\ endpointCall \in [EndpointCalls -> [at : {"idle", "creating", "replacing", "toggling"},
                                           endpoint : SUBSET Endpoints, reserved : BOOLEAN]]
    /\ endpointCalls \in 0 .. MaxEndpointCalls
    /\ exceeded \subseteq {"overlap", "reactivated", "plan"}

EndpointsInit ==
    /\ endpoint = [e \in Endpoints |-> [exists |-> FALSE, active |-> FALSE, reserved |-> FALSE]]
    /\ allowed \in 1 .. 2 /\ isActive \in BOOLEAN
    /\ endpointCall = [c \in EndpointCalls |-> NoEndpointCall]
    /\ endpointCalls = 0 /\ exceeded = {}

ActiveEndpoints(reserved) == {e \in Endpoints : endpoint[e].active /\ endpoint[e].reserved = reserved}

BelowLimit(reserved) == Cardinality(ActiveEndpoints(reserved)) < IF reserved THEN MaxReserved ELSE allowed

Calls(c, call) ==
    /\ endpointCall[c].at = "idle"
    /\ endpointCalls < MaxEndpointCalls /\ endpointCalls' = endpointCalls + 1
    /\ endpointCall' = [endpointCall EXCEPT ![c] = call]
    /\ exceeded' = IF \E d \in EndpointCalls : endpointCall[d].at # "idle"
                   THEN exceeded \cup {"overlap"} ELSE exceeded
    /\ UNCHANGED <<endpoint, allowed, isActive>>

Ends(c) == endpointCall' = [endpointCall EXCEPT ![c] = NoEndpointCall]

Inserted(e, reserved) == [exists |-> TRUE, active |-> TRUE, reserved |-> reserved]

-----------------------------------------------------------------------------
(* create(), and createWebhookEndpoint() of the administrator.             *)

\* The tenant's own is never reserved, and needs the verified e-mail.
AsksToCreate(c) ==
    /\ isActive /\ BelowLimit(FALSE)
    /\ Calls(c, [NoEndpointCall EXCEPT !.at = "creating"])

AdminAsksToCreate(c, reserved) ==
    /\ BelowLimit(reserved)
    /\ Calls(c, [NoEndpointCall EXCEPT !.at = "creating", !.reserved = reserved])

CreatesEndpoint(c, e) ==
    /\ endpointCall[c].at = "creating" /\ ~endpoint[e].exists /\ Ends(c)
    /\ endpoint' = [endpoint EXCEPT ![e] = Inserted(e, endpointCall[c].reserved)]
    /\ UNCHANGED <<allowed, isActive, endpointCalls, exceeded>>

\* Like for like skips the limit.
Replaceable(e, reserved) ==
    endpoint[e].active /\ (endpoint[e].reserved # reserved => BelowLimit(reserved))

AdminAsksToReplace(c, e, reserved) ==
    /\ Replaceable(e, reserved)
    /\ Calls(c, [at |-> "replacing", endpoint |-> {e}, reserved |-> reserved])

\* One transaction; the row that is replaced is written as it is by then.
ReplacesEndpoint(c, e) ==
    /\ endpointCall[c].at = "replacing" /\ ~endpoint[e].exists /\ Ends(c)
    /\ endpoint' = [f \in Endpoints |->
           IF f = e THEN Inserted(e, endpointCall[c].reserved)
           ELSE IF f \in endpointCall[c].endpoint THEN [endpoint[f] EXCEPT !.active = FALSE]
           ELSE endpoint[f]]
    /\ UNCHANGED <<allowed, isActive, endpointCalls, exceeded>>

-----------------------------------------------------------------------------
(* update() and deregister().                                              *)

\* active is never gated, on a reserved endpoint neither: nor is the limit looked at.
AsksToToggle(c, e) ==
    /\ endpoint[e].exists /\ Calls(c, [NoEndpointCall EXCEPT !.at = "toggling", !.endpoint = {e}])

Toggles(c, active) ==
    /\ endpointCall[c].at = "toggling" /\ Ends(c)
    /\ endpoint' = [e \in Endpoints |-> IF e \in endpointCall[c].endpoint
                                        THEN [endpoint[e] EXCEPT !.active = active] ELSE endpoint[e]]
    /\ exceeded' = IF active /\ \E e \in endpointCall[c].endpoint : ~endpoint[e].active
                 THEN exceeded \cup {"reactivated"} ELSE exceeded
    /\ UNCHANGED <<allowed, isActive, endpointCalls>>

-----------------------------------------------------------------------------
(* The plan, the tenant's e-mail, and calls that end early.                *)

PlanAllows ==
    /\ allowed' = 3 - allowed
    /\ exceeded' = IF allowed = 2 THEN exceeded \cup {"plan"} ELSE exceeded
    /\ UNCHANGED <<endpoint, isActive, endpointCall, endpointCalls>>

VerificationChanges ==
    /\ isActive' = ~isActive
    /\ UNCHANGED <<endpoint, allowed, endpointCall, endpointCalls, exceeded>>

CallEnds(c) ==
    /\ endpointCall[c].at # "idle" /\ Ends(c)
    /\ UNCHANGED <<endpoint, allowed, isActive, endpointCalls, exceeded>>

EndpointsNext ==
    \/ PlanAllows \/ VerificationChanges
    \/ \E c \in EndpointCalls :
          \/ AsksToCreate(c) \/ CallEnds(c)
          \/ \E reserved \in BOOLEAN : \/ AdminAsksToCreate(c, reserved) \/ Toggles(c, reserved)
                                       \/ \E e \in Endpoints : AdminAsksToReplace(c, e, reserved)
          \/ \E e \in Endpoints : \/ CreatesEndpoint(c, e) \/ ReplacesEndpoint(c, e)
                                  \/ AsksToToggle(c, e)

EndpointsSpec == EndpointsInit /\ [][EndpointsNext]_endpointsVars

-----------------------------------------------------------------------------
(* Properties.                                                             *)

\* Registrations and replacements never bring a tenant above the endpoints of its plan,
\* nor above the ones reserved for the web application, unless two calls overlapped, an
\* endpoint was switched on again, or the plan became smaller
\* (webhook-endpoint.service.js:66-88, admin.service.js:318-373).
EndpointsWithinPlan ==
    /\ exceeded = {} => Cardinality(ActiveEndpoints(FALSE)) <= allowed
    /\ exceeded \cap {"overlap", "reactivated"} = {} =>
           Cardinality(ActiveEndpoints(TRUE)) <= MaxReserved
=============================================================================
