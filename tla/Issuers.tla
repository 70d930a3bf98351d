------------------------------ MODULE Issuers ------------------------------
(***************************************************************************)
(* The issuers of one tenant: its branches, their issue points and the     *)
(* document types each may issue.                                          *)
(*                                                                         *)
(* A call checks what the tenant has and writes later, without a lock;     *)
(* reads that follow each other are one step.  The plan is read when the   *)
(* call is authenticated.  An issue point is an issuer of its own.  A      *)
(* document is asked for, which looks at the issuer, and inserted later;   *)
(* only the first one of an issuer matters here.  The certificate, the     *)
(* addresses and can_issue, which no check reads here, are left out, and   *)
(* so are the sequentials (DocumentCreation).                              *)
(***************************************************************************)
EXTENDS Naturals, FiniteSets

CONSTANTS
    IssuerRows,      \* issuers that may be created
    Branches,        \* branch codes
    DocTypes,        \* document types the plans allow
    IssuerCalls,     \* calls of the tenant's
    MaxIssuerCalls,  \* bound: calls made
    IssuerFailures   \* bound: statements that fail, and crashes

ASSUME IssuerBounds == MaxIssuerCalls \in Nat

VARIABLES
    plan,            \* how many branches, and issue points in a branch, the plan allows
    issuer,          \* the rows
    types,           \* issuer_document_types that are active
    issuing,         \* issuers a document creation in progress has found active
    used,            \* issuers that have documents
    issuerCall,      \* what each call is doing
    issuerCalls,     \* calls made so far
    issuerFailures,  \* failures so far
    mingled          \* history: what may have broken a rule: two calls at once, a failure, a
                     \* document created and an issuer removed at once, a smaller plan

issuersVars ==
    <<plan, issuer, types, issuing, used, issuerCall, issuerCalls, issuerFailures, mingled>>

NoIssuerCall == [at |-> "idle", issuer |-> {}, branch |-> {}, type |-> {}, plan |-> 1]

IssuersTypeOK ==
    /\ plan \in 1 .. 2
    /\ issuer \in [IssuerRows -> [branch : SUBSET Branches, active : BOOLEAN]]
    /\ types \in [IssuerRows -> SUBSET DocTypes]
    /\ issuing \subseteq IssuerRows /\ used \subseteq IssuerRows
    /\ issuerCall \in [IssuerCalls -> [at : {"idle", "creating", "typing", "activating", "removing",
                                             "untyping"},
                                       issuer : SUBSET IssuerRows, branch : SUBSET Branches,
                                       type : SUBSET DocTypes, plan : 1 .. 2]]
    /\ issuerCalls \in 0 .. MaxIssuerCalls /\ issuerFailures \in Nat
    /\ mingled \subseteq {"overlap", "failure", "document", "plan"}

\* register() has created the first issuer, with one type.
IssuersInit ==
    /\ plan \in 1 .. 2
    /\ \E first \in IssuerRows, b \in Branches, t \in DocTypes :
          /\ issuer = [i \in IssuerRows |-> [branch |-> IF i = first THEN {b} ELSE {},
                                             active |-> i = first]]
          /\ types = [i \in IssuerRows |-> IF i = first THEN {t} ELSE {}]
    /\ issuing = {} /\ used = {} /\ issuerCall = [c \in IssuerCalls |-> NoIssuerCall]
    /\ issuerCalls = 0 /\ issuerFailures = 0 /\ mingled = {}

ActiveIssuers == {i \in IssuerRows : issuer[i].active}
PointsOf(b) == {i \in ActiveIssuers : issuer[i].branch = {b}}
ActiveBranches == {b \in Branches : PointsOf(b) # {}}

\* A new branch is held against the branches, another issue point against its branch.
Fits(b, limit) == IF PointsOf(b) = {} THEN Cardinality(ActiveBranches) < limit
                  ELSE Cardinality(PointsOf(b)) < limit

Opens(c, call) ==
    /\ issuerCall[c].at = "idle" /\ issuerCalls < MaxIssuerCalls /\ issuerCalls' = issuerCalls + 1
    /\ issuerCall' = [issuerCall EXCEPT ![c] = call]
    /\ mingled' = IF \E d \in IssuerCalls : issuerCall[d].at # "idle"
                  THEN mingled \cup {"overlap"} ELSE mingled
    /\ UNCHANGED <<plan, issuer, types, issuing, used, issuerFailures>>

Answers(c) == issuerCall' = [issuerCall EXCEPT ![c] = NoIssuerCall]

-----------------------------------------------------------------------------
(* createBranch() and activateIssuer().                                    *)

AsksForIssuer(c, b, t) ==
    /\ Fits(b, plan)
    /\ Opens(c, [NoIssuerCall EXCEPT !.at = "creating", !.branch = {b}, !.type = {t}, !.plan = plan])

CreatesBranch(c, i) ==
    /\ issuerCall[c].at = "creating" /\ issuer[i].branch = {}
    /\ issuer' = [issuer EXCEPT ![i] = [branch |-> issuerCall[c].branch, active |-> TRUE]]
    /\ issuerCall' = [issuerCall EXCEPT ![c].at = "typing", ![c].issuer = {i}]
    /\ UNCHANGED <<plan, types, issuing, used, issuerCalls, issuerFailures, mingled>>

\* The types come after the issuer, outside a transaction.
CreatesTypes(c) ==
    /\ issuerCall[c].at = "typing" /\ Answers(c)
    /\ types' = [i \in IssuerRows |-> IF i \in issuerCall[c].issuer THEN types[i] \cup issuerCall[c].type
                                      ELSE types[i]]
    /\ UNCHANGED <<plan, issuer, issuing, used, issuerCalls, issuerFailures, mingled>>

AsksToActivate(c, i) ==
    /\ issuer[i].branch # {} /\ \A b \in issuer[i].branch : Fits(b, plan)
    /\ Opens(c, [NoIssuerCall EXCEPT !.at = "activating", !.issuer = {i}, !.plan = plan])

\* No row is found for one that is active already: the call is refused.
SetsActive(c, active) ==
    /\ issuer' = [i \in IssuerRows |-> IF i \in issuerCall[c].issuer
                                       THEN [issuer[i] EXCEPT !.active = active] ELSE issuer[i]]
    /\ Answers(c)
    /\ UNCHANGED <<plan, types, issuing, used, issuerCalls, issuerFailures>>

ActivatesIssuer(c) == issuerCall[c].at = "activating" /\ SetsActive(c, TRUE) /\ UNCHANGED mingled

-----------------------------------------------------------------------------
(* removeIssuer(), addDocumentType() and removeDocumentType().             *)

\* Mutant: the tenant's last issuer can be removed.
RemovesUnused(i) == i \in ActiveIssuers \ used

\* Not the last one, and no documents.
Removable(i) == i \in ActiveIssuers \ used /\ Cardinality(ActiveIssuers) > 1

AsksToRemove(c, i) ==
    /\ Removable(i)
    /\ Opens(c, [NoIssuerCall EXCEPT !.at = "removing", !.issuer = {i}])

RemovesIssuer(c) ==
    /\ issuerCall[c].at = "removing" /\ SetsActive(c, FALSE)
    /\ mingled' = IF issuerCall[c].issuer \cap issuing # {} THEN mingled \cup {"document"} ELSE mingled

AddsType(i, t) ==
    /\ i \in ActiveIssuers /\ t \notin types[i] /\ types' = [types EXCEPT ![i] = @ \cup {t}]
    /\ UNCHANGED <<plan, issuer, issuing, used, issuerCall, issuerCalls, issuerFailures, mingled>>

AsksToRemoveType(c, i, t) ==
    /\ i \in ActiveIssuers /\ t \in types[i] /\ Cardinality(types[i]) > 1
    /\ Opens(c, [NoIssuerCall EXCEPT !.at = "untyping", !.issuer = {i}, !.type = {t}])

RemovesType(c) ==
    /\ issuerCall[c].at = "untyping" /\ Answers(c)
    /\ types' = [i \in IssuerRows |-> IF i \in issuerCall[c].issuer THEN types[i] \ issuerCall[c].type
                                      ELSE types[i]]
    /\ UNCHANGED <<plan, issuer, issuing, used, issuerCalls, issuerFailures, mingled>>

-----------------------------------------------------------------------------
(* A statement fails, a document is created, the plan changes.             *)

IssuerCallFails(c) ==
    /\ issuerCall[c].at # "idle" /\ Answers(c)
    /\ issuerFailures < IssuerFailures /\ issuerFailures' = issuerFailures + 1
    /\ mingled' = mingled \cup {"failure"}
    /\ UNCHANGED <<plan, issuer, types, issuing, used, issuerCalls>>

\* The request reads the issuer, active, and its types, and does not look again.
AsksToIssue(i) ==
    /\ i \in ActiveIssuers \ (used \cup issuing) /\ types[i] # {} /\ issuing' = issuing \cup {i}
    /\ UNCHANGED <<plan, issuer, types, used, issuerCall, issuerCalls, issuerFailures, mingled>>

\* The document is committed.
IssuesDocument(i) ==
    /\ i \in issuing /\ issuing' = issuing \ {i} /\ used' = used \cup {i}
    /\ mingled' = IF \E c \in IssuerCalls : issuerCall[c].at = "removing" /\ i \in issuerCall[c].issuer
                  THEN mingled \cup {"document"} ELSE mingled
    /\ UNCHANGED <<plan, issuer, types, issuerCall, issuerCalls, issuerFailures>>

\* The creation is rolled back.
CreationFails(i) ==
    /\ i \in issuing /\ issuing' = issuing \ {i}
    /\ UNCHANGED <<plan, issuer, types, used, issuerCall, issuerCalls, issuerFailures, mingled>>

PlanChanges ==
    /\ plan' = 3 - plan
    /\ mingled' = IF plan = 2 THEN mingled \cup {"plan"} ELSE mingled
    /\ UNCHANGED <<issuer, types, issuing, used, issuerCall, issuerCalls, issuerFailures>>

-----------------------------------------------------------------------------
IssuerCallStep(c) ==
    \/ CreatesTypes(c) \/ ActivatesIssuer(c) \/ RemovesIssuer(c) \/ RemovesType(c) \/ IssuerCallFails(c)
    \/ \E b \in Branches, t \in DocTypes : AsksForIssuer(c, b, t)
    \/ \E i \in IssuerRows : \/ CreatesBranch(c, i) \/ AsksToActivate(c, i) \/ AsksToRemove(c, i)
                             \/ \E t \in DocTypes : AsksToRemoveType(c, i, t)

IssuersNext ==
    \/ \E c \in IssuerCalls : IssuerCallStep(c)
    \/ \E i \in IssuerRows : \/ AsksToIssue(i) \/ IssuesDocument(i) \/ CreationFails(i)
                             \/ \E t \in DocTypes : AddsType(i, t)
    \/ PlanChanges

IssuersSpec == IssuersInit /\ [][IssuersNext]_issuersVars

-----------------------------------------------------------------------------
(* Properties.                                                             *)

BeingCreated(i) == \E c \in IssuerCalls : issuerCall[c].at = "typing" /\ issuerCall[c].issuer = {i}

\* The tenant keeps an active issuer, an active issuer a document type, and an issuer
\* that has documents, or that one is being created for, stays active; unless two calls
\* overlapped, a creation stopped halfway, or a document was created while its issuer
\* was removed (issuer.service.js:43-59, 218-238).
LastOneStays ==
    mingled \cap {"overlap", "failure", "document"} = {} =>
        /\ ActiveIssuers # {}
        /\ \A i \in ActiveIssuers : types[i] # {} \/ BeingCreated(i)
        /\ issuing \cup used \subseteq ActiveIssuers

\* Creating, removing and activating issuers never brings a tenant above its plan's
\* branches and issue points, unless two calls overlapped or the plan became smaller
\* (issuer.service.js:92-112, 256-282).
WithinPlan ==
    mingled \cap {"overlap", "plan"} = {} =>
        /\ Cardinality(ActiveBranches) <= plan
        /\ \A b \in Branches : Cardinality(PointsOf(b)) <= plan
=============================================================================
