---------------------------- MODULE Agreements ----------------------------
(***************************************************************************)
(* The versions of the legal documents, and the copies of them that one    *)
(* tenant has and accepts.                                                 *)
(*                                                                         *)
(* Nothing locks: a call reads what is current, and writes later.  The     *)
(* text of a document is its version.  PRIVACY is handled like the DPA,    *)
(* and AGREEMENTS_ENABLED is on.                                           *)
(***************************************************************************)
EXTENDS Naturals, FiniteSets, SequencesExt

CONSTANTS
    Versions,     \* rows of agreements that may be published
    Generations,  \* getStatus(), renderForTenant() and TENANT_AGREEMENT_GENERATE
    Acceptances   \* acceptAgreements() calls

VARIABLES
    version,      \* agreements: type and is_current
    copies,       \* tenant_agreements, by generated_at: versions
    accepted,     \* the copies that are ACCEPTED
    generation,   \* what each generation is doing
    acceptance,   \* what each acceptance is doing
    stamp,        \* tenants.agreement_version
    named,        \* history: versions of the terms that acceptances named
    overlapped    \* history: an activation during an acceptance, during a generation, or
                  \* of a version older than the tenant's copies

agreementsVars == <<version, copies, accepted, generation, acceptance, stamp, named, overlapped>>

AgreementTypes == {"TERMS", "DPA"}

AgreementsTypeOK ==
    /\ version \in [Versions -> [type : AgreementTypes \cup {"none"}, current : BOOLEAN]]
    /\ copies \in Seq(Versions) /\ IsInjective(copies) /\ accepted \subseteq ToSet(copies)
    /\ generation \in [Generations -> [at : {"idle", "listed", "done"}, todo : SUBSET AgreementTypes,
                                       found : SUBSET Versions]]
    /\ acceptance \in [Acceptances -> [at : {"idle", "validated", "accepted", "done"},
                                       terms : SUBSET Versions]]
    /\ stamp \subseteq Versions /\ named \subseteq Versions
    /\ overlapped \subseteq {"acceptance", "generation", "rollback"}

AgreementsInit ==
    /\ version = [v \in Versions |-> [type |-> "none", current |-> FALSE]]
    /\ copies = <<>> /\ accepted = {} /\ stamp = {} /\ named = {} /\ overlapped = {}
    /\ generation = [g \in Generations |-> [at |-> "idle", todo |-> {}, found |-> {}]]
    /\ acceptance = [c \in Acceptances |-> [at |-> "idle", terms |-> {}]]

Current(type) == {v \in Versions : version[v].type = type /\ version[v].current}

\* findLatestByTenantAndType(): the copy generated last, of whatever version.
LatestCopy(type) ==
    LET generated == {i \in DOMAIN copies : version[copies[i]].type = type}
    IN  {copies[i] : i \in {k \in generated : \A l \in generated : l <= k}}

\* getStatus() and the gate of promote(): the latest copy is of the current version, and accepted.
Outdated(type) == Current(type) # {} /\ ~(LatestCopy(type) = Current(type)
                                          /\ LatestCopy(type) \subseteq accepted)

-----------------------------------------------------------------------------
(* The administrator: publish(), in two statements, and activateVersion(). *)

CreatesVersion(v, type) ==
    /\ version[v].type = "none"
    /\ version' = [version EXCEPT ![v].type = type]
    /\ UNCHANGED <<copies, accepted, generation, acceptance, stamp, named, overlapped>>

\* One transaction takes the flag from the version that has it.
ActivatesVersion(v) ==
    /\ version[v].type # "none" /\ ~version[v].current
    /\ version' = [w \in Versions |-> IF version[w].type = version[v].type
                                      THEN [version[w] EXCEPT !.current = (w = v)] ELSE version[w]]
    /\ overlapped' = overlapped
         \cup (IF \E c \in Acceptances : acceptance[c].at = "validated" THEN {"acceptance"} ELSE {})
         \cup (IF \E g \in Generations : generation[g].found # {} THEN {"generation"} ELSE {})
         \cup (IF v \in ToSet(copies) THEN {"rollback"} ELSE {})
    /\ UNCHANGED <<copies, accepted, generation, acceptance, stamp, named>>

-----------------------------------------------------------------------------
(* generateForTenant().                                                    *)

ListsCurrent(g) ==
    /\ generation[g].at = "idle"
    /\ generation' = [generation EXCEPT ![g].at = "listed",
                                        ![g].todo = {ty \in AgreementTypes : Current(ty) # {}}]
    /\ UNCHANGED <<version, copies, accepted, acceptance, stamp, named, overlapped>>

ReadsCurrent(g, type) ==
    /\ generation[g].found = {} /\ type \in generation[g].todo
    /\ generation' = [generation EXCEPT ![g].found = Current(type), ![g].todo = @ \ {type}]
    /\ UNCHANGED <<version, copies, accepted, acceptance, stamp, named, overlapped>>

\* Mutant: without the conflict target.
CopiesAgain(g, v) ==
    /\ generation[g].found = {v}
    /\ copies' = Append(copies, v)
    /\ generation' = [generation EXCEPT ![g].found = {}]
    /\ UNCHANGED <<version, accepted, acceptance, stamp, named, overlapped>>

\* ON CONFLICT DO NOTHING: a version is copied once.
CreatesCopy(g, v) ==
    /\ generation[g].found = {v}
    /\ copies' = IF v \in ToSet(copies) THEN copies ELSE Append(copies, v)
    /\ generation' = [generation EXCEPT ![g].found = {}]
    /\ UNCHANGED <<version, accepted, acceptance, stamp, named, overlapped>>

\* It has done every type, or its process ends.
GenerationEnds(g) ==
    /\ generation[g].at = "listed"
    /\ generation' = [generation EXCEPT ![g] = [at |-> "done", todo |-> {}, found |-> {}]]
    /\ UNCHANGED <<version, copies, accepted, acceptance, stamp, named, overlapped>>

-----------------------------------------------------------------------------
(* acceptAgreements().                                                     *)

\* termsVersion must be the current one; nothing is asked when no terms are published.
ValidatesTerms(c) ==
    /\ acceptance[c].at = "idle"
    /\ acceptance' = [acceptance EXCEPT ![c] = [at |-> "validated", terms |-> Current("TERMS")]]
    /\ named' = named \cup Current("TERMS")
    /\ UNCHANGED <<version, copies, accepted, generation, stamp, overlapped>>

\* Mutant: every copy of the tenant's, of whatever version.
AcceptsEvery(c) ==
    /\ acceptance[c].at = "validated" /\ acceptance' = [acceptance EXCEPT ![c].at = "accepted"]
    /\ accepted' = ToSet(copies)
    /\ UNCHANGED <<version, copies, generation, stamp, named, overlapped>>

\* The copies whose version is current now.
AcceptsAll(c) ==
    /\ acceptance[c].at = "validated" /\ acceptance' = [acceptance EXCEPT ![c].at = "accepted"]
    /\ accepted' = accepted \cup {v \in ToSet(copies) : version[v].current}
    /\ UNCHANGED <<version, copies, generation, stamp, named, overlapped>>

\* The version that was named is stamped; or the process ends before.
StampsTenant(c) ==
    /\ acceptance[c].at = "accepted" /\ acceptance' = [acceptance EXCEPT ![c].at = "done"]
    /\ stamp' \in {stamp, acceptance[c].terms}
    /\ UNCHANGED <<version, copies, accepted, generation, named, overlapped>>

-----------------------------------------------------------------------------
AgreementsNext ==
    \/ \E v \in Versions : \/ ActivatesVersion(v)
                           \/ \E type \in AgreementTypes : CreatesVersion(v, type)
    \/ \E g \in Generations : \/ ListsCurrent(g) \/ GenerationEnds(g)
                              \/ \E type \in AgreementTypes : ReadsCurrent(g, type)
                              \/ \E v \in Versions : CreatesCopy(g, v)
    \/ \E c \in Acceptances : ValidatesTerms(c) \/ AcceptsAll(c) \/ StampsTenant(c)

AgreementsSpec == AgreementsInit /\ [][AgreementsNext]_agreementsVars

-----------------------------------------------------------------------------
(* Properties.                                                             *)

\* A copy of the terms is ACCEPTED only if an acceptance named its version, unless
\* another version was activated between the check of that name and the acceptance
\* (tenant-agreement.model.js:45-67, tenant.service.js:45-49).
TermsAsNamed ==
    "acceptance" \notin overlapped =>
        \A v \in accepted : version[v].type = "TERMS" => v \in named

\* When the tenant has accepted the current version of a document, the document is not
\* reported as outdated, and does not keep it from production; unless an older version
\* was activated again, or one was activated while a generation that had read another
\* was about to write (tenant-agreement.service.js:87-104).
AcceptedIsUpToDate ==
    overlapped \cap {"generation", "rollback"} = {} =>
        \A type \in AgreementTypes : Current(type) \subseteq accepted => ~Outdated(type)

\* Of its legal documents, a tenant accepts what was named to it, and what it accepted
\* is not asked for again, within the bounds each part states.
AgreementsHold == TermsAsNamed /\ AcceptedIsUpToDate
=============================================================================
