---------------------------- MODULE MCOnboarding ----------------------------
(***************************************************************************)
(* A tenant's account with its keys, and the documents it creates in the   *)
(* sandbox, where no quota row makes the requests wait for one another.    *)
(* The two share no state, and in every behaviour one of them moves.       *)
(***************************************************************************)
EXTENDS Accounts, DocumentCreation, TLC

CONSTANTS k1, k2, k3, x1, x2, x3, x4, x5, x6, x7, c1, c2, i1, i2, idem, body1, body2, p1

VARIABLE part   \* the module that moves

MCIssuerOf == [c \in Counters |-> IF c = c1 THEN i1 ELSE i2]

OnboardingInit ==
    /\ part \in {"account", "documents"}
    /\ AccountsInit /\ Init
    /\ part = "account" =>
          \A r \in Requests : want[r] = [counter |-> c1, key |-> NoKey, body |-> body1]

OnboardingNext ==
    /\ UNCHANGED part
    /\ \/ part = "account" /\ AccountsNext /\ UNCHANGED vars
       \/ part = "documents" /\ Next /\ UNCHANGED accountsVars

OnboardingSpec == OnboardingInit /\ [][OnboardingNext]_<<part, accountsVars, vars>>

\* The requests have the API keys' names: one permutation serves both modules.
Symmetry == Permutations(ApiKeys) \cup Permutations(Bodies)
=============================================================================
