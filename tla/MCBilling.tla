----------------------------- MODULE MCBilling -----------------------------
\* An instance of Billing for TLC.
EXTENDS Billing, TLC

CONSTANTS b1, b2

Symmetry == Permutations(Callers)
=============================================================================
