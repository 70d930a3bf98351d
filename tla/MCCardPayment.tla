--------------------------- MODULE MCCardPayment ---------------------------
\* Instances of CardPayment for TLC.
EXTENDS CardPayment, TLC

CONSTANTS a1, a2, c1, c2, j1, j2

Symmetry == Permutations(Attempts) \cup Permutations(Confirms) \cup Permutations(Jobs)
=============================================================================
