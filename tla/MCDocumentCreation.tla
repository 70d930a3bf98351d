------------------------- MODULE MCDocumentCreation -------------------------
\* An instance of DocumentCreation for TLC, in production; the sandbox is in MCOnboarding.
EXTENDS DocumentCreation, TLC

CONSTANTS r1, r2, c1, c2, i1, k1, body1, p1, p2, p3, x1, j1, j2

MCIssuerOf == [c \in Counters |-> i1]

\* Two requests without a key on one counter, or with the same key on two.
MCInit ==
    /\ Init
    /\ want[r1].counter = c1 /\ want[r1].key = want[r2].key
    /\ want[r2].counter = c2 <=> want[r2].key = k1

MCSpec == MCInit /\ [][Next]_vars /\ Fairness
=============================================================================
