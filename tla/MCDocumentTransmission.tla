----------------------- MODULE MCDocumentTransmission -----------------------
\* Instances of DocumentTransmission for TLC.
EXTENDS DocumentTransmission, TLC

CONSTANTS d1, send1, send2, check1, check2, check3, w1, w2, r1, r2

MCDocOf  == [e \in Effects |-> d1]
MCKeyOf  == [e \in Polling |-> MCDocOf[e]]
Symmetry == Permutations(Sends) \cup Permutations(Polling)
            \cup Permutations(Workers) \cup Permutations(Requests)
=============================================================================
