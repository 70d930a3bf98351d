CONSTANTS
    a1 = a1
    a2 = a2
    c1 = c1
    c2 = c2
    j1 = j1
    j2 = j2
    Attempts = {a1, a2}
    Confirms = {c1, c2}
    Jobs = {j1}
    MaxPending = 2
    MaxFailures = 2
SPECIFICATION Spec
SYMMETRY Symmetry
INVARIANTS
    TypeOK
    MoneyIsTracked
    CreditIsBacked
PROPERTIES
    OutcomeKept
CHECK_DEADLOCK FALSE
