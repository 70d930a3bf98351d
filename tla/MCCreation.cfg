CONSTANTS
    r1 = r1
    r2 = r2
    c1 = c1
    c2 = c2
    i1 = i1
    k1 = k1
    body1 = body1
    p1 = p1
    p2 = p2
    p3 = p3
    x1 = x1
    j1 = j1
    j2 = j2
    NoKey = NoKey
    Requests = {r1, r2}
    Counters = {c1, c2}
    InitialTypes = {c1}
    IssuerOf <- MCIssuerOf
    Keys = {k1}
    Bodies = {body1}
    Sandbox = FALSE
    Cap = 1
    Periods = {p1, p2, p3}
    Promotions = {x1}
    Jobs = {j1, j2}
    Starts = {1}
    Edits = {2}
    MaxCycle = 1
SPECIFICATION MCSpec
INVARIANTS
    TypeOK
    QuotaIsExact
    OneCurrentPeriod
    NoNumberLost
PROPERTIES
    CreationsEnd
CHECK_DEADLOCK FALSE
