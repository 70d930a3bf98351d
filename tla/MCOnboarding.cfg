CONSTANTS
    k1 = k1
    k2 = k2
    k3 = k3
    x1 = x1
    x2 = x2
    x3 = x3
    x4 = x4
    x5 = x5
    x6 = x6
    x7 = x7
    c1 = c1
    c2 = c2
    i1 = i1
    i2 = i2
    idem = idem
    NoKey = NoKey
    body1 = body1
    body2 = body2
    p1 = p1
    ApiKeys = {k1, k2, k3}
    Recoveries = {x1, x7}
    Resends = {x2}
    Clicks = {x3}
    PromoteCalls = {x4}
    Mints = {x5}
    Revocations = {x6}
    MaxRequests = 3
    AccountFailures = 1
    Requests = {k1, k2, k3}
    Counters = {c1, c2}
    InitialTypes = {c1}
    IssuerOf <- MCIssuerOf
    Keys = {idem}
    Bodies = {body1, body2}
    Sandbox = TRUE
    Cap = 1
    Periods = {p1}
    Promotions = {}
    Jobs = {}
    Starts = {1}
    Edits = {3}
    MaxCycle = 0
SPECIFICATION OnboardingSpec
SYMMETRY Symmetry
INVARIANTS
    NumbersUsedOnce
    KeyCreatesOne
    NotLockedOut
    RecoveryIsVerified
CHECK_DEADLOCK FALSE
