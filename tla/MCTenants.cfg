CONSTANTS
    k1 = k1
    k2 = k2
    k3 = k3
    x1 = x1
    b1 = b1
    b2 = b2
    plan1 = plan1
    seat1 = seat1
    d1 = d1
    d2 = d2
    d3 = d3
    d4 = d4
    Versions = {k1, k2, k3}
    Generations = {b1, b2}
    Acceptances = {x1}
    Recordings = {k1, k2, k3}
    Threshold = 2
    MaxAttempts = 4
    LastWindow = 2
    RecordingFailures = 1
    PaidTiers = {1, 2}
    Callers = {b1, b2}
    Month = 2
    Year = 4
    ReminderDays = 1
    GraceDays = 1
    MaxSeats = 1
    LastDay = 3
    MaxCalls = 4
    PriceRows = {plan1, seat1, b1, b2}
    Announcers = {b1, b2}
    NoticeDays = 2
    LastPriceDay = 2
    PriceFailures = 1
    Invoices = {d1, d2, d3, d4}
    MaxListed = 2
    NoticeFailures = 1
    CertJobs = {b1, b2}
    Alerts = {d1, d2, d3}
    CertFailures = 1
SPECIFICATION TenantsSpec
SYMMETRY Symmetry
CHECK_DEADLOCK FALSE
INVARIANTS
    TenantsTypeOK
    AlertedOnce
    AgreementsHold
    AccessMatchesSubscription
    OneAtATime
    ExpiresOnlyUnpaid
    NoticesTellState
PROPERTIES
    PriceIsSettled
