CONSTANTS
    b1 = b1
    b2 = b2
    PaidTiers = {1, 2}
    Callers = {b1, b2}
    Month = 2
    Year = 4
    ReminderDays = 1
    GraceDays = 1
    MaxSeats = 1
    LastDay = 3
    MaxCalls = 4
SPECIFICATION BillingSpec
SYMMETRY Symmetry
CHECK_DEADLOCK FALSE
INVARIANTS
    RenewalGrantsAccess
