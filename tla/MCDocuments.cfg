CONSTANTS
    c1 = c1
    c2 = c2
    first = first
    IssuerRows = {first, j1, j2}
    Branches = {c1, c2}
    DocTypes = {c1, c2}
    IssuerCalls = {f1, f2}
    MaxIssuerCalls = 2
    IssuerFailures = 1
    Endpoints = {e1, e2, e3}
    EndpointCalls = {j1, j2}
    MaxEndpointCalls = 4
    MaxReserved = 1
    Hooks = {w1}
    Fanouts = {f1, f2}
    RetryJobs = {j1, j2}
    RetryDelays = 2
    HookFailures = 1
    Handlings = {f1, f2}
    Retries = {w1}
    Sweeps = {w1}
    MaxMails = 2
    MaxReports = 1
    MailFailures = 1
    Notifications = {f1, f2}
    MailAttempts = 2
    DispatchCrashes = 2
    LinkCalls = {j1, j2}
    LinkAttempts = 2
    LinkReporting = 2
    LinkFailures = 1
    e1 = e1
    e2 = e2
    e3 = e3
    f1 = f1
    f2 = f2
    j1 = j1
    j2 = j2
    w1 = w1
SPECIFICATION DocumentsSpec
SYMMETRY Symmetry
CHECK_DEADLOCK FALSE
INVARIANTS
    DocumentsTypeOK
    HeldWithinPlan
    DeliveriesAreKept
    MailedOnce
    MailStatusIsTrue
