CONSTANTS
    poll1 = poll1
    poll2 = poll2
    doc1 = doc1
    w1 = w1
    w2 = w2
    s1 = s1
    s2 = s2
    Effects = {poll1, poll2}
    Polling = {poll1, poll2}
    KeyOf <- MCKeyOf
    Workers = {w1, w2}
    Sweeps = {s1, s2}
    MaxAttempts = 2
    BatchLimit = 1
    MaxInFlight = 1
    MaxQueued = 2
    MaxFailures = 3
    MaxCrashes = 1
    MaxRetries = 1
SPECIFICATION OutboxSpec
SYMMETRY Symmetry
INVARIANTS
    TypeOK
    CompletedNotRerun
    FailuresCounted
    OneHandlerPerKey
PROPERTIES
    KeepsPromise
    ImplementsRuns
CHECK_DEADLOCK FALSE
