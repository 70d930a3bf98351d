CONSTANTS
    d1 = d1
    send1 = send1
    send2 = send2
    check1 = check1
    check2 = check2
    check3 = check3
    w1 = w1
    w2 = w2
    r1 = r1
    r2 = r2
    Docs = {d1}
    Sends = {send1, send2}
    Polling = {check1, check2}
    Effects = {send1, send2, check1, check2}
    KeyOf <- MCKeyOf
    DocOf <- MCDocOf
    Workers = {w1, w2}
    Requests = {r1, r2}
    MaxXml = 2
    MaxDisturbances = 1
SPECIFICATION Spec
SYMMETRY Symmetry
INVARIANTS
    TypeOK
    StatusIsTheSris
    PendingHasSend
    ReceivedHasCheck
    AuthorizedIsAnnounced
CHECK_DEADLOCK FALSE
