CONSTANTS
    doc1 = doc1
    send1 = send1
    send2 = send2
    check1 = check1
    check2 = check2
    check3 = check3
    w1 = w1
    s1 = s1
    r1 = r1
    a1 = a1
    c1 = c1
    c2 = c2
    j1 = j1
SPECIFICATION ProgressSpec
CHECK_DEADLOCK FALSE
PROPERTIES
    EveryEffectSettles
    DocumentsMoveOn
    CapturedIsCredited
