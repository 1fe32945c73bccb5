SPECIFICATION Spec
CONSTANTS
    w1 = w1
    w2 = w2
    r1 = r1
    r2 = r2
    d1 = d1
    d2 = d2
    v1 = v1
    v2 = v2
    n1 = n1
    n2 = n2
    n3 = n3
    n4 = n4
    Thread = {w1, w2}
    Calls <- MCCallsTwo
    Keys <- MCKeysAll
    Did = {d1, d2}
    Data = {v1}
    Node = {n1, n2, n3, n4}
    HEAD = head
    POISON = poison
    NULL = null
    MaxCalls = 3
PROPERTIES
    RemovedIsGone
CHECK_DEADLOCK FALSE
