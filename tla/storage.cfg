SPECIFICATION FairSpec
CONSTANTS
    w1 = w1
    w2 = w2
    r1 = r1
    r2 = r2
    d1 = d1
    d2 = d2
    v1 = v1
    v2 = v2
    n1 = n1
    n2 = n2
    n3 = n3
    n4 = n4
    Thread = {w1, w2, r1}
    Calls <- MCCalls
    Keys <- MCKeysOwn
    Did = {d1, d2}
    Data = {v1, v2}
    Node = {n1, n2, n3}
    HEAD = head
    POISON = poison
    NULL = null
    MaxCalls = 4
INVARIANTS
    ElementsAreKept
PROPERTIES
    IsAMap
    RemovedIsGone
    CallsAndReclaimEnd
CHECK_DEADLOCK FALSE
