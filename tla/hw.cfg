SPECIFICATION FairSpec
CONSTANTS
    MAX_HW_BREAKPOINTS = 2
    Event = {e1, e2}
    t1 = t1
    t2 = t2
    Thread = {t1, t2}
    Code <- MCCode
    Data <- MCData
    Succ <- LoopSucc
    Access <- LoopAccess
    Kernels <- AllKernels
    Refused = {3, 9}
    Request <- TaskRequests
    Gone = gone
    NULL = null
    MaxCalls = 3
    MaxInstr = 4
INVARIANTS
    TypeOK
    SlotsOwnEvents
    FlagMatchesHardware
    EachRunCountedOnce

    
CHECK_DEADLOCK FALSE
