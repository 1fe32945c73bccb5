SPECIFICATION Spec
CONSTANTS
    MAX_HW_BREAKPOINTS = 2
    Event = {e1, e2}
    t1 = t1
    t2 = t2
    Thread = {t1}
    Code <- MCCode
    Data <- MCData
    Succ <- LoopSucc
    Access <- LoopAccess
    Kernels <- OneKernel
    Refused = {}
    Request <- DataRequests
    Gone = gone
    NULL = null
    MaxCalls = 2
    MaxInstr = 4
INVARIANTS
    DataBreakpointStaysData
CHECK_DEADLOCK FALSE
