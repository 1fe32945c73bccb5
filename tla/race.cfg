SPECIFICATION FairSpec
CONSTANTS
    MAX_HW_BREAKPOINTS = 2
    Event = {e1, e2}
    c1 = c1
    c2 = c2
    Caller = {c1, c2}
    Kernels <- MCKernels
    NULL = null
    MaxCalls <- MCMaxCalls

    
PROPERTIES
    CallsReturn
CHECK_DEADLOCK FALSE
