SPECIFICATION MCSpec
CONSTANTS
    MAX_FILTERS = 2
    p1 = p1
    p2 = p2
    f1 = f1
    f2 = f2
    Process = {p1, p2}
    Filter = {f1, f2}
    Matches <- MCMatches
    Caller = {c1}
    Command <- Commands
    NULL = null
    MaxCommands = 6
    MaxCalls = 3
    Walkers = {w1}
    Vmas <- MCVmas
    Frames = {0, 8, 12, 14, 24}
    Places = {2, 8}
    Ips = {6, 8, 10, 12, 13, 20}
    FrameLow = 3
    FrameHigh = 20
    MAX_STACK_DEPTH = 4
    MaxFrames = 3
    MaxBack = 2
    MemReaders = {r1, r2}
    Procs = {q1, q2}
    Sizes = {1, 256}
    HexRoom = 1024
    MemSteps = 2
    TraceKernels <- MCTraceKernels
    Lines <- MCLines
    Pids = {7}
    BpSlots = 2
INVARIANTS
    
    ResetTakesEffect
    WalksAndReadsAreTrue
    TracerDoesAsTold
CHECK_DEADLOCK FALSE
