SPECIFICATION KernelSpec
CONSTANTS
    x1 = x1
    x2 = x2
    x3 = x3
    m1 = m1
    m2 = m2
    CHAIN_SLOTS = 2
    Callback = {x1, x2, x3}
    HasBefore <- MCHasBefore
    HasAfter <- MCHasAfter
    Process = {p1}
    Serialized = TRUE
    NONE = none
    MaxEdits = 6
    MaxEnters = 2
    MemNum = 2
    Func = {f1, f2, f3}
    Pointer = {fp}
    Unrelocatable = {f3}
    Item = {x1, x2, x3}
    Module = {m1, m2}
    Owner <- MCOwner
    HOOK_CHAIN_NUM = 2
    FP_HOOK_CHAIN_NUM = 3
    Use = {}
    NULL = null
    MaxOps = 9
    Thread = {t1, t2}
    Calls <- MCCalls
    Names <- MCNames
    Ctl = {a, b}
    Name = {a, b, c}
    Mod = {m1, m2}
    Buf = {b1, b2}
    HEAD = head
    POISON = poison
    NIL = nil
    MaxKpmCalls = 4
    ListNode = {n1, n2, n3, n4}
    Readers = {r1}
    ListCalls = 2
    Page = 4
    Align = 2
    Kernels <- MCKernels
    Kpimg <- MCKpimg
    Tcp = 4
    InsnsPer16 = 2
    MapMax = 2
    Paging = 8
    Paths <- MCPaths
    Args = {0, 1, 3}
    Keys = {"k1", "k2"}
    MaxRuns = 3
    MapStart = 2
    MapEnd = 4
    KpStart = 4
    StartSize = 8
    MemTop = 64
    PageSizes = {4, 8}
    HookSize = 8
    RwSize = 8
    RoxSize = 8
    PxdBits = 2
    Levels = 3
    PhysPages = 20
    KernelTables <- MCTables
    Pgd = 16
    VOffset = 32
    TextVa = 32
    Parts <- MCParts
    WithVmalloc = {TRUE, FALSE}
    CONT_PTES = 2
    MaxWrites = 2
    SKernels <- MCSKernels
    HI = 999
    FLAG = 1158
    STACK_END_MAGIC = 5791
    Swapper = 7377
    ThreadSizes <- MCThreadSizes
    THREAD_INFO_MAX_SIZE = 12
    TASK_STRUCT_MAX_SIZE = 34
    CRED_MAX_SIZE = 40
    MM_STRUCT_MAX_SIZE = 12
    page_size = 8
    Images <- MCImages
    T = 8
    Ch0 = 2
    Digits = 2
    ChA = 5
    Letters = 2
    KSYM_MIN_NEQ_SYMS = 6
    KSYM_MIN_MARKER = 2
    KSYM_FIND_NAMES_USED_MARKER = 3
    KSYM_SYMBOL_LEN = 8
    NSYMS_MAX_GAP = 4
    MAX_ZERO_OFFSET_NUM = 3
    ARM64_RELO_MIN_NUM = 4
    PerMarker = 2
    Wide = 3
    FirstNames = 4
    FirstMarkers = 8
    Window = 12
    FirstAddress = 4
    KernelAlign = 4
    VectorAlign = 4
    VectorSize = 4
    Hi = 999
    Unit = 1000
    MinVa = 999008
    linux_banner <- MCBanner
    pid_vnr <- MCPidVnr
    vectors <- MCVectors
    NameIn <- MCNameIn
    Dots = {9}
    Cfi <- MCCfi
    Jobs <- MCJobs
    Superkeys <- MCSuperkeys
    RootKey <- MCRootKey
    Random <- MCRandom
    KEY_LEN = 5
    Hash <- MCHash
    Junk <- MCJunk
    Size <- MCSize
INVARIANTS
    TransitsRunTheChain
    ClaimedItemsRunOnce
    CodeMatchesTable
    LastUnwrapRestores
    
    ListHoldsModulesUp
    ListsKeepTheirNodes
    
    BothStartWhole
    TablesStayTrue
    FieldsAreFound
    
    
PROPERTIES
    FreedAfterExit
VIEW KernelView
CHECK_DEADLOCK FALSE
