SPECIFICATION Spec
CONSTANTS
    t0 = t0
    t1 = t1
    Tasks = {t0, t1}
    init_task = t0
    Uids <- MCUids
    Contexts <- MCContexts
    BadContexts <- MCBadContexts
    Threads = TRUE
    MaxCalls = 3
    Observed = "copy_process"
    ArgsNo = 7
    Key = "skey"
    Commands <- MCCommands
    Numbers <- MCNumbers
    Shared32 <- MCShared32
    Unnamed64 <- MCUnnamed
    Unnamed32 <- MCUnnamed
    narg <- MCnarg
    Callbacks <- MCCallbacks
    Hidden32 = FALSE
    Procs <- MCProcs
    Program <- MCProgram
    Wrappers = {TRUE, FALSE}
INVARIANTS
    
    
    
    BootHooksDoTheirWork
VIEW MCView
CHECK_DEADLOCK FALSE
