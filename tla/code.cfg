SPECIFICATION CSpec
CONSTANTS
    Functions <- MCFunctions
    ORIGIN <- MCOrigin
    RELO <- MCRelo
    REPLACE <- MCReplace
    RELOCATE_INST_NUM = 36
    Jobs <- MCJobs
    ERANGE = 34
    Requests <- MCRequests
    Images <- MCImages
    KernelSymbols = {"known"}
    PageSize = 32
    SymSize = 24
    MaxLoads = 2
INVARIANTS
    BackupIsOriginal
    
    
    
    ModuleIsWhole
CHECK_DEADLOCK FALSE
