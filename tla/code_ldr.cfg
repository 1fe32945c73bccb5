SPECIFICATION CSpec
CONSTANTS
    Functions <- MCLiterals
    ORIGIN <- MCOrigin
    RELO <- MCRelo
    REPLACE <- MCReplace
    RELOCATE_INST_NUM = 36
    Jobs = {}
    ERANGE = 34
    Requests = {}
    Images = {}
    KernelSymbols = {"known"}
    PageSize = 32
    SymSize = 24
    MaxLoads = 2
INVARIANTS
    BackupIsOriginal
CHECK_DEADLOCK FALSE
