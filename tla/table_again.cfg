SPECIFICATION Spec
CONSTANTS
    MemNum = 2
    f1 = f1
    f2 = f2
    f3 = f3
    fp = fp
    x1 = x1
    x2 = x2
    x3 = x3
    m1 = m1
    m2 = m2
    Func = {f1}
    Pointer = {fp}
    Unrelocatable = {}
    Item = {x1, x2, x3}
    Module = {m1, m2}
    Owner <- MCOwner
    HOOK_CHAIN_NUM = 2
    FP_HOOK_CHAIN_NUM = 3
    Use = {"wrap_again"}
    NULL = null
    MaxOps = 6
INVARIANTS
    OnlyClaimedItemsRun
CHECK_DEADLOCK FALSE
