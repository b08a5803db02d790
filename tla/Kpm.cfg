CONSTANTS
    SL_INDEX_COUNT_LOG2 = 2
    FL_INDEX_MAX = 9
    PoolBytes = 208
    Sizes = {0, 1, 40, 72, 600}
    Aligns = {16, 32}
    Functions0 <- MCFunctions
    RELO = 100
    Funcs = {f}
    Pointers = {p}
    b1 = b1
    b2 = b2
    Callbacks <- MCCallbacks
    SlotNum = 2
    HOOK_CHAIN_NUM = 2
    MaxCalls = 1
    Dids = {d1, d2}
    StoreReaders = {r1}
    Elements = 3
    ObjectFiles <- MCObjectFiles
    Exported <- MCExported
    Places = {65552, 1048576}
    page_size = 4096
    SYM_SIZE = 24
    MaxLoaded = 2
SYMMETRY MCSymmetry
SPECIFICATION Spec
\* A function that was refused, or has run, stays so.
CHECK_DEADLOCK FALSE
INVARIANTS
    HeapAlwaysIntact
    RelocatedFaithful
    HookTextExact
    
    ModulesLinked
PROPERTIES
    MirrorCalls
