SPECIFICATION Spec
CONSTANTS
    r1 = r1
    r2 = r2
    t1 = t1
    t2 = t2
    Refs <- TwoRefs
    Txns <- TwoTxns
    Packers = {p1}
    Readers = {}
    Layouts <- MCLayouts
    Target <- MCTarget
    Plans <- MCPlans
    Attempts = 3
    OptimizeAuto = TRUE
    Reuse = FALSE
    Faults = {}
    MaxFaults = 0
    None = None
    Keep = Keep
    Any = Any
    Free = Free
    NoFile = NoFile
INVARIANTS
    DeletedStaysDeleted
CHECK_DEADLOCK FALSE
