SPECIFICATION Spec
CONSTANTS
    r1 = r1
    r2 = r2
    t1 = t1
    t2 = t2
    Refs <- TwoRefs
    Txns <- TwoTxns
    Packers = {p1}
    Readers = {q1}
    Target <- MCTarget
    Plans <- MCPlans
    Layouts <- MCLayouts
    Attempts = 3
    OptimizeAuto = FALSE
    Reuse = FALSE
    Faults <- FaultKinds
    MaxFaults = 1
    None = None
    Keep = Keep
    Any = Any
    Free = Free
    NoFile = NoFile
INVARIANTS
    ReadsCurrent
    ReflogNamesValue
    DeletedStaysDeleted
PROPERTIES
    ImplementsRefStore
    TransactionsEnd
    LiveCommitsReferenced
CHECK_DEADLOCK FALSE
