SPECIFICATION Spec
CONSTANTS
    r1 = r1
    r2 = r2
    t1 = t1
    t2 = t2
    p1 = p1
    p2 = p2
    q1 = q1
    Refs <- TwoRefs
    Txns <- TwoTxns
    AutoCompacting = {t1}
    Optimizers = {p1, p2}
    AutoOptimizing = {p2}
    Readers = {q1}
    Bases <- MCBases
    Plans <- MCPlans
    Attempts = 1
    Faults <- FaultKinds
    MaxFaults = 1
    Crowds <- MCCrowds
    None = None
    Keep = Keep
    Any = Any
    Absent = Absent
    Free = Free
    NoTable = NoTable
INVARIANTS
    ListSound
    SnapshotReads
PROPERTIES
    ImplementsRefStore
    OperationsEnd
CHECK_DEADLOCK FALSE
