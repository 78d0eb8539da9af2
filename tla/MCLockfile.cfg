SPECIFICATION Spec
CONSTANTS
    a = a
    b = b
    c = c
    Procs <- AllProcs
    Children <- Child
    NoProc = NoProc
    MaxLocks = 2
    PidEnabled = TRUE
    Faults <- AllButWindows
INVARIANTS
    TypeOK
    MutualExclusion
    FileWhole
    NoStaleLock
    PidFileNamesHolder
PROPERTIES
    AtomicUpdates
    LockReleased
