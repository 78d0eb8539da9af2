SPECIFICATION Spec
CONSTANTS
    a = a
    b = b
    c = c
    Procs <- AllProcs
    Children = {}
    NoProc = NoProc
    MaxLocks = 3
    PidEnabled = FALSE
    Faults = {"window"}
INVARIANTS
    OneWriter
