SPECIFICATION Spec
CONSTANTS
    N = 15
    Threads = 3
    Window = 1
    Hashes <- MCHashes
    Modes = {"objects", "regions"}
INVARIANTS
    EachOnce
    CompleteWhenDone
PROPERTIES
    SearchEnds
CHECK_DEADLOCK FALSE
