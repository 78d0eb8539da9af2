SPECIFICATION Spec
CONSTANTS
    MaxLen = 6
    Inputs <- AllInputs
    BufSize = 5
INVARIANTS
    HeldBack
    Lossless
    CodePointsWhole
