SPECIFICATION Spec
CONSTANTS
    MaxTimeout = 40
    MaxWaited = 100
    Timeouts <- MCTimeouts
    MaxMult = 18
    Initial = 1
INVARIANTS
    TimeoutNotEarly
    QuadraticBackoff
    OverrunBounded
PROPERTIES
    TimeoutReturns
