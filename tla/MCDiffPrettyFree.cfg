SPECIFICATION Spec
CONSTANTS
    Jobs <- MCDieJobs
    PipeCap = 2
INVARIANTS
    SessionOutlivesCapture
