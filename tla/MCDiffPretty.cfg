SPECIFICATION Spec
CONSTANTS
    Jobs <- MCJobs
    PipeCap = 2
INVARIANTS
    TypeOK
    FfiExclusive
    RenderedInOrder
    PagedComplete
    SessionReleased
    FailureReported
    KilledOnlyAfterReaderStopped
PROPERTIES
    QuitDropsDiff
    Terminates
