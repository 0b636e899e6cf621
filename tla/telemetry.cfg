SPECIFICATION Spec

CONSTANTS
    Series <- MCSeries
    Rows <- MCRows
    Processes <- MCProcesses
    ScrapedAt = 9
    MaxAge = 2
    MaxUint32 = 1000
    MaxLines = 7

INVARIANTS
    PageInv
    KnownIsMeasured
    NothingHidden
    JudgeableIsFresh
    NoProcessMeansNone

\* A collection ends.
CHECK_DEADLOCK FALSE
