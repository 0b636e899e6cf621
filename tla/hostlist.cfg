SPECIFICATION ScanSpec

CONSTANTS
    Ranges <- MCRanges
    Cap = 4
    MaxInt = 7
    MaxTokens = 10

INVARIANTS
    Bounded
    MeansWhatItSays
    RefusesExactly

\* A list ends.
CHECK_DEADLOCK FALSE
