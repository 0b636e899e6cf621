SPECIFICATION FairSpec

CONSTANTS
    MaxInt = 127
    Configs <- MCConfigs
    Hour = 3
    Cycles = {0, 3}
    Faults = TRUE
    MaxTime = 9

INVARIANTS
    TypeOK
    IdleReported
    DestructiveEarned
    ReadyMeansSeen

PROPERTIES
    Stops

\* The clock has a bound, and a daemon that stopped does nothing more.
CHECK_DEADLOCK FALSE
