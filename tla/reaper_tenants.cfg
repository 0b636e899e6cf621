SPECIFICATION Spec

CONSTANTS
    UtilPct = 15
    MemHeldPct = 5
    IdlePowerWatts = 60
    Window = 3
    Warmup = 0
    MinSamples = 2
    MaxSampleGap = 2
    Stages <- OnlyAlert
    CancelSignatures = {"idle"}
    JobIDs = {j1, j2}
    AllNodes = {n1, n2}
    Placements <- Overlap
    LocalNode = n1
    Sites <- Deployments
    MaxTime = 2
    j1 = j1
    j2 = j2
    n1 = n1
    n2 = n2

INVARIANTS
    NeverShared
    OwnReadings
    NothingOverlooked

SYMMETRY Jobs

\* Every behaviour stops at the bound on the clock.
CHECK_DEADLOCK FALSE
