SPECIFICATION FairSpec

CONSTANTS
    UtilPct = 15
    MemHeldPct = 5
    IdlePowerWatts = 60
    Window = 2
    Warmup = 0
    MinSamples = 2
    MaxSampleGap = 1
    Stages <- Eager
    CancelSignatures = {"idle"}
    JobIDs = {j1}
    AllNodes = {n1, n2}
    Placements <- BothNodes
    LocalNode = n1
    Sites <- Enforcing
    MaxTime = 5
    j1 = j1
    j2 = j2
    n1 = n1
    n2 = n2

INVARIANTS
    ConfirmedIsDrained
    CancelFollowsDrain

PROPERTIES
    ClimbsLadder
    CycleEnds
