SPECIFICATION Spec

CONSTANTS
    UtilPct = 15
    MemHeldPct = 5
    IdlePowerWatts = 60
    Window = 3
    Warmup = 1
    MinSamples = 2
    MaxSampleGap = 2
    Stages <- ThreeStages
    CancelSignatures = {"idle"}
    Nodes <- OneNode
    GPUCount = 2
    Views <- SomeGPUs
    Readings <- Mixed
    ExemptAnswers <- Never
    StartKnown <- Known
    MaxLag = 0
    ActionDelay = 0
    MaxTime = 4
    n1 = n1

INVARIANTS
    IdleMeansEmpty
    SteadySight
