SPECIFICATION Spec

CONSTANTS
    UtilPct = 15
    MemHeldPct = 5
    IdlePowerWatts = 60
    Window = 4
    Warmup = 1
    MinSamples = 2
    MaxSampleGap = 2
    Stages <- ThreeStages
    CancelSignatures = {"idle"}
    Nodes <- OneNode
    GPUCount = 1
    Views <- OneGPU
    Readings <- IdleOrBusy
    ExemptAnswers <- Both
    StartKnown <- Known
    MaxLag = 0
    ActionDelay = 0
    MaxTime = 10
    n1 = n1

INVARIANTS
    LadderEarned
