SPECIFICATION Spec

CONSTANTS
    UtilPct = 15
    MemHeldPct = 5
    IdlePowerWatts = 60
    Window = 3
    Warmup = 0
    MinSamples = 2
    MaxSampleGap = 2
    Stages <- ThreeStages
    CancelSignatures = {"idle"}
    Nodes <- OneNode
    GPUCount = 1
    Views <- OneGPU
    Readings <- IdleOrBusy
    ExemptAnswers <- Never
    StartKnown <- Both
    MaxLag = 0
    ActionDelay = 1
    MaxTime = 10
    n1 = n1

INVARIANTS
    TypeOK
    EvidenceSound
    LadderEarned
    BreachSeen
    WasteOnce
    DrainOncePerBreach

PROPERTIES
    ClimbsLadder
