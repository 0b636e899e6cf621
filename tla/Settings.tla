------------------------------ MODULE Settings ------------------------------
(***************************************************************************)
(* The configuration: what Validate lets the daemon run with, and what the *)
(* engine is built from it (src/internal/config/config.go: Validate,       *)
(* PolicyThresholds, PolicyStages, CancelSignatures, ParseVerdict;         *)
(* src/internal/policy/policy.go: New, AllowCancel, the defaults;          *)
(* src/cmd/gpu-reaper/main.go: newEngine, newClusterActor).                *)
(*                                                                         *)
(* Durations are ticks.  A configuration is a record of what the rules     *)
(* tell apart: of a path only whether it is absolute, of a URL whether it  *)
(* is one.  The format of the log and the metrics address are left out, as *)
(* are the patterns of exemptions.                                         *)
(***************************************************************************)
EXTENDS Integers, Sequences, FiniteSets

CONSTANT MaxInt    \* the largest time.Duration, in ticks

ASSUME MaxIntAssumption == MaxInt \in Nat \ {0}

Healthy  == 0
Watching == 1
Alert    == 2
Drain    == 3
Cancel   == 4

Binaries == {"scancel", "scontrol", "squeue", "nvidia-smi"}

Config ==
    [mode         : STRING,
     interval     : Int,
     thresholds   : [utilPct : Int, memHeldPct : Int, idlePowerWatts : Int, window : Int,
                     warmup : Int, minSamples : Int, maxSampleGap : Int],
     stages       : Seq([after : Int, verdict : STRING]),
     allow        : SUBSET STRING,    \* allow_cancel_signatures
     slack        : [minVerdict : STRING, remindEvery : Int],
     slurm        : [source : STRING, url : BOOLEAN, tokens : 0 .. 2],
     gpu          : [source : STRING, url : BOOLEAN, timeout : Int],
     absolute     : SUBSET Binaries]  \* the paths that are absolute

-----------------------------------------------------------------------------
(* An unknown word is an error. *)
Error == -1

ParseVerdict(word) ==
    CASE word \in {"", "healthy"} -> Healthy
      [] word = "watching"        -> Watching
      [] word = "alert"           -> Alert
      [] word = "drain"           -> Drain
      [] word = "cancel"          -> Cancel
      [] OTHER                    -> Error

DefaultStages(hour) ==
    <<[after |-> 0, verdict |-> Alert], [after |-> hour, verdict |-> Drain]>>

(* The stages the engine will run: the default ones if the file has none.  *)
PolicyStages(c, hour) ==
    IF c.stages = <<>> THEN DefaultStages(hour)
    ELSE [i \in DOMAIN c.stages |->
             [after |-> c.stages[i].after, verdict |-> ParseVerdict(c.stages[i].verdict)]]

-----------------------------------------------------------------------------
(***************************************************************************)
(* Validate, rule by rule.                                                 *)
(***************************************************************************)
ThresholdsInRange(th) ==
    /\ th.utilPct > 0 /\ th.utilPct <= 100
    /\ th.memHeldPct >= 0 /\ th.memHeldPct <= 100
    /\ th.idlePowerWatts >= 0
    /\ th.window > 0
    /\ th.warmup >= 0
    /\ th.minSamples >= 1

(* An ordinary gap between two cycles is no hole, and one snapshot does    *)
(* not cover the window.                                                   *)
GapInBetween(c) ==
    /\ c.interval < c.thresholds.maxSampleGap
    /\ c.thresholds.maxSampleGap < c.thresholds.window

(* int64 arithmetic *)
Wrapped(x) == ((x + MaxInt + 1) % (2 * (MaxInt + 1))) - (MaxInt + 1)

(* Variant for the checks: compares the number, not the time it takes. *)
CountFits(c) == c.thresholds.minSamples <= c.thresholds.window

SamplesFit(c) == Wrapped(c.thresholds.minSamples * c.interval) <= c.thresholds.window

StagesValid(c) ==
    \A i \in DOMAIN c.stages :
        ParseVerdict(c.stages[i].verdict) >= Alert /\ c.stages[i].after >= 0

LateFrom(stages, window) ==
    \A i \in DOMAIN stages : stages[i].verdict >= Drain => stages[i].after >= window

(* Variant for the checks: looks at the stages of the file only. *)
FileStagesLate(c, hour) ==
    c.stages # <<>> => LateFrom(PolicyStages(c, hour), c.thresholds.window)

(* No drain or cancel before a breach has lasted a window.                 *)
StagesLate(c, hour) == LateFrom(PolicyStages(c, hour), c.thresholds.window)

SlackValid(c) == ParseVerdict(c.slack.minVerdict) >= Alert /\ c.slack.remindEvery >= 0

SlurmValid(c) ==
    \/ c.slurm.source = "squeue"
    \/ c.slurm.source = "rest" /\ c.slurm.url /\ c.slurm.tokens < 2

(* Whatever program's output or effect reaches a drain or a cancel.        *)
Trusted(c) ==
    {"scancel", "scontrol"} \cup
    (IF c.slurm.source = "squeue" THEN {"squeue"} ELSE {}) \cup
    (IF c.gpu.source = "nvidia-smi" THEN {"nvidia-smi"} ELSE {})

GPUValid(c) ==
    \/ c.gpu.source \in {"nvidia-smi", "simulator"}
    \/ /\ c.gpu.source = "dcgm"
       /\ c.gpu.url
       /\ 0 < c.gpu.timeout /\ c.gpu.timeout < c.interval

Validate(c, hour) ==
    /\ c.mode \in {"observe", "enforce"}
    /\ c.interval > 0
    /\ ThresholdsInRange(c.thresholds)
    /\ GapInBetween(c)
    /\ SamplesFit(c)
    /\ StagesValid(c)
    /\ StagesLate(c, hour)
    /\ c.allow \subseteq {"idle", "hung"}
    /\ SlackValid(c)
    /\ SlurmValid(c)
    /\ c.mode = "enforce" => Trusted(c) \subseteq c.absolute
    /\ GPUValid(c)

-----------------------------------------------------------------------------
(***************************************************************************)
(* newEngine: New checks again, sorts the stages and allows the default    *)
(* signatures; AllowCancel then puts the configured ones in their place.   *)
(***************************************************************************)
NewAccepts(th) ==
    /\ th.window > 0
    /\ th.minSamples >= 1
    /\ th.maxSampleGap > 0 /\ th.maxSampleGap < th.window
    /\ th.utilPct > 0 /\ th.utilPct <= 100

AllowCancelAccepts(sigs) == sigs \subseteq {"idle", "hung"}

(* sort.SliceStable: the i-th stage is the one that i - 1 come before.      *)
Before(stages, k) ==
    {i \in DOMAIN stages :
        \/ stages[i].after < stages[k].after
        \/ stages[i].after = stages[k].after /\ i < k}

Sorted(stages) ==
    [i \in DOMAIN stages |->
        stages[CHOOSE k \in DOMAIN stages : Cardinality(Before(stages, k)) = i - 1]]

AllowedSignatures(c) == c.allow

(* newClusterActor: a controller that acts, and an actor that lets it.     *)
Enforces(c) == c.mode = "enforce"

=============================================================================
