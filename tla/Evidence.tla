------------------------------ MODULE Evidence ------------------------------
(***************************************************************************)
(* What the policy engine concludes from the GPU samples of one job:       *)
(* whether they cover the window, whether one of them shows work, how      *)
(* the waste is classified, and which escalation its duration calls for.   *)
(* (src/internal/policy/policy.go: coverage, summarize, classify,          *)
(* stageFor; src/internal/gpu/gpu.go: Sample.)                             *)
(*                                                                         *)
(* Times are ticks.  A sample is the record                                *)
(*    [seen, at, node, gpu, read]                                          *)
(* where "at" is its Timestamp, "seen" the cycle that recorded it (two     *)
(* readings of one GPU that carry the same Timestamp stay two samples, as  *)
(* in the engine's slice; nothing in the engine reads the slice's order)   *)
(* and "read" the measurements.  A measurement the backend could not read  *)
(* is Unknown: the field and its ...Known flag in one value.               *)
(***************************************************************************)
EXTENDS Integers, FiniteSets, FiniteSetsExt, Sequences

CONSTANTS
    UtilPct,         \* utilization (percent) from which a GPU is at work
    MemHeldPct,      \* framebuffer occupancy (percent) from which memory is held
    IdlePowerWatts,  \* draw below which a GPU is idle
    Window,          \* how long a breach must be sustained
    Warmup,          \* how long after its start a job is not judged
    MinSamples,      \* observation times a node needs in the window
    MaxSampleGap,    \* the largest hole between two observations
    Stages           \* escalations by dwell, in the order New sorted them

None    == -1        \* the zero time.Time
Unknown == -1        \* a measurement that was not read

(***************************************************************************)
(* The escalation ladder and the kinds of waste.                           *)
(***************************************************************************)
Healthy  == 0
Watching == 1
Alert    == 2
Drain    == 3
Cancel   == 4
Verdicts == Healthy .. Cancel

Signatures == {"idle", "hung", "starved", "unknown"}

(***************************************************************************)
(* New refuses every other configuration.                                  *)
(***************************************************************************)
ASSUME ThresholdsAssumption ==
    /\ Window \in Nat \ {0}
    /\ MinSamples \in Nat \ {0}
    /\ MaxSampleGap \in 1 .. (Window - 1)
    /\ UtilPct \in 1 .. 100
    /\ Warmup \in Nat
    /\ MemHeldPct \in Int
    /\ IdlePowerWatts \in Int

ASSUME StagesAssumption ==
    /\ Stages \in Seq([after : Nat, verdict : {Alert, Drain, Cancel}])
    /\ \A i, k \in 1 .. Len(Stages) : i <= k => Stages[i].after <= Stages[k].after

-----------------------------------------------------------------------------
(***************************************************************************)
(* Coverage: may these samples support a verdict at all?                   *)
(***************************************************************************)
Judgeable(read) == read.util # Unknown /\ read.mem # Unknown /\ ~read.mig

OfNode(ss, n)    == {s \in ss : s.node = n}
Times(ss, n)     == {s.at : s \in OfNode(ss, n)}
CountAt(ss, n, t) == Cardinality({s \in OfNode(ss, n) : s.at = t})
GPUsSeen(ss)     == {<<s.node, s.gpu>> : s \in ss}

AllJudgeable(ss) == \A s \in ss : Judgeable(s.read)

(* Variant for the checks: accepts a report that missed GPUs. *)
AnyGPUs(ss, n) == Times(ss, n) # {}

SteadyGPUs(ss, n) ==
    \A t, u \in Times(ss, n) : CountAt(ss, n, t) = CountAt(ss, n, u)

EnoughObservations(ss, n) == Cardinality(Times(ss, n)) >= MinSamples

Fresh(ss, n, now) == \E t \in Times(ss, n) : now - t <= MaxSampleGap

(* Variant for the checks: the oldest sample must be as old as the window. *)
ReachesBackFully(ss, n, now) == \E t \in Times(ss, n) : t <= now - Window

ReachesBack(ss, n, now) == \E t \in Times(ss, n) : t <= now - Window + MaxSampleGap

(* Variant for the checks: a hole counts only if it is longer than the window. *)
NoLongHole(ss, n) ==
    \A t, u \in Times(ss, n) :
        t < u => \E v \in Times(ss, n) : t < v /\ v - t <= Window

NoHole(ss, n) ==
    \A t, u \in Times(ss, n) :
        t < u => \E v \in Times(ss, n) : t < v /\ v - t <= MaxSampleGap

Covered(ss, nodes, gpuCount, now) ==
    /\ AllJudgeable(ss)
    /\ nodes # {}
    /\ \A n \in nodes :
          /\ OfNode(ss, n) # {}
          /\ SteadyGPUs(ss, n)
          /\ EnoughObservations(ss, n)
          /\ Fresh(ss, n, now)
          /\ ReachesBack(ss, n, now)
          /\ NoHole(ss, n)
    /\ Cardinality(GPUsSeen(ss)) >= gpuCount

-----------------------------------------------------------------------------
(***************************************************************************)
(* summarize and classify.  A mean is compared through its sum, since      *)
(* sum / n >= x is sum >= x * n.                                           *)
(***************************************************************************)
AtWork(read) == read.util >= UtilPct

Alive(ss) == \E s \in ss : AtWork(s.read)

First(ss) == CHOOSE t \in {s.at : s \in ss} : \A s \in ss : t <= s.at

MemHeld(ss) ==
    MapThenSumSet(LAMBDA s : s.read.mem, ss) >= MemHeldPct * Cardinality(ss)

(* Variant for the checks: a process list that was not read counts as empty. *)
NoKnownProcess(ss) == \A s \in ss : s.read.pids <= 0

NoProcess(ss)   == \A s \in ss : s.read.pids = 0
SomeProcess(ss) == \E s \in ss : s.read.pids > 0

LowPower(ss) ==
    /\ \A s \in ss : s.read.power # Unknown
    /\ MapThenSumSet(LAMBDA s : s.read.power, ss) < IdlePowerWatts * Cardinality(ss)

NoCompute(ss) == \A s \in ss : s.read.util < 1

Classify(ss) ==
    IF ~MemHeld(ss) /\ NoProcess(ss) /\ LowPower(ss)   THEN "idle"
    ELSE IF MemHeld(ss) /\ SomeProcess(ss) /\ NoCompute(ss) THEN "hung"
    ELSE IF MemHeld(ss) /\ ~NoCompute(ss)              THEN "starved"
    ELSE "unknown"

(***************************************************************************)
(* The last stage whose dwell is reached; Watching before the first.  The  *)
(* stages are sorted, so the ones reached are the first Cardinality(due).  *)
(***************************************************************************)
StageFor(dwell) ==
    LET due == {i \in 1 .. Len(Stages) : Stages[i].after <= dwell}
    IN  IF due = {} THEN Watching ELSE Stages[Cardinality(due)].verdict

=============================================================================
