------------------------------- MODULE Daemon -------------------------------
(***************************************************************************)
(* The daemon's loop under any configuration that Validate accepts         *)
(* (src/cmd/gpu-reaper/main.go: run, reaper.cycle, ready; the ticker and   *)
(* the signal context of the Go runtime): a cycle at once, then one for    *)
(* every tick of a ticker that keeps one tick and drops the others, until  *)
(* the daemon is told to stop or has run its cycles.                       *)
(*                                                                         *)
(* One job, idle from the start of the clock, is what the cycles see: the  *)
(* question is what becomes of it under this configuration and this        *)
(* timing.  Its state is kept by module Engine, whose constants are        *)
(* values of the configuration here.  JobWatch and Reaper have everything  *)
(* else a job and a cycle may meet.                                        *)
(***************************************************************************)
EXTENDS Settings

CONSTANTS
    Configs,    \* the configurations that somebody may write
    Hour,       \* the dwell of the default drain stage
    Cycles,     \* what --cycles may say; 0: until stopped
    Faults,     \* TRUE: a cycle may fail
    MaxTime     \* bound on the clock

ASSUME DaemonAssumption ==
    /\ Hour \in Nat
    /\ Configs \subseteq Config
    /\ Cycles \subseteq Nat
    /\ Faults \in BOOLEAN
    /\ MaxTime \in Nat

VARIABLES
    clock,
    conf,         \* the configuration
    cycles,       \* --cycles
    n,            \* cycles begun, counted if they are limited
    phase,        \* where the loop is
    fired,        \* a tick waits in the ticker's channel
    stopping,     \* the context is cancelled
    now,          \* when the cycle read the clock, after sampling
    st,           \* the engine's state of the job
    finding,      \* its last finding
    lastSuccess,  \* what readiness looks at
    drained,      \* Slurm: the job's node is drained
    pace,         \* history: no cycle was late
    due,          \* history: the last tick's cycle did not judge yet
    since         \* history: since when judgements follow without a hole

loop == <<cycles, n, phase, fired, stopping>>
past == <<pace, due, since>>
vars == <<clock, conf, loop, now, st, finding, lastSuccess, drained, past>>

None == -1

(* The engine of newEngine.                                                *)
E == INSTANCE Engine WITH
        UtilPct          <- conf.thresholds.utilPct,
        MemHeldPct       <- conf.thresholds.memHeldPct,
        IdlePowerWatts   <- conf.thresholds.idlePowerWatts,
        Window           <- conf.thresholds.window,
        Warmup           <- conf.thresholds.warmup,
        MinSamples       <- conf.thresholds.minSamples,
        MaxSampleGap     <- conf.thresholds.maxSampleGap,
        Stages           <- Sorted(PolicyStages(conf, Hour)),
        CancelSignatures <- AllowedSignatures(conf)

Job == [start |-> 0, nodes |-> {"node"}, gpuCount |-> 1, exempt |-> FALSE]

Idle == [util |-> 0, mem |-> 0, power |-> 0, pids |-> 0, mig |-> FALSE]

Reading == [seen |-> clock, at |-> clock, node |-> "node", gpu |-> 0, read |-> Idle]

Init ==
    /\ clock = 0
    /\ conf \in {c \in Configs : Validate(c, Hour)}
    /\ cycles \in Cycles
    /\ n = 0
    /\ phase = "cycle"
    /\ fired = FALSE
    /\ stopping = FALSE
    /\ now = None
    /\ st = E!NoState
    /\ finding = E!Nothing(Job)
    /\ lastSuccess = None
    /\ drained = FALSE
    /\ pace = TRUE
    /\ due = TRUE
    /\ since = None

-----------------------------------------------------------------------------
(***************************************************************************)
(* Time and signals.  The ticker's channel holds one tick.                 *)
(***************************************************************************)
Tick ==
    /\ clock < MaxTime
    /\ clock' = clock + 1
    /\ IF clock' % conf.interval = 0
       THEN /\ fired' = TRUE
            /\ due' = TRUE
            /\ pace' = (pace /\ ~due /\ phase = "select")
       ELSE UNCHANGED <<fired, due, pace>>
    /\ UNCHANGED <<conf, cycles, n, phase, stopping, now, st, finding, lastSuccess, drained, since>>

Signal ==
    /\ ~stopping
    /\ stopping' = TRUE
    /\ UNCHANGED <<clock, conf, cycles, n, phase, fired, now, st, finding, lastSuccess, drained, past>>

-----------------------------------------------------------------------------
(***************************************************************************)
(* The loop of run.                                                        *)
(***************************************************************************)
(* Variant for the checks: one cycle more than was asked for. *)
OverLate(k) == cycles > 0 /\ k > cycles

Over(k) == cycles > 0 /\ k >= cycles

(* After a cycle: the last one of a limited number, or wait.               *)
AfterCycle ==
    /\ n' = IF cycles = 0 THEN 0 ELSE n + 1
    /\ phase' = IF Over(n') THEN "over" ELSE "select"
    /\ UNCHANGED <<cycles, fired, stopping>>

(* Variant for the checks: a failed cycle is tried again at once. *)
TriedAgain == phase' = "cycle" /\ UNCHANGED <<cycles, n, fired, stopping>>

(* A failed cycle is logged; the next tick is waited for all the same.     *)
AfterFailure == AfterCycle

(* select takes either case that is ready.                                 *)
NextCycle ==
    /\ phase = "select"
    /\ fired
    /\ fired' = FALSE
    /\ phase' = "cycle"
    /\ UNCHANGED <<clock, conf, cycles, n, stopping, now, st, finding, lastSuccess, drained, past>>

Stop ==
    /\ phase = "select"
    /\ stopping
    /\ phase' = "over"
    /\ UNCHANGED <<clock, conf, cycles, n, fired, stopping, now, st, finding, lastSuccess, drained, past>>

-----------------------------------------------------------------------------
(***************************************************************************)
(* A cycle: listing and sampling, which fail once the context is           *)
(* cancelled, then the judgement, then what the finding asks for.          *)
(***************************************************************************)
CycleFails ==
    /\ phase = "cycle"
    /\ Faults \/ stopping
    /\ AfterFailure
    /\ UNCHANGED <<clock, conf, now, st, finding, lastSuccess, drained, past>>

Unbroken == since # None /\ clock - now <= conf.thresholds.maxSampleGap

Judge ==
    /\ phase = "cycle"
    /\ ~stopping
    /\ phase' = "act"
    /\ now' = clock
    /\ LET res == E!Evaluate(E!Observe(st, Job, {Reading}, clock), Job, clock)
       IN  st' = res.state /\ finding' = res.finding
    /\ due' = FALSE
    /\ pace' = (pace /\ clock % conf.interval <= conf.thresholds.maxSampleGap - conf.interval)
    /\ since' = IF clock < conf.thresholds.warmup THEN None
                ELSE IF Unbroken THEN since ELSE clock
    /\ UNCHANGED <<clock, conf, cycles, n, fired, stopping, lastSuccess, drained>>

(* Variant for the checks: the time at which the actions were over. *)
SucceededAtEnd == clock

SucceededAt == now

(* Notifications, a drain that is made already, a cancel, an observe mode  *)
(* that only says what it would do: the rest of a cycle that acts on       *)
(* nothing but Slurm's answer.                                             *)
Confirmed == E!ConfirmDrain(st, 0, now)

EndCycle ==
    /\ phase = "act"
    /\ AfterCycle
    /\ lastSuccess' = SucceededAt
    /\ UNCHANGED <<clock, conf, now, finding, past>>

AsksDrain == finding.verdict = Drain /\ ~finding.drainConfirmed

Quiet ==
    /\ ~AsksDrain
    /\ EndCycle
    /\ UNCHANGED <<st, drained>>

DryDrain ==
    /\ AsksDrain
    /\ ~Enforces(conf)
    /\ EndCycle
    /\ st' = Confirmed
    /\ UNCHANGED drained

(* No command is started with a cancelled context.                         *)
DrainNode ==
    /\ AsksDrain
    /\ Enforces(conf)
    /\ ~stopping
    /\ EndCycle
    /\ st' = Confirmed
    /\ drained' = TRUE

DrainFails ==
    /\ AsksDrain
    /\ Enforces(conf)
    /\ Faults \/ stopping
    /\ EndCycle
    /\ UNCHANGED <<st, drained>>

Act == Quiet \/ DryDrain \/ DrainNode \/ DrainFails

-----------------------------------------------------------------------------
Next ==
    \/ Tick
    \/ Signal
    \/ NextCycle
    \/ Stop
    \/ CycleFails
    \/ Judge
    \/ Act

Spec == Init /\ [][Next]_vars

(* Every call of a cycle has a time limit; select is fair to a case that   *)
(* is ready again and again, since it chooses at random.                   *)
FairSpec ==
    /\ Spec
    /\ WF_vars(CycleFails \/ Judge)
    /\ WF_vars(Act)
    /\ SF_vars(Stop)

-----------------------------------------------------------------------------
(***************************************************************************)
(* What must hold.                                                         *)
(***************************************************************************)
Time == None .. MaxTime

(* Every variable has its type (run's local variables).                    *)
TypeOK ==
    /\ clock \in 0 .. MaxTime
    /\ conf \in Configs
    /\ n \in Nat /\ (cycles > 0 => n <= cycles)
    /\ phase \in {"select", "cycle", "act", "over"}
    /\ {fired, stopping, drained, pace, due} \subseteq BOOLEAN
    /\ {now, lastSuccess, since} \subseteq Time
    /\ finding.verdict \in Healthy .. Cancel

(* Whatever configuration is accepted, a job that was idle for the warmup  *)
(* and a window, and two intervals for the cycles to come by, is reported, *)
(* unless a cycle was late or failed (Validate's rules on interval,        *)
(* max_sample_gap and min_samples: "no breach could ever be confirmed").   *)
IdleReported ==
    /\ pace
    /\ now >= conf.thresholds.warmup + conf.thresholds.window + 2 * conf.interval
    => finding.verdict >= Watching

(* Whatever configuration is accepted, also one that leaves the stages or  *)
(* the cancel list to the defaults, nothing destructive is asked for       *)
(* before the evidence has lasted a whole window without a hole (the rule  *)
(* on stages in Validate), and no cancel of what the operator did not      *)
(* allow (newEngine's cancel list).                                        *)
DestructiveEarned ==
    /\ finding.verdict >= Drain => since # None /\ now - since >= conf.thresholds.window
    /\ finding.verdict = Cancel => finding.signature \in conf.allow

(* ready *)
Ready == lastSuccess # None /\ clock - lastSuccess <= 3 * conf.interval

(* A daemon that calls itself ready has looked at the job within three     *)
(* intervals, or is doing so: a cycle that hangs in its actions ages it    *)
(* like one that fails (lastSuccess; the comment of ready).                *)
ReadyMeansSeen == Ready => clock - now <= 3 * conf.interval

(* Told to stop, the daemon stops, also when ticks keep coming and every   *)
(* call fails; limited to some cycles, it ends after them.                 *)
Stops == stopping ~> phase = "over"

=============================================================================
