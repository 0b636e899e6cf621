------------------------------- MODULE Engine -------------------------------
(***************************************************************************)
(* The policy engine's memory of one job and its operations on it          *)
(* (src/internal/policy/policy.go: jobState, Observe, Drop, ConfirmDrain,  *)
(* Evaluate).  Every operation is a function from the job's state to the   *)
(* next one; the modules that run a daemon give it the jobs, the samples   *)
(* and the time.                                                           *)
(*                                                                         *)
(* A job is the record [start, nodes, gpuCount, exempt] of what Slurm      *)
(* listed in this cycle, "exempt" being the answer of Exemptions.Covers.   *)
(* One state suffices per JobID: the engine's map holds at most one        *)
(* incarnation, and a JobID it does not hold behaves as NoState does.      *)
(***************************************************************************)
EXTENDS Evidence

CONSTANT CancelSignatures    \* what AllowCancel was given

ASSUME CancelAssumption == CancelSignatures \subseteq {"idle", "hung"}

FreshState(start) ==
    [startTime        |-> start,
     samples          |-> {},
     breachedSince    |-> None,
     lastVerdict      |-> Healthy,
     drainConfirmedAt |-> None,
     accountedUntil   |-> None]

NoState == FreshState(None)

(***************************************************************************)
(* reset: the samples stay, what was concluded from them goes.             *)
(***************************************************************************)
(* Variants for the checks: a reset that leaves the confirmation of the    *)
(* drain, and one that leaves a verdict that is none.                      *)
ResetKeepingDrain(st) ==
    [st EXCEPT !.breachedSince = None, !.lastVerdict = Healthy, !.accountedUntil = None]
ResetToNone(st) ==
    [st EXCEPT !.breachedSince = None, !.lastVerdict = None,
               !.drainConfirmedAt = None, !.accountedUntil = None]

Reset(st) ==
    [st EXCEPT !.breachedSince = None, !.lastVerdict = Healthy,
               !.drainConfirmedAt = None, !.accountedUntil = None]

(***************************************************************************)
(* state: a requeued job keeps its JobID but starts again.                 *)
(***************************************************************************)
StateOf(st, job) ==
    IF st.startTime = job.start THEN st ELSE FreshState(job.start)

Admitted(job, batch) ==
    {s \in batch : job.start # None /\ s.at >= job.start + Warmup}

InWindow(ss, now) == {s \in ss : s.at >= now - Window}

Observe(st, job, batch, now) ==
    LET mine == StateOf(st, job)
    IN  [mine EXCEPT !.samples = InWindow(@ \cup Admitted(job, batch), now)]

(* Variant for the checks: expects the verdict that comes after the drain. *)
ConfirmDrainLate(st, start, at) ==
    IF st.startTime = start /\ st.lastVerdict = Cancel /\ st.drainConfirmedAt = None
    THEN [st EXCEPT !.drainConfirmedAt = at]
    ELSE st

ConfirmDrain(st, start, at) ==
    IF st.startTime = start /\ st.lastVerdict = Drain /\ st.drainConfirmedAt = None
    THEN [st EXCEPT !.drainConfirmedAt = at]
    ELSE st

-----------------------------------------------------------------------------
(***************************************************************************)
(* Evaluate.  Its result is the job's next state and the finding, whose    *)
(* "wasted" is WastedGPUSeconds in GPU ticks and "recovered" is            *)
(* RecoveredAfterDrain.                                                    *)
(***************************************************************************)
Nothing(job) == [start |-> job.start, verdict |-> Healthy, signature |-> "unknown",
                 wasted |-> 0, drainConfirmed |-> FALSE, recovered |-> FALSE]

Result(st, finding) == [state |-> st, finding |-> finding]

(* Starved and unknown stop at Alert, a signature not opted into at Drain. *)
Capped(target, sig) ==
    IF sig \in {"unknown", "starved"} /\ target > Alert THEN Alert
    ELSE IF target = Cancel /\ sig \notin CancelSignatures THEN Drain
    ELSE target

(* Variant for the checks: a drain on the first alert. *)
LadderedFromStart(target, st, now) ==
    IF target = Cancel /\ (st.drainConfirmedAt = None \/ now - st.drainConfirmedAt < Window)
    THEN Drain ELSE target

(* Variant for the checks: a confirmed drain, however recent, is enough. *)
LadderedUnwaited(target, st, now) ==
    IF target >= Drain /\ st.lastVerdict < Alert THEN Alert
    ELSE IF target = Cancel /\ (st.lastVerdict < Drain \/ st.drainConfirmedAt = None) THEN Drain
    ELSE target

(* Drain needs an earlier Alert, Cancel a drain confirmed a Window ago.    *)
Laddered(target, st, now) ==
    IF target >= Drain /\ st.lastVerdict < Alert THEN Alert
    ELSE IF /\ target = Cancel
            /\ \/ st.lastVerdict < Drain
               \/ st.drainConfirmedAt = None
               \/ now - st.drainConfirmedAt < Window
         THEN Drain
    ELSE target

BreachStart(st) == IF st.breachedSince = None THEN First(st.samples) ELSE st.breachedSince

(* Variant for the checks: counts the whole breach at every evaluation. *)
WastedSinceBreach(st, job, now) == job.gpuCount * (now - BreachStart(st))

Wasted(st, job, now) ==
    LET since == BreachStart(st)
        from  == IF st.accountedUntil > since THEN st.accountedUntil ELSE since
        seen  == Cardinality(GPUsSeen(st.samples))
        gpus  == IF job.gpuCount < seen THEN job.gpuCount ELSE seen
    IN  IF now > from THEN gpus * (now - from) ELSE 0

BreachVerdict(st, now) ==
    Laddered(Capped(StageFor(now - BreachStart(st)), Classify(st.samples)), st, now)

Breach(st, job, now) ==
    LET verdict == BreachVerdict(st, now)
    IN  Result([st EXCEPT !.breachedSince = BreachStart(st),
                          !.accountedUntil = now,
                          !.lastVerdict = verdict],
               [start          |-> job.start,
                verdict        |-> verdict,
                signature      |-> Classify(st.samples),
                wasted         |-> Wasted(st, job, now),
                drainConfirmed |-> st.drainConfirmedAt # None,
                recovered      |-> FALSE])

Evaluate(st, job, now) ==
    IF job.gpuCount = 0 \/ job.exempt THEN Result(st, Nothing(job))
    ELSE IF job.start = None THEN Result(NoState, Nothing(job))
    ELSE IF now - job.start < Warmup THEN Result(st, Nothing(job))
    ELSE IF st.startTime # job.start \/ st.samples = {} THEN Result(st, Nothing(job))
    ELSE IF ~Covered(st.samples, job.nodes, job.gpuCount, now) THEN Result(Reset(st), Nothing(job))
    ELSE IF Alive(st.samples)
         THEN Result(Reset(st), [Nothing(job) EXCEPT !.recovered = (st.drainConfirmedAt # None)])
    ELSE Breach(st, job, now)

=============================================================================
