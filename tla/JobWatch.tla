------------------------------ MODULE JobWatch ------------------------------
(***************************************************************************)
(* One JobID as the daemon's cycles put it through the policy engine:      *)
(* observed and evaluated, drained and confirmed, dropped when a cycle has *)
(* no usable evidence, forgotten when it ends, requeued under the same     *)
(* JobID, and lost with everything else when the daemon restarts           *)
(* (src/internal/policy/policy.go driven as src/cmd/gpu-reaper/main.go     *)
(* drives it).  The engine keeps nothing across jobs, so one job shows all *)
(* it can do; module Reaper lets several share nodes.                      *)
(*                                                                         *)
(* A cycle that never comes (the listing or the whole scrape failed, the   *)
(* daemon hangs) is time passing without a Cycle.                          *)
(***************************************************************************)
EXTENDS Engine

CONSTANTS
    Nodes,          \* the job's nodes
    GPUCount,       \* how many GPUs the job holds
    Views,          \* the sets of GPU indexes one report of a node may name
    Readings,       \* what a report may say of a GPU
    ExemptAnswers,  \* what Exemptions.Covers may answer, cycle by cycle
    StartKnown,     \* TRUE, and FALSE if a listing may lack the start time
    MaxLag,         \* how old a reading may be when it is recorded
    ActionDelay,    \* how long a drain may take to be executed
    MaxTime         \* bound on the clock

VARIABLES
    clock,      \* the time
    start,      \* when the running incarnation started; None: not running
    st,         \* the engine's state of the job
    finding,    \* the last finding
    judged,     \* the time of the cycle that judged the job last
    draining,   \* the finding asked for a drain whose outcome is not known yet
    hist        \* what happened, remembered for the properties only

vars == <<clock, start, st, finding, judged, draining, hist>>

ASSUME WatchAssumption ==
    /\ Nodes # {} /\ IsFiniteSet(Nodes)
    /\ GPUCount \in Nat \ {0}
    /\ Views # {} /\ {} \notin Views /\ IsFiniteSet(UNION Views)
    /\ Readings \subseteq [util : Int, mem : Int, power : Int, pids : Int, mig : BOOLEAN]
    /\ ExemptAnswers \subseteq BOOLEAN
    /\ StartKnown \subseteq BOOLEAN
    /\ MaxLag \in Nat
    /\ ActionDelay \in Nat

NoFinding == Nothing([start |-> None])

(* One scrape of the job's nodes: each node names some of its GPUs and     *)
(* stamps them all with one time, never earlier than its last one.         *)
Reports == UNION {[v -> Readings] : v \in Views}

Stamps == {t \in [Nodes -> (clock - MaxLag) .. clock] :
              \A n \in Nodes : t[n] >= 0 /\ t[n] >= hist.last[n]}

Batch(report, stamp) ==
    LET ofNode(n) == {[seen |-> clock, at |-> stamp[n], node |-> n, gpu |-> g,
                       read |-> report[n][g]] : g \in DOMAIN report[n]}
    IN  UNION {ofNode(n) : n \in Nodes}

-----------------------------------------------------------------------------
(***************************************************************************)
(* The history.  It is told of every report that reaches the engine and of *)
(* nothing the engine concludes, except the alerts and drains that were    *)
(* carried out.  For each node it keeps the record's "clean" time: since   *)
(* when, without a hole, every report past the warmup showed a GPU that    *)
(* is readable and not at work.                                            *)
(***************************************************************************)
NoRecord == [clean    |-> [n \in Nodes |-> None],  \* start of the unbroken record
             last     |-> [n \in Nodes |-> None],  \* its last report's stamp
             view     |-> [n \in Nodes |-> {}],    \* the GPUs that report named
             steady   |-> [n \in Nodes |-> None],  \* since when they are as many
             occupied |-> [n \in Nodes |-> None],  \* last report not known to be empty
             alerted  |-> None,   \* first alert reported on this record
             drained  |-> None,   \* when its last drain was executed
             billed   |-> 0]      \* waste counted for this incarnation

(* The engine's memory is gone, or void; the stamps and the waste are not. *)
Broken(h) == [NoRecord EXCEPT !.last = h.last, !.billed = h.billed]

Breaking(read) == ~Judgeable(read) \/ AtWork(read)

Empty(read) == read.pids = 0 /\ read.power # Unknown

CleanAfter(h, report, stamp, from, n) ==
    IF stamp[n] < from THEN h.clean[n]
    ELSE IF \E g \in DOMAIN report[n] : Breaking(report[n][g]) THEN None
    ELSE IF h.clean[n] = None \/ stamp[n] - h.last[n] > MaxSampleGap THEN stamp[n]
    ELSE h.clean[n]

SteadyAfter(h, report, stamp, from, n) ==
    IF stamp[n] < from THEN h.steady[n]
    ELSE IF \/ h.steady[n] = None
            \/ Cardinality(DOMAIN report[n]) # Cardinality(h.view[n]) THEN stamp[n]
    ELSE h.steady[n]

(* The record after a report, and after what the engine answered to it.    *)
Remember(h, report, stamp, now, from, f) ==
    LET clean == [n \in Nodes |-> CleanAfter(h, report, stamp, from, n)]
        kept  == clean = h.clean
        alerted == IF kept THEN h.alerted ELSE None
    IN  [clean    |-> clean,
         last     |-> stamp,
         view     |-> [n \in Nodes |-> DOMAIN report[n]],
         steady   |-> [n \in Nodes |-> SteadyAfter(h, report, stamp, from, n)],
         occupied |-> [n \in Nodes |-> IF \A g \in DOMAIN report[n] : Empty(report[n][g])
                                      THEN h.occupied[n] ELSE stamp[n]],
         alerted  |-> IF f.verdict >= Alert /\ alerted = None THEN now ELSE alerted,
         drained  |-> IF kept THEN h.drained ELSE None,
         billed   |-> h.billed + f.wasted]

-----------------------------------------------------------------------------
Init ==
    /\ clock = 0
    /\ start = 0
    /\ st = NoState
    /\ finding = NoFinding
    /\ judged = None
    /\ draining = FALSE
    /\ hist = NoRecord

Tick ==
    /\ clock < MaxTime
    /\ clock' = clock + 1
    /\ UNCHANGED <<start, st, finding, judged, draining, hist>>

JobOf(startSeen, exempt) ==
    [start |-> startSeen, nodes |-> Nodes, gpuCount |-> GPUCount, exempt |-> exempt]

(***************************************************************************)
(* A cycle that has samples of every node of the job: Observe, Evaluate,   *)
(* and the finding handed to the actors.                                   *)
(***************************************************************************)
Judge(report, stamp, exempt) ==
    LET job == JobOf(start, exempt)
        res == Evaluate(Observe(st, job, Batch(report, stamp), clock), job, clock)
    IN  /\ st' = res.state
        /\ finding' = res.finding
        /\ judged' = clock
        /\ draining' = (res.finding.verdict = Drain /\ ~res.finding.drainConfirmed)
        /\ hist' = Remember(hist, report, stamp, clock, start + Warmup, res.finding)

Cycle ==
    /\ start # None
    /\ judged < clock
    /\ \E report \in [Nodes -> Reports], stamp \in Stamps, exempt \in ExemptAnswers :
          Judge(report, stamp, exempt)
    /\ UNCHANGED <<clock, start>>

(***************************************************************************)
(* The same cycle when the listing lacks the start time: Observe forgets   *)
(* the earlier samples and records none, Evaluate drops the job.           *)
(***************************************************************************)
CycleWithoutStart ==
    /\ start # None
    /\ FALSE \in StartKnown
    /\ judged < clock
    /\ LET job == JobOf(None, FALSE)
           res == Evaluate(Observe(st, job, {}, clock), job, clock)
       IN  /\ st' = res.state
           /\ finding' = res.finding
    /\ judged' = clock
    /\ draining' = FALSE
    /\ hist' = Broken(hist)
    /\ UNCHANGED <<clock, start>>

(***************************************************************************)
(* The drain asked for by the last finding was executed; the daemon        *)
(* confirms it with the time its cycle began to judge.  A drain that fails *)
(* is never confirmed, and the next cycle asks again.                      *)
(***************************************************************************)
DrainExecuted ==
    /\ draining
    /\ clock - judged <= ActionDelay
    /\ st' = ConfirmDrain(st, finding.start, judged)
    /\ draining' = FALSE
    /\ hist' = [hist EXCEPT !.drained = IF finding.start = start THEN clock ELSE @]
    /\ UNCHANGED <<clock, start, finding, judged>>

(***************************************************************************)
(* Drop: a cycle in which the job's node is shared, not sampled, or        *)
(* labelled as another job's.                                              *)
(***************************************************************************)
Drop ==
    /\ start # None
    /\ judged < clock
    /\ st' = NoState
    /\ finding' = NoFinding
    /\ judged' = clock
    /\ draining' = FALSE
    /\ hist' = Broken(hist)
    /\ UNCHANGED <<clock, start>>

(* The job ends.  The engine learns of it when a listing lacks the job.    *)
End ==
    /\ start # None
    /\ start' = None
    /\ UNCHANGED <<clock, st, finding, judged, draining, hist>>

Forget ==
    /\ start = None
    /\ st # NoState
    /\ st' = NoState
    /\ finding' = NoFinding
    /\ draining' = FALSE
    /\ hist' = Broken(hist)
    /\ UNCHANGED <<clock, start, judged>>

(* Slurm starts the job again, later than before and with the same JobID.  *)
Requeue ==
    /\ start = None
    /\ st.startTime < clock
    /\ finding.start < clock
    /\ start' = clock
    /\ hist' = [Broken(hist) EXCEPT !.billed = 0]
    /\ UNCHANGED <<clock, st, finding, judged, draining>>

(* The daemon restarts: it has no history at all.                          *)
Restart ==
    /\ st' = NoState
    /\ finding' = NoFinding
    /\ draining' = FALSE
    /\ hist' = [Broken(hist) EXCEPT !.billed = 0]
    /\ UNCHANGED <<clock, start, judged>>

Next ==
    \/ Tick
    \/ Cycle
    \/ CycleWithoutStart
    \/ DrainExecuted
    \/ Drop
    \/ End
    \/ Forget
    \/ Requeue
    \/ Restart

Spec == Init /\ [][Next]_vars

-----------------------------------------------------------------------------
(***************************************************************************)
(* What must hold.  A breach is reported if the finding is about the       *)
(* incarnation that runs and its verdict is Watching or above.             *)
(***************************************************************************)
Reported == finding.verdict >= Watching /\ finding.start = start

Time == Nat \cup {None}

SampleType == [seen : Nat, at : Nat, node : Nodes, gpu : UNION Views, read : Readings]

StateType ==
    [startTime : Time, samples : SUBSET SampleType, breachedSince : Time,
     lastVerdict : Verdicts, drainConfirmedAt : Time, accountedUntil : Time]

FindingType ==
    [start : Time, verdict : Verdicts, signature : Signatures, wasted : Nat,
     drainConfirmed : BOOLEAN, recovered : BOOLEAN]

HistoryType ==
    [clean : [Nodes -> Time], last : [Nodes -> Time], view : [Nodes -> Views \cup {{}}],
     steady : [Nodes -> Time], occupied : [Nodes -> Time],
     alerted : Time, drained : Time, billed : Nat]

(* Every variable has its type, and no report, start or judgement is dated *)
(* after the present (jobState, Finding, Sample).                          *)
TypeOK ==
    /\ clock \in Nat
    /\ start \in Time /\ start <= clock
    /\ st \in StateType
    /\ finding \in FindingType
    /\ judged \in Time /\ judged <= clock
    /\ draining \in BOOLEAN
    /\ hist \in HistoryType
    /\ \A n \in Nodes : hist.last[n] <= clock

(* No breach is reported of a job unless every node's own reports, without *)
(* a hole, past the warmup of this incarnation and up to now, showed every *)
(* GPU readable and below the threshold for at least a window less one gap *)
(* (Observe, Drop, state and coverage together; README, "Covered window",  *)
(* "Gaps, staleness, outages" and "Requeue").                              *)
EvidenceSound ==
    Reported =>
        \A n \in Nodes :
            /\ hist.clean[n] # None
            /\ hist.clean[n] >= start + Warmup
            /\ hist.clean[n] <= judged - Window + MaxSampleGap
            /\ judged - hist.last[n] <= MaxSampleGap

(* A drain is asked for only if an earlier cycle alerted on the same       *)
(* unbroken record, and a Cancel only if, on that record, the alert came   *)
(* first, then a drain that was executed, then a Window (less the time the *)
(* drain took), with a covered window before the drain as well (Evaluate's *)
(* ladder; TestInvariant_NoEscalationWithoutContiguousEvidence).           *)
LadderEarned ==
    Reported =>
        /\ finding.verdict = Drain =>
              hist.alerted # None /\ hist.alerted < judged
        /\ finding.verdict = Cancel =>
              /\ hist.alerted # None /\ hist.drained # None
              /\ hist.alerted < hist.drained
              /\ judged - hist.drained >= Window - ActionDelay
              /\ \A n \in Nodes :
                    hist.clean[n] <= hist.drained - Window + MaxSampleGap

(* A job is called idle only if no report in the whole window, or since the*)
(* warmup, left open that a process was there (classify, summarize).       *)
IdleMeansEmpty ==
    Reported /\ finding.signature = "idle" =>
        \A n \in Nodes :
            \/ hist.occupied[n] = None
            \/ hist.occupied[n] < judged - Window
            \/ hist.occupied[n] < start + Warmup

(* Every report in the covered window named as many GPUs of its node as    *)
(* the others: none "saw fewer" and "may have missed the busy one" (the    *)
(* count per time in coverage).  That they named the same GPUs is SameSight*)
SteadySight ==
    Reported =>
        \A n \in Nodes : hist.steady[n] <= judged - Window + MaxSampleGap

(* The GPUs that the nodes' last reports named.                            *)
Viewed(view) == UNION {{n} \X view[n] : n \in Nodes}

(* The engine does not sleep: a job that was not at work for a full window *)
(* without a hole, each report naming enough GPUs, is reported by the very *)
(* cycle that completes the window (Observe keeps what coverage needs).    *)
BreachSeen ==
    /\ start # None /\ finding.start = start
    /\ \A n \in Nodes :
          /\ hist.clean[n] # None /\ hist.clean[n] <= judged - Window
          /\ hist.steady[n] <= judged - Window
    /\ Cardinality(Viewed(hist.view)) >= GPUCount
    => finding.verdict >= Watching

(* The waste counted for an incarnation is never more than its GPUs for    *)
(* all the time since its warmup: nothing is counted twice across breaches,*)
(* resets, drops and outages, and nothing from the warmup (accountedUntil).*)
WasteOnce ==
    start # None /\ hist.billed > 0 => hist.billed <= GPUCount * (clock - start - Warmup)

(* A drain that was executed is not asked for again while the record it    *)
(* was based on is unbroken (DrainConfirmed, "once per breach").           *)
DrainOncePerBreach ==
    draining /\ finding.start = start => hist.drained = None

-----------------------------------------------------------------------------
(***************************************************************************)
(* Why they hold: how the samples the engine keeps relate to the record.   *)
(***************************************************************************)
Current == start # None /\ st.startTime = start

(* The record begins after the warmup of the incarnation that runs, and    *)
(* there is none of an incarnation the engine has not met.                 *)
RecordInv ==
    \A n \in Nodes :
        hist.clean[n] # None =>
            /\ hist.clean[n] <= hist.last[n]
            /\ start # None => Current /\ start + Warmup <= hist.clean[n]

InRecord(s) == hist.clean[s.node] # None /\ hist.clean[s.node] <= s.at

BeforeBreak(s) == \E b \in OfNode(st.samples, s.node) : s.at <= b.at /\ Breaking(b.read)

BeforeHole(s) ==
    \E t \in OfNode(st.samples, s.node) :
        /\ s.at <= t.at /\ t.at < hist.last[s.node]
        /\ \A u \in OfNode(st.samples, s.node) : t.at < u.at => u.at - t.at > MaxSampleGap

(* A sample from before the record is followed, among the samples still    *)
(* kept, by what ended that earlier record: coverage is bound to find it.  *)
SamplesInv ==
    Current =>
        \A s \in st.samples :
            /\ start + Warmup <= s.at /\ s.at <= hist.last[s.node]
            /\ \E u \in OfNode(st.samples, s.node) : u.at = hist.last[s.node]
            /\ InRecord(s) \/ BeforeBreak(s) \/ BeforeHole(s)

FindingInv == finding.verdict >= Watching => finding.start # None

EvidenceInv == RecordInv /\ SamplesInv /\ FindingInv /\ EvidenceSound

(* What the engine remembers of the ladder is what was done on the record. *)
ConfirmedInv ==
    Current /\ st.drainConfirmedAt # None =>
        /\ hist.alerted # None /\ hist.alerted < st.drainConfirmedAt
        /\ st.drainConfirmedAt <= hist.drained
        /\ hist.drained <= st.drainConfirmedAt + ActionDelay
        /\ \A n \in Nodes :
              /\ hist.clean[n] # None
              /\ hist.clean[n] <= st.drainConfirmedAt - Window + MaxSampleGap

AlertedInv ==
    /\ hist.alerted <= judged
    /\ Current /\ st.lastVerdict >= Alert =>
          hist.alerted # None /\ \A n \in Nodes : hist.clean[n] # None

DrainingInv ==
    draining =>
        /\ finding.verdict = Drain
        /\ finding.start = st.startTime =>
              st.lastVerdict = Drain /\ st.drainConfirmedAt = None

LadderInv == ConfirmedInv /\ AlertedInv /\ DrainingInv /\ LadderEarned

-----------------------------------------------------------------------------
(***************************************************************************)
(* JobWatch implements Ladder: the engine's state of the job is the ladder,*)
(* and a drain is open from the cycle that asks for it until it is made,   *)
(* or the next cycle judges.                                               *)
(***************************************************************************)
L == INSTANCE Ladder WITH
        Wait      <- Window,
        rung      <- st.lastVerdict,
        asked     <- IF draining THEN judged ELSE None,
        drainedAt <- st.drainConfirmedAt

(* Whatever the evidence, the job and the daemon do, the job climbs one    *)
(* rung at a time, is drained once, and is cancelled only a Window after   *)
(* the time its drain is dated with (the comment of policy.go's Verdict).  *)
ClimbsLadder == L!Spec

-----------------------------------------------------------------------------
(***************************************************************************)
(* What the documentation says and the code does not keep in every         *)
(* configuration it accepts; the README tells what each run shows.         *)
(***************************************************************************)

(* "Cancel only after a Drain was confirmed executed at least one Window   *)
(* earlier" (policy.go, Verdict): a Window lies between the execution of   *)
(* the drain and the cycle that cancels.                                   *)
CancelWaits ==
    Reported /\ finding.verdict = Cancel =>
        hist.drained # None /\ judged - hist.drained >= Window

(* "One snapshot is never enough" (README): whatever is reported rests on  *)
(* at least two observations of every node.                                *)
TwoReports ==
    Reported => \A n \in Nodes : Cardinality(Times(st.samples, n)) >= 2

(* "Every observation of a node should see the same GPUs. One that saw     *)
(* fewer may have missed the busy one." (policy.go, coverage): the reports *)
(* of a node behind a finding named the same of its GPUs, not only as many.*)
Named(n, t) == {s.gpu : s \in {u \in OfNode(st.samples, n) : u.at = t}}

SameSight ==
    Reported =>
        \A n \in Nodes : \A t, u \in Times(st.samples, n) : Named(n, t) = Named(n, u)

=============================================================================
