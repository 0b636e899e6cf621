--------------------------- MODULE JobWatchProofs ---------------------------
(***************************************************************************)
(* Proofs about JobWatch, for every configuration, every set of nodes and  *)
(* GPUs, and a clock without bound.                                        *)
(***************************************************************************)
EXTENDS JobWatch, EngineProofs

USE DEF None, Healthy, Watching, Alert, Drain, Cancel

-----------------------------------------------------------------------------
(***************************************************************************)
(* Types.                                                                  *)
(***************************************************************************)

LEMMA BatchType ==
    ASSUME clock \in Nat, NEW report \in [Nodes -> Reports], NEW stamp \in Stamps
    PROVE  /\ stamp \in [Nodes -> Nat]
           /\ \A n \in Nodes : stamp[n] <= clock /\ stamp[n] >= clock - MaxLag
           /\ \A n \in Nodes : stamp[n] >= hist.last[n]
           /\ Batch(report, stamp) \subseteq SampleType
           /\ \A s \in Batch(report, stamp) :
                 /\ s.node \in Nodes
                 /\ s.at = stamp[s.node]
                 /\ s.gpu \in DOMAIN report[s.node]
                 /\ s.read = report[s.node][s.gpu]
           /\ \A n \in Nodes : \A g \in DOMAIN report[n] :
                 \E s \in Batch(report, stamp) :
                    s.node = n /\ s.gpu = g /\ s.at = stamp[n] /\ s.read = report[n][g]
           /\ \A n \in Nodes : DOMAIN report[n] # {} /\ DOMAIN report[n] \in Views
<1> DEFINE sample(n, g) == [seen |-> clock, at |-> stamp[n], node |-> n, gpu |-> g,
                            read |-> report[n][g]]
<1>1. MaxLag \in Nat
  BY WatchAssumption
<1>2. stamp \in [Nodes -> (clock - MaxLag) .. clock] /\ \A n \in Nodes : stamp[n] >= 0 /\ stamp[n] >= hist.last[n]
  BY DEF Stamps
<1>3. \A n \in Nodes : stamp[n] \in Nat /\ stamp[n] <= clock /\ stamp[n] >= clock - MaxLag
  BY <1>1, <1>2
<1>4. \A n \in Nodes : \E v \in Views : report[n] \in [v -> Readings]
  BY DEF Reports
<1>5. \A n \in Nodes : DOMAIN report[n] # {} /\ DOMAIN report[n] \in Views
  BY <1>4, WatchAssumption
<1>6. \A n \in Nodes : \A g \in DOMAIN report[n] : g \in UNION Views /\ report[n][g] \in Readings
  BY <1>4
<1>7. Batch(report, stamp) = UNION {{sample(n, g) : g \in DOMAIN report[n]} : n \in Nodes}
  BY Zenon DEF Batch
<1>8. \A s \in Batch(report, stamp) :
        \E n \in Nodes : \E g \in DOMAIN report[n] : s = sample(n, g)
  BY <1>7
<1>9. \A n \in Nodes : \A g \in DOMAIN report[n] : sample(n, g) \in Batch(report, stamp)
  BY <1>7
<1>10. Batch(report, stamp) \subseteq SampleType
  BY <1>3, <1>6, <1>8 DEF SampleType
<1>11. \A s \in Batch(report, stamp) :
          /\ s.node \in Nodes
          /\ s.at = stamp[s.node]
          /\ s.gpu \in DOMAIN report[s.node]
          /\ s.read = report[s.node][s.gpu]
  BY <1>8
<1>12. \A n \in Nodes : \A g \in DOMAIN report[n] :
          \E s \in Batch(report, stamp) :
             s.node = n /\ s.gpu = g /\ s.at = stamp[n] /\ s.read = report[n][g]
  BY <1>9
<1>13. stamp \in [Nodes -> Nat]
  BY <1>2, <1>3
<1> QED
  BY <1>2, <1>3, <1>5, <1>10, <1>11, <1>12, <1>13

LEMMA StatesOfTypes ==
    /\ NoState \in StateType
    /\ \A t \in Time : FreshState(t) \in StateType
    /\ \A s \in StateType : Reset(s) \in StateType
<1>1. \A t \in Time : FreshState(t) \in StateType
  BY DEF FreshState, StateType, Time, Verdicts
<1>2. NoState \in StateType
  BY <1>1 DEF NoState, Time
<1>3. ASSUME NEW s \in StateType PROVE Reset(s) \in StateType
  <2>1. None \in Time /\ Healthy \in Verdicts
    BY DEF Time, Verdicts
  <2> QED
    BY <2>1 DEF Reset, StateType
<1> QED
  BY <1>1, <1>2, <1>3

LEMMA NothingType == \A job : job.start \in Time => Nothing(job) \in FindingType
  BY DEF Nothing, FindingType, Verdicts, Signatures

LEMMA ObserveType ==
    ASSUME NEW s \in StateType, NEW job, job.start \in Time,
           NEW batch, batch \subseteq SampleType, NEW now
    PROVE  Observe(s, job, batch, now) \in StateType
<1>1. StateOf(s, job) \in StateType
  BY StatesOfTypes DEF StateOf
<1>2. Admitted(job, batch) \subseteq SampleType
  BY DEF Admitted
<1> QED
  BY <1>1, <1>2 DEF Observe, InWindow, StateType

LEMMA WasteIsNat ==
    ASSUME NEW s \in StateType, NEW job, job.gpuCount \in Nat, NEW now \in Nat,
           BreachStart(s) \in Nat
    PROVE  Wasted(s, job, now) \in Nat
<1>1. IsFiniteSet(Nodes \X UNION Views)
  BY WatchAssumption, FS_Product
<1>2. GPUsSeen(s.samples) \subseteq Nodes \X UNION Views
  BY DEF GPUsSeen, StateType, SampleType
<1>3. Cardinality(GPUsSeen(s.samples)) \in Nat
  BY <1>1, <1>2, FS_Subset, FS_CardinalityType
<1>4. \A a, b \in Nat : a * b \in Nat
  OBVIOUS
<1> QED
  BY <1>3, <1>4 DEF Wasted, StateType, Time

LEMMA BreachVerdictType ==
    ASSUME NEW s \in StateType, NEW now \in Nat, s.samples # {}
    PROVE  BreachStart(s) \in Nat /\ BreachVerdict(s, now) \in Watching .. Cancel
<1>1. BreachStart(s) \in Nat
  BY FirstIsEarliest DEF BreachStart, StateType, SampleType, Time
<1>2. now - BreachStart(s) \in Int
  BY <1>1
<1> QED
  BY <1>1, <1>2, StageIsBreach, CappedIsBreach, LadderedIsBreach DEF BreachVerdict

LEMMA EvaluateType ==
    ASSUME NEW s \in StateType, NEW job, job.start \in Time, job.gpuCount \in Nat,
           NEW now \in Nat
    PROVE  /\ Evaluate(s, job, now).state \in StateType
           /\ Evaluate(s, job, now).finding \in FindingType
<1>1. Reset(s) \in StateType /\ NoState \in StateType /\ Nothing(job) \in FindingType
  BY StatesOfTypes, NothingType
<1>2. [Nothing(job) EXCEPT !.recovered = (s.drainConfirmedAt # None)] \in FindingType
  BY <1>1 DEF FindingType
<1>3. ASSUME s.samples # {}
      PROVE  /\ Breach(s, job, now).state \in StateType
             /\ Breach(s, job, now).finding \in FindingType
  <2>1. BreachStart(s) \in Nat
    BY <1>3, BreachVerdictType
  <2>2. BreachVerdict(s, now) \in Verdicts
    BY <1>3, BreachVerdictType DEF Verdicts
  <2>3. Wasted(s, job, now) \in Nat
    BY <2>1, WasteIsNat
  <2>4. Classify(s.samples) \in Signatures
    BY ClassifyIsSignature
  <2> QED
    BY <2>1, <2>2, <2>3, <2>4 DEF Breach, Result, StateType, FindingType, Time
<1> QED
  BY <1>1, <1>2, <1>3, EvaluateCases DEF Result

LEMMA RememberType ==
    ASSUME TypeOK, NEW report \in [Nodes -> Reports], NEW stamp \in Stamps,
           NEW from \in Int, NEW f \in FindingType
    PROVE  Remember(hist, report, stamp, clock, from, f) \in HistoryType
<1>1. /\ stamp \in [Nodes -> Nat]
      /\ \A n \in Nodes : DOMAIN report[n] \in Views
  BY BatchType DEF TypeOK
<1>2. hist \in HistoryType /\ clock \in Nat
  BY DEF TypeOK
<1>3. [n \in Nodes |-> CleanAfter(hist, report, stamp, from, n)] \in [Nodes -> Time]
  BY <1>1, <1>2 DEF CleanAfter, HistoryType, Time
<1>4. [n \in Nodes |-> SteadyAfter(hist, report, stamp, from, n)] \in [Nodes -> Time]
  BY <1>1, <1>2 DEF SteadyAfter, HistoryType, Time
<1>5. hist.billed + f.wasted \in Nat
  BY <1>2 DEF HistoryType, FindingType
<1> QED
  BY <1>1, <1>2, <1>3, <1>4, <1>5 DEF Remember, HistoryType, Time

(* The fields of the history a report leaves behind.                       *)
LEMMA RememberFields ==
    ASSUME NEW h, NEW report, NEW stamp, NEW now, NEW from, NEW f
    PROVE  /\ \A n \in Nodes : Remember(h, report, stamp, now, from, f).clean[n] =
                                  CleanAfter(h, report, stamp, from, n)
           /\ Remember(h, report, stamp, now, from, f).last = stamp
           /\ Remember(h, report, stamp, now, from, f).clean = h.clean =>
                 /\ Remember(h, report, stamp, now, from, f).drained = h.drained
                 /\ Remember(h, report, stamp, now, from, f).alerted = IF f.verdict >= Alert /\ h.alerted = None
                                THEN now ELSE h.alerted
           /\ Remember(h, report, stamp, now, from, f).clean # h.clean =>
                 /\ Remember(h, report, stamp, now, from, f).drained = None
                 /\ Remember(h, report, stamp, now, from, f).alerted = IF f.verdict >= Alert THEN now ELSE None
  BY DEF Remember

LEMMA BrokenType == \A h \in HistoryType : Broken(h) \in HistoryType /\ [Broken(h) EXCEPT !.billed = 0] \in HistoryType
  BY DEF Broken, NoRecord, HistoryType, Time

LEMMA TypeInit == Init => TypeOK
<1> SUFFICES ASSUME Init PROVE TypeOK
  OBVIOUS
<1>1. NoState \in StateType
  BY StatesOfTypes
<1>2. NoFinding \in FindingType
  BY NothingType DEF NoFinding, Time
<1>3. NoRecord \in HistoryType
  BY DEF NoRecord, HistoryType, Time
<1>4. \A n \in Nodes : NoRecord.last[n] <= 0
  BY DEF NoRecord
<1>5. draining \in BOOLEAN
  BY Zenon DEF Init
<1> QED
  BY <1>1, <1>2, <1>3, <1>4, <1>5 DEF Init, TypeOK, Time

(* What a cycle computes, named once for the proofs.                       *)
Observed(report, stamp, exempt) ==
    Observe(st, JobOf(start, exempt), Batch(report, stamp), clock)

Answer(report, stamp, exempt) ==
    Evaluate(Observed(report, stamp, exempt), JobOf(start, exempt), clock)

LEMMA JudgeType ==
    ASSUME TypeOK, start # None, NEW report \in [Nodes -> Reports], NEW stamp \in Stamps,
           NEW exempt \in ExemptAnswers
    PROVE  /\ Observed(report, stamp, exempt) \in StateType
           /\ Answer(report, stamp, exempt).state \in StateType
           /\ Answer(report, stamp, exempt).finding \in FindingType
           /\ Remember(hist, report, stamp, clock, start + Warmup, Answer(report, stamp, exempt).finding)
                 \in HistoryType
<1>1. start \in Nat /\ clock \in Nat /\ st \in StateType
  BY DEF TypeOK, Time
<1>2. /\ JobOf(start, exempt).start \in Time
      /\ JobOf(start, exempt).gpuCount \in Nat
  BY <1>1, WatchAssumption DEF JobOf, Time
<1>3. Observed(report, stamp, exempt) \in StateType
  BY <1>1, <1>2, BatchType, ObserveType DEF Observed
<1>4. /\ Answer(report, stamp, exempt).state \in StateType
      /\ Answer(report, stamp, exempt).finding \in FindingType
  BY <1>1, <1>2, <1>3, EvaluateType DEF Answer
<1>5. start + Warmup \in Int
  BY <1>1, ThresholdsAssumption
<1> QED
  BY <1>3, <1>4, <1>5, RememberType

LEMMA JudgeAs ==
    ASSUME NEW report, NEW stamp, NEW exempt, Judge(report, stamp, exempt)
    PROVE  /\ st' = Answer(report, stamp, exempt).state
           /\ finding' = Answer(report, stamp, exempt).finding
           /\ judged' = clock
           /\ draining' = (finding'.verdict = Drain /\ ~finding'.drainConfirmed)
           /\ hist' = Remember(hist, report, stamp, clock, start + Warmup,
                              Answer(report, stamp, exempt).finding)
  BY DEF Judge, Answer, Observed

LEMMA TypeStep == TypeOK /\ [Next]_vars => TypeOK'
<1> SUFFICES ASSUME TypeOK, [Next]_vars PROVE TypeOK'
  OBVIOUS
<1> USE DEF Time
<1>1. CASE Tick
  <2>1. draining' \in BOOLEAN
    BY <1>1, Zenon DEF Tick, TypeOK
  <2> QED
    BY <1>1, <2>1 DEF Tick, TypeOK, HistoryType
<1>2. CASE Cycle
  <2>1. PICK report \in [Nodes -> Reports], stamp \in Stamps, exempt \in ExemptAnswers :
           Judge(report, stamp, exempt)
    BY <1>2 DEF Cycle
  <2>2. start # None /\ clock' = clock /\ start' = start
    BY <1>2 DEF Cycle
  <2>3. st' \in StateType /\ finding' \in FindingType /\ hist' \in HistoryType
    BY <2>1, <2>2, JudgeType, JudgeAs
  <2>4. \A n \in Nodes : hist'.last[n] <= clock
    <3>1. hist' = Remember(hist, report, stamp, clock, start + Warmup, Answer(report, stamp, exempt).finding)
      BY <2>1, JudgeAs
    <3>2. Remember(hist, report, stamp, clock, start + Warmup, Answer(report, stamp, exempt).finding).last = stamp
      BY RememberFields
    <3>3. hist'.last = stamp
      BY <3>1, <3>2, Zenon
    <3>4. \A n \in Nodes : stamp[n] <= clock
      BY BatchType DEF TypeOK
    <3> QED
      BY <3>4, <3>3
  <2>5. draining' \in BOOLEAN
    BY <2>1, JudgeAs, Zenon
  <2>6. judged' = clock
    BY <2>1, JudgeAs
  <2> QED
    BY <2>2, <2>3, <2>4, <2>5, <2>6 DEF TypeOK
<1>3. CASE CycleWithoutStart
  <2>1. PICK job : /\ job = JobOf(None, FALSE)
                   /\ st' = Evaluate(Observe(st, job, {}, clock), job, clock).state
                   /\ finding' = Evaluate(Observe(st, job, {}, clock), job, clock).finding
    BY <1>3 DEF CycleWithoutStart
  <2>2. job.start \in Time /\ job.gpuCount \in Nat
    BY <2>1, WatchAssumption DEF JobOf
  <2>3. Observe(st, job, {}, clock) \in StateType
    BY <2>2, ObserveType DEF TypeOK
  <2>4. st' \in StateType /\ finding' \in FindingType
    BY <2>1, <2>2, <2>3, EvaluateType DEF TypeOK
  <2>5. hist' \in HistoryType /\ \A n \in Nodes : hist'.last[n] <= clock
    BY <1>3, BrokenType DEF CycleWithoutStart, TypeOK, Broken, NoRecord
  <2>6. draining' \in BOOLEAN
    BY <1>3, Zenon DEF CycleWithoutStart
  <2> QED
    <3>1. judged' = clock /\ clock' = clock /\ start' = start
      BY <1>3 DEF CycleWithoutStart
    <3> QED
      BY <3>1, <2>4, <2>5, <2>6 DEF TypeOK
<1>4. CASE DrainExecuted
  <2>1. st' \in StateType
    BY <1>4 DEF DrainExecuted, ConfirmDrain, TypeOK, StateType
  <2>2. hist' \in HistoryType /\ hist'.last = hist.last
    BY <1>4 DEF DrainExecuted, TypeOK, HistoryType
  <2>3. draining' \in BOOLEAN
    BY <1>4, Zenon DEF DrainExecuted
  <2> QED
    BY <1>4, <2>1, <2>2, <2>3 DEF DrainExecuted, TypeOK
<1>5. CASE Drop \/ Forget \/ Restart
  <2>1. st' \in StateType /\ finding' \in FindingType
    BY <1>5, StatesOfTypes, NothingType DEF Drop, Forget, Restart, NoFinding
  <2>2. hist' \in HistoryType /\ \A n \in Nodes : hist'.last[n] <= clock
    BY <1>5, BrokenType DEF Drop, Forget, Restart, TypeOK, Broken, NoRecord
  <2>3. draining' \in BOOLEAN
    BY <1>5, Zenon DEF Drop, Forget, Restart
  <2> QED
    BY <1>5, <2>1, <2>2, <2>3 DEF Drop, Forget, Restart, TypeOK
<1>6. CASE End
  <2>1. draining' \in BOOLEAN
    BY <1>6, Zenon DEF End, TypeOK
  <2> QED
    BY <1>6, <2>1 DEF End, TypeOK
<1>7. CASE Requeue
  <2>1. hist' \in HistoryType /\ \A n \in Nodes : hist'.last[n] <= clock
    BY <1>7, BrokenType DEF Requeue, TypeOK, Broken, NoRecord
  <2>2. draining' \in BOOLEAN
    BY <1>7, Zenon DEF Requeue, TypeOK
  <2> QED
    BY <1>7, <2>1, <2>2 DEF Requeue, TypeOK
<1>8. CASE UNCHANGED vars
  <2>1. draining' \in BOOLEAN
    BY <1>8, Zenon DEF vars, TypeOK
  <2> QED
    BY <1>8, <2>1 DEF vars, TypeOK
<1> QED
  BY <1>1, <1>2, <1>3, <1>4, <1>5, <1>6, <1>7, <1>8 DEF Next

(* The engine's memory, its findings and the history always have their     *)
(* types, and nothing is dated after the present.                          *)
THEOREM TypeCorrect == Spec => []TypeOK
  BY TypeInit, TypeStep, PTL DEF Spec

-----------------------------------------------------------------------------
(***************************************************************************)
(* Evidence.                                                               *)
(***************************************************************************)

(* What Observe leaves: the samples of this incarnation and the report's,  *)
(* past the warmup and inside the window.                                  *)
LEMMA ObservedSamples ==
    ASSUME TypeOK, start # None, NEW report, NEW stamp, NEW exempt
    PROVE  /\ Observed(report, stamp, exempt).startTime = start
           /\ \A s : s \in Observed(report, stamp, exempt).samples <=>
                 /\ s.at >= clock - Window
                 /\ \/ st.startTime = start /\ s \in st.samples
                    \/ s \in Batch(report, stamp) /\ s.at >= start + Warmup
<1> DEFINE job == JobOf(start, exempt)
           batch == Batch(report, stamp)
<1> USE DEF TypeOK, StateType
<1>1. job.start = start
  BY DEF JobOf
<1>2. \A s : s \in Admitted(job, batch) <=> s \in batch /\ s.at >= start + Warmup
  BY <1>1 DEF Admitted
<1>3. StateOf(st, job).startTime = start
  BY <1>1 DEF StateOf, FreshState
<1>4. \A s : s \in StateOf(st, job).samples <=> st.startTime = start /\ s \in st.samples
  BY <1>1 DEF StateOf, FreshState
<1> QED
  BY <1>2, <1>3, <1>4 DEF Observed, Observe, InWindow

(* What a cycle answers: nothing, with the state kept or reset, or a       *)
(* breach, which rests on samples that cover the window with none at work. *)
LEMMA AnswerCases ==
    ASSUME TypeOK, start # None, NEW report \in [Nodes -> Reports], NEW stamp \in Stamps,
           NEW exempt \in ExemptAnswers,
           NEW O, O = Observed(report, stamp, exempt),
           NEW A, A = Answer(report, stamp, exempt)
    PROVE  /\ A.state.startTime = start
           /\ A.state.samples = O.samples
           /\ A.finding.start = start
           /\ \/ /\ A.finding.verdict = Healthy
                 /\ A.state.lastVerdict = Healthy
                 /\ A.state.drainConfirmedAt = None
              \/ /\ A.finding.verdict = Healthy
                 /\ A.state.lastVerdict = O.lastVerdict
                 /\ A.state.drainConfirmedAt = O.drainConfirmedAt
                 /\ exempt \/ clock - start < Warmup \/ O.samples = {}
              \/ /\ A.finding.verdict = BreachVerdict(O, clock)
                 /\ A.finding.verdict \in Watching .. Cancel
                 /\ A.state.lastVerdict = BreachVerdict(O, clock)
                 /\ A.state.drainConfirmedAt = O.drainConfirmedAt
                 /\ A.finding.drainConfirmed = (O.drainConfirmedAt # None)
                 /\ Covered(O.samples, Nodes, GPUCount, clock)
                 /\ ~Alive(O.samples)
<1> DEFINE job == JobOf(start, exempt)
<1>1. /\ job.start = start /\ job.nodes = Nodes /\ job.gpuCount = GPUCount
      /\ job.exempt = exempt /\ GPUCount # 0
  BY WatchAssumption DEF JobOf
<1>2. O.startTime = start /\ O \in StateType
  BY ObservedSamples, JudgeType
<1>3. A = Evaluate(O, job, clock)
  BY DEF Answer
<1>4. Nothing(job).verdict = Healthy /\ Nothing(job).start = start
  BY <1>1 DEF Nothing
<1>5. /\ Reset(O).startTime = start /\ Reset(O).samples = O.samples
      /\ Reset(O).lastVerdict = Healthy /\ Reset(O).drainConfirmedAt = None
  BY <1>2 DEF Reset, StateType
<1>6. CASE A = Result(O, Nothing(job)) /\ (exempt \/ clock - start < Warmup \/ O.samples = {})
  BY <1>2, <1>4, <1>6, ResultFields
<1>7. CASE A = Result(Reset(O), Nothing(job))
  BY <1>4, <1>5, <1>7, ResultFields
<1>8. CASE A = Result(Reset(O), [Nothing(job) EXCEPT !.recovered = (O.drainConfirmedAt # None)])
  <2> DEFINE calm == [Nothing(job) EXCEPT !.recovered = (O.drainConfirmedAt # None)]
  <2>1. calm.verdict = Healthy /\ calm.start = start
    BY <1>1 DEF Nothing
  <2>2. A = Result(Reset(O), calm)
    BY <1>8
  <2> HIDE DEF calm
  <2>3. A.state = Reset(O) /\ A.finding = calm
    BY <2>2, ResultFields
  <2> QED
    BY <1>5, <2>1, <2>3
<1>9. CASE /\ A = Breach(O, job, clock)
           /\ O.samples # {}
           /\ Covered(O.samples, job.nodes, job.gpuCount, clock)
           /\ ~Alive(O.samples)
  <2>1. /\ A.state.startTime = start /\ A.state.samples = O.samples
        /\ A.state.lastVerdict = BreachVerdict(O, clock)
        /\ A.state.drainConfirmedAt = O.drainConfirmedAt
    <3>1. A.state = [O EXCEPT !.breachedSince = BreachStart(O), !.accountedUntil = clock,
                              !.lastVerdict = BreachVerdict(O, clock)]
      BY <1>9, ResultFields DEF Breach
    <3> HIDE DEF job
    <3> QED
      BY <1>2, <3>1 DEF StateType
  <2>2. /\ A.finding.start = start
        /\ A.finding.verdict = BreachVerdict(O, clock)
        /\ A.finding.drainConfirmed = (O.drainConfirmedAt # None)
    BY <1>1, <1>9 DEF Breach, Result
  <2>3. BreachVerdict(O, clock) \in Watching .. Cancel
    BY <1>2, <1>9, BreachVerdictType DEF TypeOK
  <2> QED
    BY <1>1, <1>9, <2>1, <2>2, <2>3
<1> QED
  BY <1>1, <1>2, <1>3, <1>6, <1>7, <1>8, <1>9, EvaluateCases

(* What a cycle makes of the samples and of the record.                    *)
LEMMA CycleEffect ==
    ASSUME TypeOK, start # None, start' = start, clock' = clock,
           NEW report \in [Nodes -> Reports], NEW stamp \in Stamps,
           NEW exempt \in ExemptAnswers, Judge(report, stamp, exempt)
    PROVE  /\ st'.startTime = start
           /\ \A s : s \in st'.samples <=>
                 /\ s.at >= clock - Window
                 /\ \/ st.startTime = start /\ s \in st.samples
                    \/ s \in Batch(report, stamp) /\ s.at >= start + Warmup
           /\ hist'.last = stamp
           /\ \A n \in Nodes :
                 hist'.clean[n] = CleanAfter(hist, report, stamp, start + Warmup, n)
<1>1. /\ st' = Answer(report, stamp, exempt).state
      /\ hist' = Remember(hist, report, stamp, clock, start + Warmup,
                          Answer(report, stamp, exempt).finding)
  BY JudgeAs
<1>2. /\ Answer(report, stamp, exempt).state.startTime = start
      /\ Answer(report, stamp, exempt).state.samples = Observed(report, stamp, exempt).samples
  BY AnswerCases
<1>3. /\ hist'.last = stamp
      /\ \A n \in Nodes :
            hist'.clean[n] = CleanAfter(hist, report, stamp, start + Warmup, n)
  BY <1>1, RememberFields
<1> QED
  BY <1>1, <1>2, <1>3, ObservedSamples

LEMMA RecordKept ==
    ASSUME TypeOK, RecordInv, start # None, start' = start, clock' = clock,
           NEW report \in [Nodes -> Reports], NEW stamp \in Stamps,
           NEW exempt \in ExemptAnswers, Judge(report, stamp, exempt)
    PROVE  RecordInv'
<1>1. SUFFICES ASSUME NEW n \in Nodes, hist'.clean[n] # None
               PROVE  /\ hist'.clean[n] <= hist'.last[n]
                      /\ start + Warmup <= hist'.clean[n]
                      /\ st'.startTime = start
  BY DEF RecordInv, Current
<1>2. /\ st'.startTime = start
      /\ hist'.last[n] = stamp[n]
      /\ hist'.clean[n] = CleanAfter(hist, report, stamp, start + Warmup, n)
  BY CycleEffect
<1>3. /\ stamp[n] \in Nat /\ stamp[n] >= hist.last[n]
      /\ hist.last[n] \in Int /\ hist.clean[n] \in Int
      /\ start \in Nat /\ Warmup \in Nat
  BY BatchType, ThresholdsAssumption DEF TypeOK, HistoryType, Time
<1>4. hist.clean[n] # None => hist.clean[n] <= hist.last[n] /\ start + Warmup <= hist.clean[n]
  BY DEF RecordInv
<1> QED
  BY <1>1, <1>2, <1>3, <1>4 DEF CleanAfter

(* A sample that Observe keeps stays in the record, or what ended its      *)
(* record is kept with it: whatever is kept of a node is younger than it.  *)
LEMMA SamplesKept ==
    ASSUME TypeOK, RecordInv, SamplesInv, start # None, start' = start, clock' = clock,
           NEW report \in [Nodes -> Reports], NEW stamp \in Stamps,
           NEW exempt \in ExemptAnswers, Judge(report, stamp, exempt)
    PROVE  SamplesInv'
<1>1. /\ \A s : s \in st'.samples <=>
             /\ s.at >= clock - Window
             /\ \/ Current /\ s \in st.samples
                \/ s \in Batch(report, stamp) /\ s.at >= start + Warmup
      /\ hist'.last = stamp
      /\ \A n \in Nodes :
            hist'.clean[n] = CleanAfter(hist, report, stamp, start + Warmup, n)
  BY CycleEffect DEF Current
<1>2. SUFFICES ASSUME NEW s \in st'.samples
               PROVE  /\ start + Warmup <= s.at /\ s.at <= stamp[s.node]
                      /\ \E u \in OfNode(st'.samples, s.node) : u.at = stamp[s.node]
                      /\ InRecord(s)' \/ BeforeBreak(s)' \/ BeforeHole(s)'
  BY <1>1 DEF SamplesInv
<1> DEFINE n == s.node
           from == start + Warmup
<1>3. /\ start \in Nat /\ Warmup \in Nat /\ clock \in Nat /\ Window \in Nat /\ MaxSampleGap \in Nat
      /\ st.samples \subseteq SampleType /\ Batch(report, stamp) \subseteq SampleType
      /\ \A m \in Nodes : hist.last[m] \in Int /\ hist.clean[m] \in Int
      /\ \A m \in Nodes : stamp[m] \in Nat /\ stamp[m] >= hist.last[m]
  BY BatchType, ThresholdsAssumption DEF TypeOK, HistoryType, StateType, Time
<1>4. n \in Nodes /\ s.at \in Nat
  BY <1>1, <1>3 DEF SampleType
<1>5. \A b \in Batch(report, stamp) : b.at = stamp[b.node]
  BY BatchType DEF TypeOK
<1>6. \E g \in DOMAIN report[n] : TRUE
  BY <1>4, BatchType DEF TypeOK
<1>7. \A g \in DOMAIN report[n] : \E b \in Batch(report, stamp) :
         b.node = n /\ b.at = stamp[n] /\ b.read = report[n][g]
  BY <1>4, BatchType DEF TypeOK
<1>8. RecordInv'
  BY RecordKept
<1>9. s.at >= clock - Window
  BY <1>1
<1>10. from <= s.at /\ s.at <= stamp[n]
  BY <1>1, <1>3, <1>4, <1>5 DEF SamplesInv
<1>11. stamp[n] >= from /\ stamp[n] >= clock - Window
  BY <1>3, <1>4, <1>9, <1>10
<1>12. \A b \in Batch(report, stamp) : b.node = n => b \in OfNode(st'.samples, n)
  BY <1>1, <1>5, <1>11 DEF OfNode
<1>13. \E u \in OfNode(st'.samples, n) : u.at = stamp[n]
  BY <1>6, <1>7, <1>12
<1>14. \A b : b \in OfNode(st'.samples, n) =>
          (b \in OfNode(st.samples, n) /\ Current) \/ b.at = stamp[n]
  BY <1>1, <1>5 DEF OfNode
<1>15. \A b \in OfNode(st.samples, n) :
          Current /\ s.at <= b.at => b \in OfNode(st'.samples, n)
  BY <1>1, <1>3, <1>4, <1>9 DEF OfNode, SampleType
<1>16. CASE \E g \in DOMAIN report[n] : Breaking(report[n][g])
  <2>1. PICK b \in OfNode(st'.samples, n) : b.at = stamp[n] /\ Breaking(b.read)
    BY <1>7, <1>12, <1>16
  <2>2. BeforeBreak(s)'
    BY <1>10, <2>1 DEF BeforeBreak
  <2> QED
    BY <1>10, <1>13, <2>2
<1>17. CASE ~ \E g \in DOMAIN report[n] : Breaking(report[n][g])
  <2>1. hist'.clean[n] = IF hist.clean[n] = None \/ stamp[n] - hist.last[n] > MaxSampleGap
                         THEN stamp[n] ELSE hist.clean[n]
    BY <1>1, <1>3, <1>4, <1>11, <1>17 DEF CleanAfter
  <2>2. CASE s.at = stamp[n]
    <3>1. hist'.clean[n] # None
      BY <1>3, <1>4, <2>1
    <3>2. hist'.clean[n] <= stamp[n]
      BY <1>1, <1>4, <1>8, <3>1 DEF RecordInv
    <3>3. InRecord(s)'
      BY <2>2, <3>1, <3>2 DEF InRecord
    <3> QED
      BY <1>10, <1>13, <3>3
  <2>3. CASE s.at # stamp[n]
    <3>1. Current /\ s \in st.samples
      BY <1>1, <1>5, <2>3
    <3>2. s.at <= hist.last[n] /\ \E u \in OfNode(st.samples, n) : u.at = hist.last[n]
      BY <3>1 DEF SamplesInv
    <3>3. CASE BeforeBreak(s)
      <4>1. PICK b \in OfNode(st.samples, n) : s.at <= b.at /\ Breaking(b.read)
        BY <3>3 DEF BeforeBreak
      <4>2. BeforeBreak(s)'
        BY <1>15, <3>1, <4>1 DEF BeforeBreak
      <4> QED
        BY <1>10, <1>13, <4>2
    <3>4. CASE BeforeHole(s)
      <4>1. PICK t \in OfNode(st.samples, n) :
               /\ s.at <= t.at /\ t.at < hist.last[n]
               /\ \A u \in OfNode(st.samples, n) : t.at < u.at => u.at - t.at > MaxSampleGap
        BY <3>4 DEF BeforeHole
      <4>2. t \in OfNode(st'.samples, n) /\ t.at \in Nat
        BY <1>3, <1>15, <3>1, <4>1 DEF OfNode, SampleType
      <4>3. hist.last[n] - t.at > MaxSampleGap
        BY <3>2, <4>1
      <4>4. t.at < stamp[n] /\ stamp[n] - t.at > MaxSampleGap
        BY <1>3, <1>4, <4>1, <4>2, <4>3
      <4>5. \A u \in OfNode(st'.samples, n) : t.at < u.at => u.at - t.at > MaxSampleGap
        BY <1>14, <4>1, <4>4
      <4>6. BeforeHole(s)'
        BY <1>1, <4>1, <4>2, <4>4, <4>5 DEF BeforeHole
      <4> QED
        BY <1>10, <1>13, <4>6
    <3>5. CASE InRecord(s) /\ stamp[n] - hist.last[n] <= MaxSampleGap
      <4>1. hist'.clean[n] = hist.clean[n]
        BY <1>3, <1>4, <2>1, <3>5 DEF InRecord
      <4>2. InRecord(s)'
        BY <3>5, <4>1 DEF InRecord
      <4> QED
        BY <1>10, <1>13, <4>2
    <3>6. CASE stamp[n] - hist.last[n] > MaxSampleGap
      <4>1. PICK t \in OfNode(st.samples, n) : t.at = hist.last[n]
        BY <3>2
      <4>2. t \in OfNode(st'.samples, n) /\ s.at <= t.at
        BY <1>15, <3>1, <3>2, <4>1
      <4>3. \A u \in OfNode(st.samples, n) : Current => u.at <= hist.last[n]
        BY DEF SamplesInv, OfNode
      <4>4. t.at < stamp[n]
        BY <1>3, <1>4, <3>6, <4>1
      <4>5. \A u \in OfNode(st.samples, n) : ~(Current /\ t.at < u.at)
        BY <1>3, <1>4, <4>1, <4>3 DEF OfNode, SampleType
      <4>6. \A u \in OfNode(st'.samples, n) : t.at < u.at => u.at - t.at > MaxSampleGap
        BY <1>14, <3>6, <4>1, <4>5
      <4>7. BeforeHole(s)'
        BY <1>1, <4>2, <4>4, <4>6 DEF BeforeHole
      <4> QED
        BY <1>10, <1>13, <4>7
    <3>7. InRecord(s) \/ BeforeBreak(s) \/ BeforeHole(s)
      BY <3>1 DEF SamplesInv
    <3>8. stamp[n] - hist.last[n] <= MaxSampleGap \/ stamp[n] - hist.last[n] > MaxSampleGap
      BY <1>3, <1>4
    <3> QED
      BY <3>3, <3>4, <3>5, <3>6, <3>7, <3>8
  <2> QED
    BY <2>2, <2>3
<1> QED
  BY <1>16, <1>17

(* Where samples cover the window and none shows work, all of them are of  *)
(* the record: coverage refutes both ways a sample can be from before it.  *)
LEMMA CoveredAllRecord ==
    ASSUME TypeOK', SamplesInv', Current', NEW now,
           Covered(st'.samples, Nodes, GPUCount, now), ~Alive(st'.samples),
           NEW s \in st'.samples
    PROVE  InRecord(s)'
<1> DEFINE n == s.node
           of == OfNode(st'.samples, n)
<1>1. /\ st'.samples \subseteq SampleType /\ hist' \in HistoryType
      /\ MaxSampleGap \in Nat
  BY ThresholdsAssumption DEF TypeOK, StateType
<1>2. n \in Nodes /\ s \in of /\ s.at \in Nat /\ hist'.last[n] \in Int
  BY <1>1 DEF SampleType, HistoryType, Time, OfNode
<1>3. AllJudgeable(st'.samples) /\ NoHole(st'.samples, n)
  BY <1>2 DEF Covered
<1>4. \A u \in of : u \in st'.samples /\ u.node = n /\ u.at \in Nat
  BY <1>1 DEF OfNode, SampleType
<1>5. ~BeforeBreak(s)'
  BY <1>3, <1>4 DEF BeforeBreak, AllJudgeable, Alive, Breaking
<1>6. PICK l \in of : l.at = hist'.last[n]
  BY DEF SamplesInv
<1>7. ~BeforeHole(s)'
  <2> SUFFICES ASSUME NEW t \in of, t.at < hist'.last[n],
                      \A u \in of : t.at < u.at => u.at - t.at > MaxSampleGap
               PROVE  FALSE
    BY DEF BeforeHole
  <2>1. t.at \in Times(st'.samples, n) /\ l.at \in Times(st'.samples, n)
    BY <1>6 DEF Times
  <2>2. \E v \in Times(st'.samples, n) : t.at < v /\ v - t.at <= MaxSampleGap
    BY <1>3, <1>6, <2>1 DEF NoHole
  <2>3. PICK u \in of : t.at < u.at /\ u.at - t.at <= MaxSampleGap
    BY <2>2 DEF Times
  <2> QED
    BY <1>1, <1>4, <2>3
<1> QED
  BY <1>5, <1>7 DEF SamplesInv

(* Such a record spans the window.                                         *)
LEMMA CoveredIsRecord ==
    ASSUME TypeOK', RecordInv', SamplesInv', Current', NEW now \in Nat,
           Covered(st'.samples, Nodes, GPUCount, now), ~Alive(st'.samples),
           NEW n \in Nodes
    PROVE  /\ hist'.clean[n] # None
           /\ hist'.clean[n] >= start' + Warmup
           /\ hist'.clean[n] <= now - Window + MaxSampleGap
           /\ now - hist'.last[n] <= MaxSampleGap
<1>1. /\ st'.samples \subseteq SampleType
      /\ hist'.clean[n] \in Int /\ hist'.last[n] \in Int /\ start' \in Nat
      /\ Window \in Nat /\ MaxSampleGap \in Nat /\ Warmup \in Nat
  BY ThresholdsAssumption DEF TypeOK, StateType, HistoryType, Time, Current
<1>2. /\ AllJudgeable(st'.samples)
      /\ Fresh(st'.samples, n, now)
      /\ ReachesBack(st'.samples, n, now)
  BY DEF Covered
<1>3. PICK s \in OfNode(st'.samples, n) : s.at <= now - Window + MaxSampleGap
  BY <1>2 DEF ReachesBack, Times
<1>4. PICK f \in OfNode(st'.samples, n) : now - f.at <= MaxSampleGap
  BY <1>2 DEF Fresh, Times
<1>5. \A u \in OfNode(st'.samples, n) :
         u \in st'.samples /\ u.node = n /\ u.at \in Nat /\ u.at <= hist'.last[n]
  BY <1>1 DEF OfNode, SampleType, SamplesInv
<1>6. InRecord(s)'
  BY <1>3, <1>5, CoveredAllRecord
<1>7. hist'.clean[n] # None /\ hist'.clean[n] <= s.at
  BY <1>3, <1>5, <1>6 DEF InRecord
<1>8. hist'.clean[n] >= start' + Warmup
  BY <1>7 DEF RecordInv, Current
<1> QED
  BY <1>1, <1>3, <1>4, <1>5, <1>7, <1>8

(* A cycle that reports has covered samples, none of them at work.         *)
LEMMA ReportIsCovered ==
    ASSUME TypeOK, start # None,
           NEW report \in [Nodes -> Reports], NEW stamp \in Stamps,
           NEW exempt \in ExemptAnswers, Judge(report, stamp, exempt),
           finding'.verdict >= Watching
    PROVE  Covered(st'.samples, Nodes, GPUCount, clock) /\ ~Alive(st'.samples)
<1>1. /\ st' = Answer(report, stamp, exempt).state
      /\ finding' = Answer(report, stamp, exempt).finding
  BY JudgeAs
<1> QED
  BY <1>1, AnswerCases

(* Without a start time nothing is kept and nothing is reported.           *)
LEMMA NothingJudged ==
    ASSUME CycleWithoutStart
    PROVE  st' = NoState /\ finding'.verdict = Healthy /\ start' = start
<1>1. PICK job : /\ job = JobOf(None, FALSE)
                 /\ st' = Evaluate(Observe(st, job, {}, clock), job, clock).state
                 /\ finding' = Evaluate(Observe(st, job, {}, clock), job, clock).finding
  BY DEF CycleWithoutStart
<1>2. job.start = None /\ job.gpuCount # 0 /\ job.exempt = FALSE
  BY <1>1, WatchAssumption DEF JobOf
<1>3. Evaluate(Observe(st, job, {}, clock), job, clock) = Result(NoState, Nothing(job))
  BY <1>2, Zenon DEF Evaluate
<1>4. Nothing(job).verdict = Healthy
  BY DEF Nothing
<1>5. /\ Result(NoState, Nothing(job)).state = NoState
      /\ Result(NoState, Nothing(job)).finding = Nothing(job)
  BY ResultFields
<1>6. start' = start
  BY DEF CycleWithoutStart
<1> QED
  BY <1>1, <1>3, <1>4, <1>5, <1>6, Zenon

LEMMA EvidenceInit == Init => EvidenceInv
<1> SUFFICES ASSUME Init PROVE EvidenceInv
  OBVIOUS
<1>1. RecordInv
  BY DEF Init, RecordInv, NoRecord
<1>2. SamplesInv
  BY DEF Init, SamplesInv, Current, NoState, FreshState
<1>3. FindingInv /\ EvidenceSound
  BY DEF Init, FindingInv, EvidenceSound, Reported, NoFinding, Nothing
<1> QED
  BY <1>1, <1>2, <1>3 DEF EvidenceInv

(* Nothing but a cycle adds evidence; what breaks the record voids it.     *)
LEMMA EvidenceStep == TypeOK /\ EvidenceInv /\ [Next]_vars => EvidenceInv'
<1> SUFFICES ASSUME TypeOK, EvidenceInv, [Next]_vars PROVE EvidenceInv'
  OBVIOUS
<1> USE DEF EvidenceInv
<1>t. TypeOK'
  BY TypeStep
<1>n. NoFinding.verdict = Healthy /\ NoFinding.start = None
  BY DEF NoFinding, Nothing
<1>s. NoState.startTime = None /\ NoState.samples = {}
  BY DEF NoState, FreshState
<1>b. \A h : \A n \in Nodes : Broken(h).clean[n] = None /\ [Broken(h) EXCEPT !.billed = 0].clean[n] = None
  BY DEF Broken, NoRecord
<1>1. CASE Tick
  BY <1>1 DEF Tick, RecordInv, SamplesInv, FindingInv, EvidenceSound, Reported, Current,
              InRecord, BeforeBreak, BeforeHole
<1>2. CASE Cycle
  <2>1. PICK report \in [Nodes -> Reports], stamp \in Stamps, exempt \in ExemptAnswers :
           Judge(report, stamp, exempt)
    BY <1>2 DEF Cycle
  <2>2. start # None /\ clock' = clock /\ start' = start /\ clock \in Nat
    BY <1>2 DEF Cycle, TypeOK
  <2>3. RecordInv' /\ SamplesInv'
    BY <2>1, <2>2, RecordKept, SamplesKept
  <2>4. Current' /\ judged' = clock
    BY <2>1, <2>2, CycleEffect, JudgeAs DEF Current
  <2>5. EvidenceSound'
    <3>1. SUFFICES ASSUME finding'.verdict >= Watching, NEW n \in Nodes
                   PROVE  /\ hist'.clean[n] # None
                          /\ hist'.clean[n] >= start' + Warmup
                          /\ hist'.clean[n] <= judged' - Window + MaxSampleGap
                          /\ judged' - hist'.last[n] <= MaxSampleGap
      BY DEF EvidenceSound, Reported
    <3>2. Covered(st'.samples, Nodes, GPUCount, clock) /\ ~Alive(st'.samples)
      BY <2>1, <2>2, <3>1, ReportIsCovered
    <3> QED
      BY <1>t, <2>2, <2>3, <2>4, <3>1, <3>2, CoveredIsRecord
  <2>6. FindingInv'
    <3>1. finding'.start = start
      BY <2>1, <2>2, JudgeAs, AnswerCases
    <3> QED
      BY <2>2, <3>1 DEF FindingInv
  <2> QED
    BY <2>3, <2>5, <2>6
<1>3. CASE CycleWithoutStart
  <2>1. st' = NoState /\ finding'.verdict = Healthy
    BY <1>3, NothingJudged
  <2>2. hist' = Broken(hist) /\ start' = start /\ start # None
    BY <1>3 DEF CycleWithoutStart
  <2> QED
    BY <1>b, <1>s, <2>1, <2>2
       DEF RecordInv, SamplesInv, FindingInv, EvidenceSound, Reported, Current
<1>4. CASE DrainExecuted
  <2>1. st'.startTime = st.startTime /\ st'.samples = st.samples
    BY <1>4 DEF DrainExecuted, ConfirmDrain, TypeOK, StateType
  <2>2. hist'.clean = hist.clean /\ hist'.last = hist.last
    BY <1>4 DEF DrainExecuted, TypeOK, HistoryType
  <2>3. start' = start /\ finding' = finding /\ judged' = judged
    BY <1>4 DEF DrainExecuted
  <2> QED
    BY <2>1, <2>2, <2>3 DEF RecordInv, SamplesInv, FindingInv, EvidenceSound, Reported, Current,
                            InRecord, BeforeBreak, BeforeHole
<1>5. CASE Drop \/ Forget \/ Restart
  <2>1. st' = NoState /\ finding' = NoFinding /\ start' = start
    BY <1>5 DEF Drop, Forget, Restart
  <2>2. \A n \in Nodes : hist'.clean[n] = None
    BY <1>5, <1>b DEF Drop, Forget, Restart
  <2> QED
    BY <1>n, <1>s, <2>1, <2>2
       DEF RecordInv, SamplesInv, FindingInv, EvidenceSound, Reported, Current
<1>6. CASE End
  BY <1>6 DEF End, RecordInv, SamplesInv, FindingInv, EvidenceSound, Reported, Current
<1>7. CASE Requeue
  <2>1. st' = st /\ finding' = finding /\ start' = clock /\ clock \in Nat
    BY <1>7 DEF Requeue, TypeOK
  <2>2. st.startTime < clock /\ finding.start < clock
    BY <1>7 DEF Requeue
  <2>3. \A n \in Nodes : hist'.clean[n] = None
    BY <1>7, <1>b DEF Requeue
  <2> QED
    BY <2>1, <2>2, <2>3, <1>t
       DEF RecordInv, SamplesInv, FindingInv, EvidenceSound, Reported, Current,
           TypeOK, StateType, FindingType, Time
<1>8. CASE UNCHANGED vars
  BY <1>8 DEF vars, RecordInv, SamplesInv, FindingInv, EvidenceSound, Reported, Current,
              InRecord, BeforeBreak, BeforeHole
<1> QED
  BY <1>1, <1>2, <1>3, <1>4, <1>5, <1>6, <1>7, <1>8 DEF Next

(* No breach is ever reported without a record of every node that spans a  *)
(* window less one gap, within the incarnation that runs.                  *)
THEOREM EvidenceCorrect == Spec => []EvidenceSound
<1>1. Init => TypeOK /\ EvidenceInv
  BY TypeInit, EvidenceInit
<1>2. TypeOK /\ EvidenceInv /\ [Next]_vars => (TypeOK /\ EvidenceInv)'
  BY TypeStep, EvidenceStep
<1>3. EvidenceInv => EvidenceSound
  BY DEF EvidenceInv
<1> QED
  BY <1>1, <1>2, <1>3, PTL DEF Spec

-----------------------------------------------------------------------------
(***************************************************************************)
(* The signature "idle".                                                   *)
(***************************************************************************)
(* The last report that was not known to be empty is among the samples, or *)
(* was never among them, or has left the window.                           *)
OccupiedInv ==
    start # None =>
        \A n \in Nodes :
            \/ hist.occupied[n] = None
            \/ hist.occupied[n] < judged - Window
            \/ hist.occupied[n] < start + Warmup
            \/ Current /\ \E s \in OfNode(st.samples, n) :
                             s.at = hist.occupied[n] /\ ~Empty(s.read)

IdleInv == OccupiedInv /\ IdleMeansEmpty

(* What a reported signature was concluded from.                           *)
LEMMA IdleSignature ==
    ASSUME TypeOK, start # None,
           NEW report \in [Nodes -> Reports], NEW stamp \in Stamps,
           NEW exempt \in ExemptAnswers, Judge(report, stamp, exempt),
           finding'.verdict >= Watching, finding'.signature = "idle"
    PROVE  \A s \in st'.samples : Empty(s.read)
<1> DEFINE O == Observed(report, stamp, exempt)
           A == Answer(report, stamp, exempt)
           job == JobOf(start, exempt)
<1>1. A.finding.verdict # Healthy /\ A.finding.signature = "idle" /\ st'.samples = O.samples
    BY JudgeAs, AnswerCases
<1>2. \A x : Nothing(x).verdict = Healthy
    BY DEF Nothing
<1>3. [Nothing(job) EXCEPT !.recovered = (O.drainConfirmedAt # None)].verdict = Healthy
    BY DEF Nothing
<1>4. A = Breach(O, job, clock)
    <2> HIDE DEF O, job
    <2>1. A = Evaluate(O, job, clock)
        BY DEF Answer, O, job
    <2>2. \/ \E s, f : A = Result(s, f) /\ f.verdict = Healthy
          \/ A = Breach(O, job, clock)
        BY <1>2, <1>3, <2>1, EvaluateCases, Zenon
    <2> QED
        BY <1>1, <2>2, ResultFields
<1>5. Classify(O.samples) = "idle"
    BY <1>1, <1>4 DEF Breach, Result
<1>6. NoProcess(O.samples) /\ LowPower(O.samples)
    BY <1>5, Zenon DEF Classify
<1> QED
    BY <1>1, <1>6 DEF NoProcess, LowPower, Empty

LEMMA OccupiedCycle ==
    ASSUME TypeOK, OccupiedInv, start # None, judged < clock, start' = start, clock' = clock,
           NEW report \in [Nodes -> Reports], NEW stamp \in Stamps,
           NEW exempt \in ExemptAnswers, Judge(report, stamp, exempt)
    PROVE  OccupiedInv'
<1>1. /\ st'.startTime = start /\ judged' = clock
      /\ \A s : s \in st'.samples <=>
            /\ s.at >= clock - Window
            /\ \/ st.startTime = start /\ s \in st.samples
               \/ s \in Batch(report, stamp) /\ s.at >= start + Warmup
    BY CycleEffect, JudgeAs
<1>2. \A n \in Nodes :
         hist'.occupied[n] = IF \A g \in DOMAIN report[n] : Empty(report[n][g])
                             THEN hist.occupied[n] ELSE stamp[n]
    <2>1. PICK f : hist' = Remember(hist, report, stamp, clock, start + Warmup, f)
        BY JudgeAs
    <2> QED
        BY <2>1 DEF Remember
<1>3. /\ clock \in Nat /\ judged \in Int /\ start \in Nat
      /\ Window \in Nat /\ Warmup \in Nat
      /\ hist.occupied \in [Nodes -> Time] /\ stamp \in [Nodes -> Nat]
    BY ThresholdsAssumption, BatchType DEF TypeOK, HistoryType, Time
<1> SUFFICES ASSUME NEW n \in Nodes, ~(hist'.occupied[n] = None),
                    ~(hist'.occupied[n] < clock - Window), ~(hist'.occupied[n] < start + Warmup)
             PROVE  \E s \in OfNode(st'.samples, n) :
                       s.at = hist'.occupied[n] /\ ~Empty(s.read)
    BY <1>1 DEF OccupiedInv, Current
<1>4. CASE \A g \in DOMAIN report[n] : Empty(report[n][g])
    <2>1. hist'.occupied[n] = hist.occupied[n] /\ hist.occupied[n] \in Int
        BY <1>2, <1>3, <1>4 DEF Time
    <2>2. ~(hist.occupied[n] < judged - Window)
        BY <1>3, <2>1
    <2>3. PICK s \in OfNode(st.samples, n) : s.at = hist.occupied[n] /\ ~Empty(s.read)
        BY <2>1, <2>2 DEF OccupiedInv
    <2>4. Current /\ s \in st.samples /\ s.node = n
        BY <2>1, <2>2, <2>3 DEF OccupiedInv, OfNode
    <2>5. s \in st'.samples
        BY <1>1, <1>3, <2>1, <2>3, <2>4 DEF Current
    <2> QED
        BY <2>1, <2>3, <2>4, <2>5 DEF OfNode
<1>5. CASE ~(\A g \in DOMAIN report[n] : Empty(report[n][g]))
    <2>1. PICK g \in DOMAIN report[n] : ~Empty(report[n][g])
        BY <1>5
    <2>2. PICK s \in Batch(report, stamp) :
             s.node = n /\ s.at = stamp[n] /\ s.read = report[n][g]
        BY BatchType DEF TypeOK
    <2>3. hist'.occupied[n] = stamp[n] /\ stamp[n] \in Int
        BY <1>2, <1>3, <1>5
    <2>4. s \in st'.samples
        BY <1>1, <1>3, <2>2, <2>3
    <2> QED
        BY <2>1, <2>2, <2>3, <2>4 DEF OfNode
<1> QED
    BY <1>4, <1>5

LEMMA IdleStep == TypeOK /\ EvidenceInv /\ IdleInv /\ [Next]_vars => IdleInv'
<1> SUFFICES ASSUME TypeOK, EvidenceInv, IdleInv, [Next]_vars PROVE IdleInv'
    OBVIOUS
<1> USE DEF IdleInv
<1>b. \A h : \A n \in Nodes :
         Broken(h).occupied[n] = None /\ [Broken(h) EXCEPT !.billed = 0].occupied[n] = None
    BY DEF Broken, NoRecord
<1>1. CASE Tick \/ UNCHANGED vars
    BY <1>1 DEF Tick, vars, OccupiedInv, IdleMeansEmpty, Reported, Current
<1>2. CASE Cycle
    <2>1. PICK report \in [Nodes -> Reports], stamp \in Stamps, exempt \in ExemptAnswers :
             Judge(report, stamp, exempt)
        BY <1>2 DEF Cycle
    <2>2. start # None /\ judged < clock /\ clock' = clock /\ start' = start
        BY <1>2 DEF Cycle
    <2>3. OccupiedInv'
        BY <2>1, <2>2, OccupiedCycle
    <2>4. ASSUME finding'.verdict >= Watching, finding'.signature = "idle"
          PROVE  \A s \in st'.samples : Empty(s.read)
        BY <2>1, <2>2, <2>4, IdleSignature
    <2> QED
        BY <2>2, <2>3, <2>4 DEF OccupiedInv, IdleMeansEmpty, Reported, OfNode
<1>3. CASE CycleWithoutStart \/ Drop \/ Forget \/ Restart
    <2>1. hist' = Broken(hist) \/ hist' = [Broken(hist) EXCEPT !.billed = 0]
        BY <1>3 DEF CycleWithoutStart, Drop, Forget, Restart
    <2>2. \A n \in Nodes : hist'.occupied[n] = None
        BY <1>b, <2>1
    <2> QED
        BY <2>2 DEF OccupiedInv, IdleMeansEmpty
<1>4. CASE DrainExecuted
    <2>1. st'.startTime = st.startTime /\ st'.samples = st.samples
        BY <1>4 DEF DrainExecuted, ConfirmDrain, TypeOK, StateType
    <2>2. hist'.occupied = hist.occupied
        BY <1>4 DEF DrainExecuted, TypeOK, HistoryType
    <2>3. start' = start /\ finding' = finding /\ judged' = judged
        BY <1>4 DEF DrainExecuted
    <2> QED
        BY <2>1, <2>2, <2>3 DEF OccupiedInv, IdleMeansEmpty, Reported, Current
<1>5. CASE End
    BY <1>5 DEF End, OccupiedInv, IdleMeansEmpty, Reported, EvidenceInv, FindingInv
<1>6. CASE Requeue
    <2>1. \A n \in Nodes : hist'.occupied[n] = None
        BY <1>6, <1>b DEF Requeue
    <2> QED
        BY <2>1 DEF OccupiedInv, IdleMeansEmpty
<1> QED
    BY <1>1, <1>2, <1>3, <1>4, <1>5, <1>6 DEF Next

(* A job is called idle only if no report of the whole window, or since    *)
(* the warmup, left open that a process was there, for any readings, lags  *)
(* and lost cycles (classify, summarize, Observe).                         *)
THEOREM IdleCorrect == Spec => []IdleMeansEmpty
<1>1. Init => TypeOK /\ EvidenceInv /\ IdleInv
    <2>1. Init => IdleInv
        BY DEF Init, IdleInv, OccupiedInv, IdleMeansEmpty, NoRecord
    <2> QED
        BY <2>1, TypeInit, EvidenceInit
<1>2. TypeOK /\ EvidenceInv /\ IdleInv /\ [Next]_vars => (TypeOK /\ EvidenceInv /\ IdleInv)'
    BY TypeStep, EvidenceStep, IdleStep
<1>3. IdleInv => IdleMeansEmpty
    BY DEF IdleInv
<1> QED
    BY <1>1, <1>2, <1>3, PTL DEF Spec

-----------------------------------------------------------------------------
(***************************************************************************)
(* The ladder.  It is climbed on one record only where a reading is never  *)
(* so old that it reaches back a window less one gap, and where a job is   *)
(* not exempt in one cycle and judged again in a later one.                *)
(***************************************************************************)
Prompt == MaxLag < Window - MaxSampleGap

NeverExempt == ExemptAnswers = {FALSE}

(* A cycle that reports leaves the record as it was: a node whose record   *)
(* had to start anew would not reach back.                                 *)
LEMMA ReportKeepsRecord ==
    ASSUME Prompt, TypeOK, TypeOK', EvidenceSound', start # None, start' = start, clock' = clock,
           NEW report \in [Nodes -> Reports], NEW stamp \in Stamps,
           NEW exempt \in ExemptAnswers, Judge(report, stamp, exempt),
           finding'.verdict >= Watching,
           \A n \in Nodes : hist.clean[n] # None
    PROVE  hist'.clean = hist.clean
<1>1. finding'.start = start /\ judged' = clock
  BY JudgeAs, AnswerCases
<1>2. \A n \in Nodes : /\ hist'.clean[n] # None
                       /\ hist'.clean[n] <= clock - Window + MaxSampleGap
  BY <1>1 DEF EvidenceSound, Reported
<1>3. \A n \in Nodes : hist'.clean[n] = CleanAfter(hist, report, stamp, start + Warmup, n)
  BY CycleEffect
<1>4. \A n \in Nodes : stamp[n] \in Nat /\ stamp[n] >= clock - MaxLag
  BY BatchType DEF TypeOK
<1>5. /\ clock \in Nat /\ MaxLag \in Nat /\ Window \in Nat /\ MaxSampleGap \in Nat
      /\ hist.clean \in [Nodes -> Time] /\ hist'.clean \in [Nodes -> Time]
  BY WatchAssumption, ThresholdsAssumption DEF TypeOK, HistoryType
<1>6. ASSUME NEW n \in Nodes PROVE hist'.clean[n] = hist.clean[n]
  <2>1. \/ hist'.clean[n] = hist.clean[n]
        \/ hist'.clean[n] = None
        \/ hist'.clean[n] = stamp[n]
    BY <1>3, Zenon DEF CleanAfter
  <2>2. stamp[n] > clock - Window + MaxSampleGap
    BY <1>4, <1>5 DEF Prompt
  <2> QED
    BY <1>2, <1>4, <1>5, <2>1, <2>2
<1> QED
  BY <1>5, <1>6

(* Before the warmup is over, and when no sample is left, the engine keeps *)
(* its state: then there is no record yet.                                 *)
LEMMA KeptHasNoRecord ==
    ASSUME Prompt, TypeOK, RecordInv, start # None,
           NEW report \in [Nodes -> Reports], NEW stamp \in Stamps, NEW exempt,
           clock - start < Warmup \/ Observed(report, stamp, exempt).samples = {},
           NEW n \in Nodes
    PROVE  hist.clean[n] = None
<1> SUFFICES ASSUME hist.clean[n] # None PROVE FALSE
  OBVIOUS
<1>1. /\ stamp[n] \in Nat /\ stamp[n] <= clock /\ stamp[n] >= clock - MaxLag
      /\ stamp[n] >= hist.last[n]
  BY BatchType DEF TypeOK
<1>2. /\ clock \in Nat /\ start \in Nat /\ Warmup \in Nat /\ MaxLag \in Nat
      /\ Window \in Nat /\ MaxSampleGap \in Nat
      /\ hist.last[n] \in Int /\ hist.clean[n] \in Int
  BY WatchAssumption, ThresholdsAssumption DEF TypeOK, HistoryType, Time
<1>3. start + Warmup <= stamp[n]
  BY <1>1, <1>2 DEF RecordInv
<1>4. PICK g \in DOMAIN report[n] : TRUE
  BY BatchType DEF TypeOK
<1>5. PICK b \in Batch(report, stamp) : b.node = n /\ b.at = stamp[n]
  BY <1>4, BatchType DEF TypeOK
<1>6. b \in Observed(report, stamp, exempt).samples
  BY <1>1, <1>2, <1>3, <1>5, ObservedSamples DEF Prompt
<1> QED
  BY <1>1, <1>2, <1>3, <1>6

LEMMA LadderInit == Init => LadderInv
<1> SUFFICES ASSUME Init PROVE LadderInv
  OBVIOUS
<1>1. ConfirmedInv /\ AlertedInv
  BY DEF Init, ConfirmedInv, AlertedInv, Current, NoState, FreshState, NoRecord
<1>2. DrainingInv
  BY Zenon DEF Init, DrainingInv
<1>3. LadderEarned
  BY DEF Init, LadderEarned, Reported, NoFinding, Nothing
<1> QED
  BY <1>1, <1>2, <1>3 DEF LadderInv

(* Observe keeps the ladder of the incarnation that runs, and no other.    *)
LEMMA ObservedLadder ==
    ASSUME TypeOK, start # None, NEW report, NEW stamp, NEW exempt,
           NEW O, O = Observed(report, stamp, exempt)
    PROVE  /\ Current => /\ O.lastVerdict = st.lastVerdict
                         /\ O.drainConfirmedAt = st.drainConfirmedAt
           /\ ~Current => O.lastVerdict = Healthy /\ O.drainConfirmedAt = None
<1> DEFINE job == JobOf(start, exempt)
<1>1. job.start = start
  BY DEF JobOf
<1>2. Current => StateOf(st, job) = st
  BY <1>1 DEF StateOf, Current
<1>3. ~Current => StateOf(st, job) = FreshState(start)
  BY <1>1 DEF StateOf, Current
<1>4. /\ O.lastVerdict = StateOf(st, job).lastVerdict
      /\ O.drainConfirmedAt = StateOf(st, job).drainConfirmedAt
  BY StatesOfTypes DEF Observed, Observe, StateOf, TypeOK, StateType, FreshState
<1> QED
  BY <1>2, <1>3, <1>4 DEF FreshState

LEMMA LadderCycle ==
    ASSUME Prompt, NeverExempt, TypeOK, TypeOK', EvidenceInv, EvidenceInv', LadderInv,
           start # None, judged < clock, start' = start, clock' = clock,
           NEW report \in [Nodes -> Reports], NEW stamp \in Stamps,
           NEW exempt \in ExemptAnswers, Judge(report, stamp, exempt)
    PROVE  LadderInv'
<1> DEFINE O == Observed(report, stamp, exempt)
           A == Answer(report, stamp, exempt)
<1> USE DEF LadderInv, EvidenceInv
<1>1. /\ st' = A.state /\ finding' = A.finding /\ judged' = clock
      /\ draining' = (finding'.verdict = Drain /\ ~finding'.drainConfirmed)
      /\ hist' = Remember(hist, report, stamp, clock, start + Warmup, A.finding)
  BY JudgeAs
<1>2. /\ hist'.clean = hist.clean =>
            /\ hist'.drained = hist.drained
            /\ hist'.alerted = IF finding'.verdict >= Alert /\ hist.alerted = None
                               THEN clock ELSE hist.alerted
      /\ hist'.clean # hist.clean =>
            /\ hist'.drained = None
            /\ hist'.alerted = IF finding'.verdict >= Alert THEN clock ELSE None
  BY <1>1, RememberFields
<1>3. Nodes # {}
  BY WatchAssumption
<1>4. /\ Current => O.lastVerdict = st.lastVerdict /\ O.drainConfirmedAt = st.drainConfirmedAt
      /\ ~Current => O.lastVerdict = Healthy /\ O.drainConfirmedAt = None
  BY ObservedLadder
<1>5. /\ clock \in Nat /\ judged \in Int /\ start \in Nat
      /\ st.lastVerdict \in Int /\ st.drainConfirmedAt \in Int
      /\ hist.alerted \in Int /\ hist.drained \in Int
      /\ Window \in Nat /\ MaxSampleGap \in Nat /\ ActionDelay \in Nat
      /\ \A n \in Nodes : hist.clean[n] \in Int
  BY WatchAssumption, ThresholdsAssumption
     DEF TypeOK, StateType, HistoryType, Time, Verdicts
<1>6. hist'.alerted <= judged'
  BY <1>1, <1>2, <1>5 DEF AlertedInv
<1> HIDE DEF O, A
<1>7. CASE /\ A.finding.verdict = Healthy
           /\ A.state.lastVerdict = Healthy
           /\ A.state.drainConfirmedAt = None
  <2>1. ConfirmedInv' /\ AlertedInv'
    BY <1>1, <1>6, <1>7 DEF ConfirmedInv, AlertedInv
  <2>2. DrainingInv'
    <3>1. draining' => finding'.verdict = Drain
      BY <1>1, Zenon
    <3>2. finding'.verdict # Drain
      BY <1>1, <1>7
    <3> QED
      BY <3>1, <3>2, Zenon DEF DrainingInv
  <2>3. LadderEarned'
    BY <1>1, <1>7 DEF LadderEarned, Reported
  <2> QED
    BY <2>1, <2>2, <2>3
<1>8. CASE /\ A.finding.verdict = Healthy
           /\ A.state.lastVerdict = O.lastVerdict
           /\ A.state.drainConfirmedAt = O.drainConfirmedAt
           /\ exempt \/ clock - start < Warmup \/ O.samples = {}
  <2>1. \A n \in Nodes : hist.clean[n] = None
    BY <1>8, KeptHasNoRecord DEF NeverExempt, O
  <2>2. Current => st.drainConfirmedAt = None /\ ~(st.lastVerdict >= Alert)
    BY <1>3, <2>1 DEF ConfirmedInv, AlertedInv
  <2>3. O.drainConfirmedAt = None /\ ~(O.lastVerdict >= Alert)
    BY <1>4, <2>2
  <2>4. ConfirmedInv' /\ AlertedInv'
    BY <1>1, <1>6, <1>8, <2>3 DEF ConfirmedInv, AlertedInv
  <2>5. DrainingInv'
    <3>1. draining' => finding'.verdict = Drain
      BY <1>1, Zenon
    <3>2. finding'.verdict # Drain
      BY <1>1, <1>8
    <3> QED
      BY <3>1, <3>2, Zenon DEF DrainingInv
  <2>6. LadderEarned'
    BY <1>1, <1>8 DEF LadderEarned, Reported
  <2> QED
    BY <2>4, <2>5, <2>6
<1>9. CASE /\ A.finding.verdict = BreachVerdict(O, clock)
           /\ A.state.lastVerdict = BreachVerdict(O, clock)
           /\ A.state.drainConfirmedAt = O.drainConfirmedAt
           /\ A.finding.drainConfirmed = (O.drainConfirmedAt # None)
           /\ A.finding.verdict \in Watching .. Cancel
  <2> DEFINE v == finding'.verdict
  <2>1. /\ v \in Int
        /\ st'.lastVerdict = v
        /\ st'.drainConfirmedAt = O.drainConfirmedAt
        /\ finding'.drainConfirmed = (O.drainConfirmedAt # None)
    BY <1>1, <1>9 DEF TypeOK, FindingType, Verdicts
  <2>2. /\ v = Drain => ~(O.lastVerdict < Alert)
        /\ v = Cancel => /\ ~(O.lastVerdict < Alert)
                         /\ O.drainConfirmedAt # None
                         /\ ~(clock - O.drainConfirmedAt < Window)
    BY <1>1, <1>9, RungsBelow DEF BreachVerdict
  <2>3. finding'.start = start
    BY <1>1, AnswerCases DEF A
  <2> HIDE DEF v
  <2>4. v >= Alert => \A n \in Nodes : hist'.clean[n] # None
    BY <2>1, <2>3 DEF EvidenceSound, Reported, v
  <2>5. ASSUME v >= Watching, \A n \in Nodes : hist.clean[n] # None
        PROVE  /\ hist'.clean = hist.clean /\ hist'.drained = hist.drained
               /\ hist.alerted # None => hist'.alerted = hist.alerted
    <3>1. hist'.clean = hist.clean
      BY <2>5, ReportKeepsRecord DEF v
    <3> QED
      BY <1>2, <3>1
  <2>6. v >= Watching
    BY <1>1, <1>9 DEF v
  <2>7. ASSUME Current, st.drainConfirmedAt # None
        PROVE  /\ hist'.alerted # None /\ hist'.alerted < st.drainConfirmedAt
               /\ st.drainConfirmedAt <= hist'.drained
               /\ hist'.drained <= st.drainConfirmedAt + ActionDelay
               /\ \A n \in Nodes : /\ hist'.clean[n] # None
                                   /\ hist'.clean[n] <= st.drainConfirmedAt - Window + MaxSampleGap
    BY <2>5, <2>6, <2>7 DEF ConfirmedInv
  <2>8. ConfirmedInv'
    BY <1>4, <2>1, <2>7 DEF ConfirmedInv
  <2>9. AlertedInv'
    <3>1. v >= Alert => hist'.alerted # None
      BY <1>2, <1>5 DEF v
    <3> QED
      BY <1>6, <2>1, <2>4, <3>1 DEF AlertedInv
  <2>10. DrainingInv'
    <3>1. draining' => v = Drain /\ ~finding'.drainConfirmed
      BY <1>1, Zenon DEF v
    <3>2. draining' => v = Drain /\ st'.lastVerdict = Drain /\ st'.drainConfirmedAt = None
      BY <2>1, <3>1, Zenon
    <3> QED
      BY <3>2, Zenon DEF DrainingInv, v
  <2>11. LadderEarned'
    <3>1. ASSUME ~(O.lastVerdict < Alert)
          PROVE  /\ Current /\ hist'.alerted # None /\ hist'.alerted < clock
      <4>1. Current /\ st.lastVerdict >= Alert
        BY <1>4, <1>5, <3>1
      <4>2. hist.alerted # None /\ hist.alerted <= judged /\ \A n \in Nodes : hist.clean[n] # None
        BY <4>1 DEF AlertedInv
      <4> QED
        BY <1>5, <2>5, <2>6, <4>1, <4>2
    <3>2. v = Drain => hist'.alerted # None /\ hist'.alerted < judged'
      BY <1>1, <2>2, <3>1
    <3>3. ASSUME v = Cancel
          PROVE  /\ hist'.alerted # None /\ hist'.drained # None
                 /\ hist'.alerted < hist'.drained
                 /\ judged' - hist'.drained >= Window - ActionDelay
                 /\ \A n \in Nodes : hist'.clean[n] <= hist'.drained - Window + MaxSampleGap
      <4>1. Current /\ st.drainConfirmedAt # None /\ ~(clock - st.drainConfirmedAt < Window)
        BY <1>4, <2>2, <3>1, <3>3
      <4>2. /\ hist'.alerted \in Int /\ hist'.drained \in Int
            /\ \A n \in Nodes : hist'.clean[n] \in Int
        BY DEF TypeOK, HistoryType, Time
      <4> QED
        BY <1>1, <1>5, <2>7, <4>1, <4>2 DEF TypeOK, StateType, Time
    <3> QED
      BY <3>2, <3>3 DEF LadderEarned, v
  <2> QED
    BY <2>8, <2>9, <2>10, <2>11
<1> QED
  BY <1>7, <1>8, <1>9, AnswerCases DEF O, A

(* The step that confirms a drain: the finding that asked for it had a     *)
(* covered window, and the alert before it.                                *)
LEMMA LadderDrain ==
    ASSUME TypeOK, EvidenceInv, LadderInv, DrainExecuted
    PROVE  LadderInv'
<1> USE DEF LadderInv, EvidenceInv
<1>1. /\ start' = start /\ finding' = finding /\ judged' = judged
      /\ st' = ConfirmDrain(st, finding.start, judged)
      /\ clock - judged <= ActionDelay
  BY DEF DrainExecuted
<1>2. ~draining' /\ draining
  BY Zenon DEF DrainExecuted
<1>3. /\ hist'.clean = hist.clean /\ hist'.alerted = hist.alerted
      /\ hist'.drained = IF finding.start = start THEN clock ELSE hist.drained
  BY DEF DrainExecuted, TypeOK, HistoryType
<1>4. st'.startTime = st.startTime /\ st'.lastVerdict = st.lastVerdict
  BY <1>1 DEF ConfirmDrain, TypeOK, StateType
<1>5. /\ finding.verdict = Drain
      /\ finding.start = st.startTime => st.lastVerdict = Drain /\ st.drainConfirmedAt = None
  BY <1>2, Zenon DEF DrainingInv
<1>6. /\ clock \in Nat /\ judged \in Int /\ judged <= clock /\ ActionDelay \in Nat
      /\ hist.drained \in Int /\ st.drainConfirmedAt \in Int
  BY WatchAssumption DEF TypeOK, StateType, HistoryType, Time
<1>7. ConfirmedInv'
  <2>1. SUFFICES ASSUME Current, st'.drainConfirmedAt # None
                 PROVE  /\ hist.alerted # None /\ hist.alerted < st'.drainConfirmedAt
                        /\ st'.drainConfirmedAt <= hist'.drained
                        /\ hist'.drained <= st'.drainConfirmedAt + ActionDelay
                        /\ \A n \in Nodes :
                              /\ hist.clean[n] # None
                              /\ hist.clean[n] <= st'.drainConfirmedAt - Window + MaxSampleGap
    BY <1>1, <1>3, <1>4 DEF ConfirmedInv, Current
  <2>2. CASE finding.start = start
    <3>1. st.lastVerdict = Drain /\ st.drainConfirmedAt = None
      BY <1>5, <2>1, <2>2 DEF Current
    <3>2. st'.drainConfirmedAt = judged
      BY <1>1, <2>1, <2>2, <3>1 DEF ConfirmDrain, Current, TypeOK, StateType
    <3>3. hist'.drained = clock
      BY <1>3, <2>2
    <3>4. Reported
      BY <1>5, <2>2 DEF Reported
    <3> QED
      BY <1>1, <1>5, <1>6, <3>2, <3>3, <3>4 DEF EvidenceSound, LadderEarned
  <2>3. CASE finding.start # start
    <3>1. st' = st /\ hist'.drained = hist.drained
      BY <1>1, <1>3, <2>1, <2>3 DEF ConfirmDrain, Current
    <3> QED
      BY <2>1, <3>1 DEF ConfirmedInv
  <2> QED
    BY <2>2, <2>3
<1>8. AlertedInv'
  BY <1>1, <1>3, <1>4 DEF AlertedInv, Current
<1>9. DrainingInv'
  BY <1>2, Zenon DEF DrainingInv
<1>10. LadderEarned'
  BY <1>1, <1>3, <1>5 DEF LadderEarned, Reported
<1> QED
  BY <1>7, <1>8, <1>9, <1>10

LEMMA LadderStep ==
    ASSUME Prompt, NeverExempt
    PROVE  TypeOK /\ EvidenceInv /\ LadderInv /\ [Next]_vars => LadderInv'
<1> SUFFICES ASSUME TypeOK, EvidenceInv, LadderInv, [Next]_vars PROVE LadderInv'
  OBVIOUS
<1> USE DEF LadderInv
<1>t. TypeOK' /\ EvidenceInv'
  BY TypeStep, EvidenceStep
<1>n. NoFinding.verdict = Healthy /\ NoFinding.start = None
  BY DEF NoFinding, Nothing
<1>s. NoState.startTime = None
  BY DEF NoState, FreshState
<1>b. \A h : Broken(h).alerted = None /\ [Broken(h) EXCEPT !.billed = 0].alerted = None
  BY DEF Broken, NoRecord
<1>1. CASE Tick
  <2>1. DrainingInv'
    BY <1>1, Zenon DEF Tick, DrainingInv
  <2> QED
    BY <1>1, <2>1 DEF Tick, ConfirmedInv, AlertedInv, LadderEarned, Reported, Current
<1>2. CASE Cycle
  <2>1. PICK report \in [Nodes -> Reports], stamp \in Stamps, exempt \in ExemptAnswers :
           Judge(report, stamp, exempt)
    BY <1>2 DEF Cycle
  <2>2. start # None /\ judged < clock /\ clock' = clock /\ start' = start
    BY <1>2 DEF Cycle
  <2> QED
    BY <1>t, <2>1, <2>2, LadderCycle
<1>3. CASE CycleWithoutStart \/ Drop \/ Forget \/ Restart
  <2>1. st' = NoState /\ finding'.verdict = Healthy /\ start' = start
    <3>1. CASE CycleWithoutStart
      BY <3>1, NothingJudged
    <3>2. CASE Drop \/ Forget \/ Restart
      BY <1>n, <3>2 DEF Drop, Forget, Restart
    <3> QED
      BY <1>3, <3>1, <3>2
  <2>2. hist'.alerted = None /\ hist'.alerted <= judged'
    <3>1. hist' = Broken(hist) \/ hist' = [Broken(hist) EXCEPT !.billed = 0]
      BY <1>3 DEF CycleWithoutStart, Drop, Forget, Restart
    <3>2. hist'.alerted = None
      BY <1>b, <3>1
    <3>3. judged' \in Int /\ judged' >= None
      BY <1>t DEF TypeOK, Time
    <3> QED
      BY <3>2, <3>3
  <2>3. DrainingInv'
    BY <1>3, Zenon DEF CycleWithoutStart, Drop, Forget, Restart, DrainingInv
  <2> QED
    BY <1>s, <2>1, <2>2, <2>3 DEF ConfirmedInv, AlertedInv, LadderEarned, Reported, Current
<1>4. CASE DrainExecuted
  BY <1>4, LadderDrain
<1>5. CASE End
  <2>1. DrainingInv'
    BY <1>5, Zenon DEF End, DrainingInv
  <2> QED
    BY <1>5, <2>1 DEF End, ConfirmedInv, AlertedInv, LadderEarned, Reported, Current,
                      EvidenceInv, FindingInv
<1>6. CASE Requeue
  <2>1. st' = st /\ finding' = finding /\ start' = clock /\ judged' = judged /\ clock \in Nat
    BY <1>6 DEF Requeue, TypeOK
  <2>2. st.startTime < clock /\ finding.start < clock
    BY <1>6 DEF Requeue
  <2>3. hist'.alerted = None /\ judged \in Int /\ judged >= None
    BY <1>6, <1>b DEF Requeue, TypeOK, Time
  <2>4. DrainingInv'
    BY <1>6, Zenon DEF Requeue, DrainingInv
  <2> QED
    BY <2>1, <2>2, <2>3, <2>4
       DEF ConfirmedInv, AlertedInv, LadderEarned, Reported, Current, TypeOK, StateType,
           FindingType, Time
<1>7. CASE UNCHANGED vars
  <2>1. DrainingInv'
    BY <1>7, Zenon DEF vars, DrainingInv
  <2> QED
    BY <1>7, <2>1 DEF vars, ConfirmedInv, AlertedInv, LadderEarned, Reported, Current
<1> QED
  BY <1>1, <1>2, <1>3, <1>4, <1>5, <1>6, <1>7 DEF Next

(* No drain is asked for but after an alert in an earlier cycle, and no    *)
(* job is cancelled but after an alert, an executed drain and a Window, all*)
(* of it on one unbroken record of every node.                             *)
THEOREM LadderCorrect ==
    ASSUME Prompt, NeverExempt
    PROVE  Spec => []LadderEarned
<1>1. Init => TypeOK /\ EvidenceInv /\ LadderInv
  BY TypeInit, EvidenceInit, LadderInit
<1>2. /\ TypeOK /\ EvidenceInv /\ LadderInv
      /\ [Next]_vars
      => (TypeOK /\ EvidenceInv /\ LadderInv)'
  BY TypeStep, EvidenceStep, LadderStep
<1>3. LadderInv => LadderEarned
  BY DEF LadderInv
<1> QED
  BY <1>1, <1>2, <1>3, PTL DEF Spec

-----------------------------------------------------------------------------
(***************************************************************************)
(* Sights.  The samples of a node with one time are a report's list of its *)
(* GPUs, and coverage counts the times and the entries of the lists.       *)
(***************************************************************************)
(* A chain of times with no step longer than g has many of them.           *)
LEMMA ManyTimes ==
    ASSUME NEW T, T \subseteq Nat, IsFiniteSet(T), NEW g \in Nat, NEW b \in Nat,
           \A t \in T : t < b => \E v \in T : t < v /\ v - t <= g
    PROVE  \A k \in Nat : \A a \in T : k * g < b - a => Cardinality({t \in T : a <= t}) >= k + 2
<1> DEFINE From(a) == {t \in T : a <= t}
           Bad == {k \in Nat : \E a \in T : k * g < b - a /\ ~(Cardinality(From(a)) >= k + 2)}
<1> SUFFICES ASSUME Bad # {} PROVE FALSE
  OBVIOUS
<1>1. PICK k \in Bad : \A j \in Bad : k <= j
  <2>1. Bad \subseteq Nat
    OBVIOUS
  <2> HIDE DEF Bad
  <2> QED
    BY <2>1, LeastNumber
<1>2. PICK a \in T : k * g < b - a /\ ~(Cardinality(From(a)) >= k + 2)
  OBVIOUS
<1>3. k \in Nat /\ a \in Nat /\ k * g \in Nat
  OBVIOUS
<1>4. PICK v \in T : a < v /\ v - a <= g
  BY <1>2, <1>3
<1>5. \A x \in T : IsFiniteSet(From(x)) /\ Cardinality(From(x)) \in Nat
  BY FS_Subset, FS_CardinalityType
<1>6. Cardinality(From(a)) >= Cardinality(From(v)) + 1
  <2>1. From(v) \cup {a} \subseteq From(a) /\ a \notin From(v)
    <3>1. v \in Nat /\ \A t \in T : t \in Nat
      OBVIOUS
    <3>2. a \in From(a) /\ a \notin From(v)
      BY <1>3, <1>4, <3>1
    <3>3. ASSUME NEW t \in From(v) PROVE t \in From(a)
      BY <1>3, <1>4, <3>1
    <3> HIDE DEF From
    <3> QED
      BY <3>2, <3>3
  <2> HIDE DEF From
  <2>2. /\ IsFiniteSet(From(v) \cup {a})
        /\ Cardinality(From(v) \cup {a}) = Cardinality(From(v)) + 1
    BY <1>5, <2>1, FS_AddElement
  <2>3. Cardinality(From(v) \cup {a}) <= Cardinality(From(a))
    BY <1>5, <2>1, FS_Subset
  <2> QED
    BY <1>5, <2>2, <2>3
<1>7. Cardinality(From(v)) >= k + 1
  <2>1. CASE k = 0
    <3>1. v \in From(v)
      BY <1>4
    <3> HIDE DEF From
    <3> QED
      BY <2>1, <1>5, <3>1, FS_EmptySet
  <2>2. CASE k # 0
    <3>1. k - 1 \in Nat /\ k - 1 \notin Bad
      <4>1. k - 1 \in Nat /\ ~(k <= k - 1)
        BY <1>3, <2>2
      <4> HIDE DEF Bad
      <4> QED
        BY <1>1, <4>1
    <3>2. (k - 1) * g < b - v
      <4>1. (k - 1) * g = k * g - g
        BY <1>3
      <4> QED
        BY <1>2, <1>3, <1>4, <4>1
    <3>3. Cardinality(From(v)) >= (k - 1) + 2
      BY <3>1, <3>2
    <3> QED
      BY <1>3, <1>5, <3>3
  <2> QED
    BY <2>1, <2>2
<1> HIDE DEF From
<1> QED
  BY <1>2, <1>3, <1>5, <1>6, <1>7

(* A report of a node is a list of GPUs at one time; the samples of it.    *)
OfTime(ss, n, t) == {s \in OfNode(ss, n) : s.at = t}

Sight(ss, n, t) == {s.gpu : s \in OfTime(ss, n, t)}

(* No GPU was sampled twice at one time.                                   *)
Single(ss) == \A s, u \in ss : s.node = u.node /\ s.at = u.at /\ s.gpu = u.gpu => s = u

(* How long after a report the next one comes, unless a hole is between    *)
(* them: the interval, and what a cycle may be late.                       *)
CONSTANT Pace

(* A record of reports at this pace has enough of them in a window.        *)
Dense == /\ Pace \in 1 .. MaxSampleGap
         /\ (MinSamples - 2) * Pace <= Window - MaxSampleGap

LEMMA CountIsSight ==
    ASSUME NEW ss, Single(ss), NEW n, NEW t, IsFiniteSet(Sight(ss, n, t))
    PROVE  CountAt(ss, n, t) = Cardinality(Sight(ss, n, t))
<1> DEFINE f == [s \in OfTime(ss, n, t) |-> s.gpu]
<1>1. f \in Injection(OfTime(ss, n, t), Sight(ss, n, t))
  BY DEF Injection, IsInjective, Sight, OfTime, OfNode, Single
<1>2. f \in Surjection(OfTime(ss, n, t), Sight(ss, n, t))
  BY DEF Surjection, Sight
<1> HIDE DEF f
<1>3. Cardinality(OfTime(ss, n, t)) = Cardinality(Sight(ss, n, t))
  BY <1>1, <1>2, FS_Injection
<1> QED
  BY <1>3 DEF CountAt, OfTime

(* Samples that cover the window: every one of them readable and at rest,  *)
(* every report as many GPUs, no hole, and old enough.                     *)
LEMMA CoverageOf ==
    ASSUME Dense, NEW ss \in SUBSET SampleType, NEW view, NEW now \in Nat,
           Single(ss),
           \A s \in ss : ~Breaking(s.read) /\ s.at <= now,
           \A s \in ss : Cardinality(Sight(ss, s.node, s.at)) = Cardinality(view[s.node]),
           \A n \in Nodes : Sight(ss, n, now) = view[n],
           \A n \in Nodes : \E s \in OfNode(ss, n) : s.at = now,
           \A n \in Nodes : \E s \in OfNode(ss, n) : s.at < now - Window + MaxSampleGap,
           \A n \in Nodes : \A s \in OfNode(ss, n) : s.at < now =>
              \E u \in OfNode(ss, n) : s.at < u.at /\ u.at - s.at <= Pace,
           Cardinality(Viewed(view)) >= GPUCount
    PROVE  Covered(ss, Nodes, GPUCount, now) /\ ~Alive(ss)
<1>1. /\ Window \in Nat /\ MaxSampleGap \in Nat \ {0} /\ MaxSampleGap < Window
      /\ MinSamples \in Nat \ {0} /\ Pace \in Nat /\ Pace <= MaxSampleGap
      /\ Nodes # {} /\ IsFiniteSet(Nodes) /\ IsFiniteSet(UNION Views) /\ GPUCount \in Nat
  BY ThresholdsAssumption, WatchAssumption DEF Dense
<1>2. \A s \in ss : s.at \in Nat /\ s.node \in Nodes /\ s.gpu \in UNION Views
  BY DEF SampleType
<1>3. AllJudgeable(ss) /\ ~Alive(ss)
  BY DEF AllJudgeable, Alive, Breaking
<1>4. ASSUME NEW n \in Nodes
      PROVE  /\ OfNode(ss, n) # {}
             /\ SteadyGPUs(ss, n)
             /\ EnoughObservations(ss, n)
             /\ Fresh(ss, n, now)
             /\ ReachesBack(ss, n, now)
             /\ NoHole(ss, n)
  <2> DEFINE T == Times(ss, n)
  <2>1. OfNode(ss, n) # {} /\ now \in T
    BY DEF Times
  <2>2. \A t \in T : /\ t \in Nat /\ t <= now
                     /\ \E s \in ss : s.node = n /\ s.at = t
    BY <1>2 DEF Times, OfNode
  <2>3. \A t \in T : t < now => \E v \in T : t < v /\ v - t <= Pace
    BY DEF Times
  <2>4. PICK a \in T : a < now - Window + MaxSampleGap
    BY DEF Times
  <2>5. SteadyGPUs(ss, n)
    <3>1. ASSUME NEW t \in T PROVE CountAt(ss, n, t) = Cardinality(view[n])
      <4>1. Cardinality(Sight(ss, n, t)) = Cardinality(view[n])
        BY <2>2
      <4>2. Sight(ss, n, t) \subseteq UNION Views
        BY <1>2 DEF Sight, OfTime, OfNode
      <4>3. IsFiniteSet(Sight(ss, n, t))
        BY <1>1, <4>2, FS_Subset
      <4> QED
        BY <4>1, <4>3, CountIsSight
    <3> QED
      BY <3>1 DEF SteadyGPUs
  <2>6. Fresh(ss, n, now)
    BY <1>1, <2>1 DEF Fresh
  <2>7. ReachesBack(ss, n, now)
    BY <1>1, <2>2, <2>4 DEF ReachesBack
  <2>8. NoHole(ss, n)
    <3>1. \A t, u \in T : t < u => t < now
      BY <2>2
    <3>2. \A t, v \in T : v - t <= Pace => v - t <= MaxSampleGap
      BY <1>1, <2>2
    <3> HIDE DEF T
    <3> QED
      BY <2>3, <3>1, <3>2 DEF NoHole, T
  <2>9. EnoughObservations(ss, n)
    <3>1. IsFiniteSet(0 .. now)
      <4>1. 0 \in Int /\ now \in Int
        OBVIOUS
      <4> QED
        BY <4>1, FS_Interval
    <3>2. T \subseteq 0 .. now
      BY <2>2
    <3> HIDE DEF T
    <3>3. IsFiniteSet(T) /\ Cardinality(T) \in Nat
      BY <3>1, <3>2, FS_Subset, FS_CardinalityType
    <3>4. CASE MinSamples = 1
      <4>1. Cardinality(T) # 0
        BY <2>4, <3>3, FS_EmptySet
      <4> QED
        BY <3>3, <3>4, <4>1 DEF EnoughObservations, T
    <3>5. CASE MinSamples # 1
      <4>1. MinSamples - 2 \in Nat /\ T \subseteq Nat /\ a \in Nat
        BY <1>1, <2>2, <2>4, <3>5
      <4>2. (MinSamples - 2) * Pace < now - a
        <5>1. (MinSamples - 2) * Pace \in Int
          BY <1>1, <4>1
        <5> QED
          BY <1>1, <2>4, <4>1, <5>1 DEF Dense
      <4>3. Cardinality({t \in T : a <= t}) >= (MinSamples - 2) + 2
        <5>1. \A k \in Nat : \A t \in T :
                 k * Pace < now - t => Cardinality({v \in T : t <= v}) >= k + 2
          <6>1. Pace \in Nat /\ T \subseteq Nat
            BY <1>1, <4>1
          <6> QED
            BY <2>3, <3>3, <6>1, ManyTimes, Zenon
        <5> QED
          BY <2>4, <4>1, <4>2, <5>1
      <4>4. /\ Cardinality({t \in T : a <= t}) <= Cardinality(T)
            /\ Cardinality({t \in T : a <= t}) \in Nat
        BY <3>3, FS_Subset, FS_CardinalityType
      <4> QED
        BY <1>1, <3>3, <4>3, <4>4 DEF EnoughObservations, T
    <3> QED
      BY <3>4, <3>5
  <2> QED
    BY <2>1, <2>5, <2>6, <2>7, <2>8, <2>9
<1>5. Cardinality(GPUsSeen(ss)) >= GPUCount
  <2>1. Viewed(view) \subseteq GPUsSeen(ss)
    <3> SUFFICES ASSUME NEW n \in Nodes, NEW g \in view[n]
                 PROVE  <<n, g>> \in GPUsSeen(ss)
      BY DEF Viewed
    <3>1. g \in Sight(ss, n, now)
      OBVIOUS
    <3> QED
      BY <3>1 DEF Sight, OfTime, OfNode, GPUsSeen
  <2>2. GPUsSeen(ss) \subseteq Nodes \X UNION Views
    BY <1>2 DEF GPUsSeen
  <2>3. IsFiniteSet(Nodes \X UNION Views)
    BY <1>1, FS_Product
  <2>4. IsFiniteSet(GPUsSeen(ss))
    BY <2>2, <2>3, FS_Subset
  <2>5. /\ Cardinality(Viewed(view)) <= Cardinality(GPUsSeen(ss))
        /\ Cardinality(GPUsSeen(ss)) \in Nat /\ Cardinality(Viewed(view)) \in Nat
    BY <2>1, <2>4, FS_Subset, FS_CardinalityType
  <2> QED
    BY <1>1, <2>5
<1> QED
  BY <1>1, <1>3, <1>4, <1>5, Zenon DEF Covered

-----------------------------------------------------------------------------
(***************************************************************************)
(* What the engine sees of the record: whole reports, one after another,   *)
(* and all of them that the window asks for.  It needs reports that reach  *)
(* the engine in the tick they were made in; one that is read late may     *)
(* repeat a time, and coverage then counts its GPUs twice.                 *)
(***************************************************************************)
(* A report reaches the engine in the tick it was made in.                 *)
Punctual == MaxLag = 0

(* The reports of a node come one after another, each later than the last. *)
PaceInv ==
    \A n \in Nodes : hist.last[n] <= judged /\ hist.steady[n] <= hist.last[n]

(* The samples are whole reports of all the nodes, each GPU in it once; in *)
(* the record none of them shows work or cannot be read.                   *)
SightInv ==
    Current =>
        /\ Single(st.samples)
        /\ \A s \in st.samples :
              /\ Sight(st.samples, s.node, s.at) \in Views
              /\ InRecord(s) => ~Breaking(s.read)
              /\ \A n \in Nodes : \E u \in OfNode(st.samples, n) : u.at = s.at

(* How many GPUs the samples of a report name.                             *)
Seen(ss, n, t) == Cardinality(Sight(ss, n, t))

(* A sample is of a report that named as many GPUs as all since, or one    *)
(* that did not came with it or after it and is still among the samples.   *)
SteadyInv ==
    Current =>
        \A s \in st.samples :
            LET view == hist.view[s.node]
            IN  /\ hist.steady[s.node] # None
                /\ s.at = hist.last[s.node] => Sight(st.samples, s.node, s.at) = view
                /\ IF hist.steady[s.node] <= s.at
                   THEN Seen(st.samples, s.node, s.at) = Cardinality(view)
                   ELSE \E u \in OfNode(st.samples, s.node) :
                           s.at <= u.at /\ Seen(st.samples, s.node, u.at) # Cardinality(view)

NextSeen(n, t) == \E u \in OfNode(st.samples, n) : t < u.at /\ u.at - t <= Pace

(* All of the record that the window can ask for is among the samples.     *)
CompleteInv ==
    Current =>
        \A n \in Nodes :
            hist.clean[n] # None =>
                /\ hist.clean[n] >= judged - Window =>
                      \E u \in OfNode(st.samples, n) : u.at = hist.clean[n]
                /\ \A t \in Nat :
                      hist.clean[n] <= t /\ t < hist.last[n] /\ t + 1 >= judged - Window
                      => NextSeen(n, t)

SeenInv == PaceInv /\ SightInv /\ SteadyInv

WholeInv == SeenInv /\ CompleteInv

(* A report that does not come at the pace is behind a hole.               *)
Paced ==
    \A n \in Nodes :
        hist.last[n] # None /\ hist'.last[n] # hist.last[n] =>
            \/ hist'.last[n] - hist.last[n] <= Pace
            \/ hist'.last[n] - hist.last[n] > MaxSampleGap

LEMMA BatchOnce ==
    ASSUME NEW report, NEW stamp, NEW s \in Batch(report, stamp), NEW u \in Batch(report, stamp),
           s.node = u.node, s.gpu = u.gpu
    PROVE  s = u
 BY DEF Batch

(* A punctual cycle: what is new is dated now, and what is kept is older.  *)
LEMMA PunctualCycle ==
    ASSUME Punctual, TypeOK, EvidenceInv, PaceInv, start # None, judged < clock,
           start' = start, clock' = clock,
           NEW report \in [Nodes -> Reports], NEW stamp \in Stamps,
           NEW exempt \in ExemptAnswers, Judge(report, stamp, exempt)
    PROVE  /\ Current' /\ judged' = clock
           /\ \A s : s \in st'.samples <=>
                 /\ s.at >= clock - Window
                 /\ \/ Current /\ s \in st.samples
                    \/ s \in Batch(report, stamp) /\ clock >= start + Warmup
           /\ \A s \in st.samples : Current => s.at < clock
           /\ \A s \in Batch(report, stamp) : s.at = clock
           /\ \A n \in Nodes :
                 /\ hist'.last[n] = clock /\ hist.last[n] < clock
                 /\ hist'.view[n] = DOMAIN report[n]
                 /\ hist'.clean[n] = CleanAfter(hist, report, stamp, start + Warmup, n)
                 /\ hist'.steady[n] = SteadyAfter(hist, report, stamp, start + Warmup, n)
                 /\ stamp[n] = clock
<1>1. /\ stamp \in [Nodes -> Nat]
      /\ \A n \in Nodes : stamp[n] = clock
      /\ \A s \in Batch(report, stamp) : s.node \in Nodes /\ s.at = clock
  <2>1. clock \in Nat
    BY DEF TypeOK
  <2>2. \A n \in Nodes : stamp[n] \in Nat /\ stamp[n] <= clock /\ stamp[n] >= clock - 0
    BY <2>1, BatchType DEF Punctual
  <2>3. \A n \in Nodes : stamp[n] = clock
    BY <2>1, <2>2
  <2> QED
    BY <2>1, <2>3, BatchType
<1>2. /\ st'.startTime = start /\ judged' = clock
      /\ \A s : s \in st'.samples <=>
            /\ s.at >= clock - Window
            /\ \/ st.startTime = start /\ s \in st.samples
               \/ s \in Batch(report, stamp) /\ s.at >= start + Warmup
      /\ hist'.last = stamp
      /\ \A n \in Nodes : hist'.clean[n] = CleanAfter(hist, report, stamp, start + Warmup, n)
  BY CycleEffect, JudgeAs
<1>3. \A n \in Nodes :
         /\ hist'.view[n] = DOMAIN report[n]
         /\ hist'.steady[n] = SteadyAfter(hist, report, stamp, start + Warmup, n)
  <2>1. PICK f : hist' = Remember(hist, report, stamp, clock, start + Warmup, f)
    BY JudgeAs
  <2> QED
    BY <2>1 DEF Remember
<1>t. clock \in Int /\ judged \in Int /\ \A n \in Nodes : hist.last[n] \in Int
  <2>1. clock \in Nat /\ judged \in Time /\ hist \in HistoryType
    BY DEF TypeOK
  <2> QED
    BY <2>1 DEF HistoryType, Time
<1>4. \A n \in Nodes : hist.last[n] < clock
  BY <1>t DEF PaceInv
<1>5. \A s \in st.samples : Current => s.at < clock
  <2> SUFFICES ASSUME NEW s \in st.samples, Current PROVE s.at < clock
    OBVIOUS
  <2>1. s \in SampleType
    BY DEF TypeOK, StateType
  <2>2. s.at \in Nat /\ s.node \in Nodes /\ s.at <= hist.last[s.node]
    BY <2>1 DEF SampleType, EvidenceInv, SamplesInv
  <2> QED
    BY <1>t, <1>4, <2>2
<1> QED
  BY <1>1, <1>2, <1>3, <1>4, <1>5 DEF Current

(* What the reports that are kept named, and what the new ones name.       *)
LEMMA SightKept ==
    ASSUME Punctual, TypeOK, EvidenceInv, PaceInv, start # None, judged < clock,
           start' = start, clock' = clock,
           NEW report \in [Nodes -> Reports], NEW stamp \in Stamps,
           NEW exempt \in ExemptAnswers, Judge(report, stamp, exempt), NEW n \in Nodes
    PROVE  /\ \A t \in Nat : Current /\ t < clock /\ t >= clock - Window =>
                 Sight(st'.samples, n, t) = Sight(st.samples, n, t)
           /\ clock >= start + Warmup => Sight(st'.samples, n, clock) = DOMAIN report[n]
<1> DEFINE new == Batch(report, stamp)
<1>1. /\ \A s : s \in st'.samples <=>
            /\ s.at >= clock - Window
            /\ \/ Current /\ s \in st.samples
               \/ s \in new /\ clock >= start + Warmup
      /\ \A s \in st.samples : Current => s.at < clock
      /\ \A s \in new : s.at = clock
  BY PunctualCycle
<1>2. clock \in Nat /\ Window \in Nat
  BY ThresholdsAssumption DEF TypeOK
<1>3. ASSUME NEW t \in Nat, Current, t < clock, t >= clock - Window
      PROVE  Sight(st'.samples, n, t) = Sight(st.samples, n, t)
  <2>1. OfTime(st'.samples, n, t) = OfTime(st.samples, n, t)
    BY <1>1, <1>2, <1>3 DEF OfTime, OfNode
  <2> QED
    BY <2>1 DEF Sight
<1>4. ASSUME clock >= start + Warmup
      PROVE  Sight(st'.samples, n, clock) = DOMAIN report[n]
  <2>1. OfTime(st'.samples, n, clock) = OfNode(new, n)
    BY <1>1, <1>2, <1>4 DEF OfTime, OfNode
  <2>2. /\ \A s \in OfNode(new, n) : s.gpu \in DOMAIN report[n]
        /\ \A g \in DOMAIN report[n] : \E s \in OfNode(new, n) : s.gpu = g
    BY BatchType DEF TypeOK, OfNode
  <2> QED
    BY <2>1, <2>2 DEF Sight
<1> QED
  BY <1>3, <1>4

(* The times the invariants compare are numbers.                           *)
LEMMA TimesAreInts ==
    ASSUME TypeOK
    PROVE  /\ clock \in Nat /\ judged \in Int /\ judged <= clock /\ start \in Int
           /\ start # None => start \in Nat
           /\ Window \in Nat \ {0} /\ Warmup \in Nat /\ MaxSampleGap \in Nat \ {0}
           /\ MaxSampleGap < Window
           /\ \A n \in Nodes : /\ hist.clean[n] \in Int /\ hist.last[n] \in Int
                               /\ hist.steady[n] \in Int
                               /\ hist.clean[n] # None => hist.clean[n] \in Nat
           /\ \A s \in st.samples : s.node \in Nodes /\ s.at \in Nat /\ s.gpu \in UNION Views
<1>1. /\ clock \in Nat /\ judged \in Time /\ hist \in HistoryType /\ start \in Time
      /\ judged <= clock /\ st.samples \subseteq SampleType
  BY DEF TypeOK, StateType
<1> QED
  BY <1>1, ThresholdsAssumption DEF HistoryType, Time, SampleType

LEMMA PaceCycle ==
    ASSUME Punctual, TypeOK, EvidenceInv, PaceInv, start # None, judged < clock,
           start' = start, clock' = clock,
           NEW report \in [Nodes -> Reports], NEW stamp \in Stamps,
           NEW exempt \in ExemptAnswers, Judge(report, stamp, exempt)
    PROVE  PaceInv'
<1> SUFFICES ASSUME NEW n \in Nodes
             PROVE  hist'.last[n] <= judged' /\ hist'.steady[n] <= hist'.last[n]
  BY DEF PaceInv
<1>1. /\ judged' = clock /\ hist'.last[n] = clock /\ hist.last[n] < clock /\ stamp[n] = clock
      /\ hist'.steady[n] = SteadyAfter(hist, report, stamp, start + Warmup, n)
  BY PunctualCycle
<1>2. clock \in Nat /\ hist.steady[n] \in Int /\ hist.last[n] \in Int
  BY TimesAreInts
<1>3. hist.steady[n] <= hist.last[n]
  BY DEF PaceInv
<1> QED
  BY <1>1, <1>2, <1>3 DEF SteadyAfter

LEMMA SightCycle ==
    ASSUME Punctual, TypeOK, EvidenceInv, PaceInv, SightInv, start # None, judged < clock,
           start' = start, clock' = clock,
           NEW report \in [Nodes -> Reports], NEW stamp \in Stamps,
           NEW exempt \in ExemptAnswers, Judge(report, stamp, exempt)
    PROVE  SightInv'
<1> DEFINE new == Batch(report, stamp)
<1>1. /\ \A s : s \in st'.samples <=>
            /\ s.at >= clock - Window
            /\ \/ Current /\ s \in st.samples
               \/ s \in new /\ clock >= start + Warmup
      /\ \A s \in st.samples : Current => s.at < clock
      /\ \A s \in new : s.at = clock
      /\ \A n \in Nodes :
            /\ hist'.clean[n] = CleanAfter(hist, report, stamp, start + Warmup, n)
            /\ stamp[n] = clock /\ hist.last[n] < clock
  BY PunctualCycle
<1>2. /\ \A s \in new : /\ s.node \in Nodes /\ s.gpu \in DOMAIN report[s.node]
                        /\ s.read = report[s.node][s.gpu]
      /\ \A n \in Nodes : \E s \in new : s.node = n
      /\ \A n \in Nodes : DOMAIN report[n] \in Views
  BY BatchType DEF TypeOK
<1>3. /\ clock \in Nat /\ Window \in Nat /\ Warmup \in Nat /\ start \in Nat
      /\ \A n \in Nodes : hist.clean[n] \in Int /\ hist.last[n] \in Int
      /\ \A s \in st.samples : s.node \in Nodes /\ s.at \in Nat
  BY TimesAreInts
<1>4. \A s, u \in new : s.node = u.node /\ s.gpu = u.gpu => s = u
  BY BatchOnce
<1>5. Single(st'.samples)
  <2>1. \A s \in st'.samples : \/ Current /\ s \in st.samples /\ s.at < clock
                               \/ s \in new /\ s.at = clock
    BY <1>1
  <2> HIDE DEF new
  <2> SUFFICES ASSUME NEW s \in st'.samples, NEW u \in st'.samples,
                      s.node = u.node, s.at = u.at, s.gpu = u.gpu
               PROVE  s = u
    BY DEF Single
  <2>2. CASE s \in new /\ s.at = clock
    <3>1. clock \in Nat /\ u.at = clock
      BY <1>3, <2>2
    <3>2. u \in new
      BY <2>1, <3>1
    <3> QED
      BY <1>4, <2>2, <3>2
  <2>3. CASE Current /\ s \in st.samples /\ s.at < clock
    <3>1. u \in st.samples
      BY <1>3, <2>1, <2>3
    <3> QED
      BY <2>3, <3>1 DEF SightInv, Single
  <2> QED
    BY <2>1, <2>2, <2>3
<1>6. ASSUME NEW s \in st'.samples
      PROVE  /\ Sight(st'.samples, s.node, s.at) \in Views
             /\ InRecord(s)' => ~Breaking(s.read)
             /\ \A n \in Nodes : \E u \in OfNode(st'.samples, n) : u.at = s.at
  <2>1. CASE s \in new /\ clock >= start + Warmup
    <3>1. s.at = clock /\ s.node \in Nodes /\ clock >= clock - Window
      BY <1>1, <1>2, <1>3, <2>1
    <3>2. Sight(st'.samples, s.node, s.at) \in Views
      BY <1>2, <2>1, <3>1, SightKept
    <3>3. InRecord(s)' => ~Breaking(s.read)
      <4>1. s.gpu \in DOMAIN report[s.node] /\ s.read = report[s.node][s.gpu]
        BY <1>2, <2>1
      <4>2. hist'.clean[s.node] # None => ~Breaking(s.read)
        BY <1>1, <1>3, <2>1, <3>1, <4>1 DEF CleanAfter
      <4> QED
        BY <4>2 DEF InRecord
    <3>4. \A n \in Nodes : \E u \in OfNode(st'.samples, n) : u.at = s.at
      <4> SUFFICES ASSUME NEW n \in Nodes
                   PROVE  \E u \in OfNode(st'.samples, n) : u.at = s.at
        OBVIOUS
      <4>1. PICK u \in new : u.node = n
        BY <1>2
      <4>2. u.at = clock
        BY <1>1
      <4>3. u \in st'.samples
        BY <1>1, <2>1, <3>1, <4>2
      <4> QED
        BY <3>1, <4>1, <4>2, <4>3 DEF OfNode
    <3> QED
      BY <3>2, <3>3, <3>4
  <2>2. CASE Current /\ s \in st.samples
    <3>1. s.at < clock /\ s.at >= clock - Window /\ s.at \in Nat /\ s.node \in Nodes
      BY <1>1, <1>3, <2>2
    <3>2. Sight(st'.samples, s.node, s.at) \in Views
      BY <2>2, <3>1, SightKept DEF SightInv
    <3>3. InRecord(s)' => ~Breaking(s.read)
      <4>1. \/ hist'.clean[s.node] = hist.clean[s.node]
            \/ hist'.clean[s.node] = None
            \/ hist'.clean[s.node] = clock
        BY <1>1, <3>1, Zenon DEF CleanAfter
      <4>2. InRecord(s)' => InRecord(s)
        BY <1>3, <3>1, <4>1 DEF InRecord
      <4> QED
        BY <2>2, <4>2 DEF SightInv
    <3>4. \A n \in Nodes : \E u \in OfNode(st'.samples, n) : u.at = s.at
      <4> SUFFICES ASSUME NEW n \in Nodes
                   PROVE  \E u \in OfNode(st'.samples, n) : u.at = s.at
        OBVIOUS
      <4>1. PICK u \in OfNode(st.samples, n) : u.at = s.at
        BY <2>2 DEF SightInv
      <4>2. u \in st'.samples
        BY <1>1, <2>2, <3>1, <4>1 DEF OfNode
      <4> QED
        BY <4>1, <4>2 DEF OfNode
    <3> QED
      BY <3>2, <3>3, <3>4
  <2> QED
    BY <1>1, <2>1, <2>2
<1> QED
  BY <1>5, <1>6 DEF SightInv

LEMMA SteadyCycle ==
    ASSUME Punctual, TypeOK, EvidenceInv, PaceInv, SteadyInv, start # None, judged < clock,
           start' = start, clock' = clock,
           NEW report \in [Nodes -> Reports], NEW stamp \in Stamps,
           NEW exempt \in ExemptAnswers, Judge(report, stamp, exempt)
    PROVE  SteadyInv'
<1> DEFINE new == Batch(report, stamp)
<1>1. /\ Current'
      /\ \A s : s \in st'.samples <=>
            /\ s.at >= clock - Window
            /\ \/ Current /\ s \in st.samples
               \/ s \in new /\ clock >= start + Warmup
      /\ \A s \in st.samples : Current => s.at < clock
      /\ \A s \in new : s.at = clock
      /\ \A n \in Nodes :
            /\ hist'.steady[n] = SteadyAfter(hist, report, stamp, start + Warmup, n)
            /\ hist'.view[n] = DOMAIN report[n]
            /\ stamp[n] = clock /\ hist.last[n] < clock /\ hist'.last[n] = clock
  BY PunctualCycle
<1>2. \A s \in new : s.node \in Nodes
  BY BatchType DEF TypeOK
<1>3. /\ clock \in Nat /\ Window \in Nat /\ Warmup \in Nat /\ start \in Nat
      /\ \A n \in Nodes : hist.steady[n] \in Int /\ hist.last[n] \in Int
      /\ \A s \in st.samples : s.node \in Nodes /\ s.at \in Nat
  BY TimesAreInts
<1> SUFFICES ASSUME NEW s \in st'.samples
             PROVE  /\ hist'.steady[s.node] # None
                    /\ s.at = hist'.last[s.node] =>
                          Sight(st'.samples, s.node, s.at) = hist'.view[s.node]
                    /\ IF hist'.steady[s.node] <= s.at
                       THEN Seen(st'.samples, s.node, s.at) = Cardinality(hist'.view[s.node])
                       ELSE \E u \in OfNode(st'.samples, s.node) :
                               /\ s.at <= u.at
                               /\ Seen(st'.samples, s.node, u.at) # Cardinality(hist'.view[s.node])
  BY DEF SteadyInv
<1> DEFINE n == s.node
           named == DOMAIN report[n]
<1>4. n \in Nodes /\ clock >= start + Warmup
  <2>1. CASE s \in new /\ clock >= start + Warmup
    BY <1>2, <2>1
  <2>2. CASE Current /\ s \in st.samples
    <3>1. start + Warmup <= s.at /\ s.at < clock /\ n \in Nodes /\ s.at \in Nat
      BY <1>1, <1>3, <2>2 DEF EvidenceInv, SamplesInv
    <3> QED
      BY <1>3, <3>1
  <2> QED
    BY <1>1, <2>1, <2>2
<1>5. hist'.steady[n] = IF \/ hist.steady[n] = None
                           \/ Cardinality(named) # Cardinality(hist.view[n])
                        THEN clock ELSE hist.steady[n]
  BY <1>1, <1>3, <1>4 DEF SteadyAfter
<1>6. hist.steady[n] <= hist.last[n] /\ hist'.view[n] = named /\ hist'.last[n] = clock
  BY <1>1, <1>4 DEF PaceInv
<1> HIDE DEF n, named
<1>7. CASE s.at = clock
  <2>1. Sight(st'.samples, n, s.at) = named
    BY <1>4, <1>7, SightKept DEF named
  <2>2. hist'.steady[n] # None /\ hist'.steady[n] <= clock
    BY <1>1, <1>3, <1>4, <1>5, <1>6
  <2> QED
    BY <1>6, <1>7, <2>1, <2>2 DEF n, Seen
<1>8. CASE s.at # clock
  <2>1. /\ Current /\ s \in st.samples /\ s.at < clock /\ s.at >= clock - Window
        /\ s.at \in Nat /\ hist.steady[n] # None
    BY <1>1, <1>3, <1>8 DEF SteadyInv, n
  <2>2. ASSUME NEW u \in OfNode(st.samples, n), s.at <= u.at
        PROVE  /\ u \in OfNode(st'.samples, n)
               /\ Seen(st'.samples, n, u.at) = Seen(st.samples, n, u.at)
    <3>1. u \in st.samples /\ u.node = n /\ u.at < clock /\ u.at >= clock - Window /\ u.at \in Nat
      BY <1>1, <1>3, <2>1, <2>2 DEF OfNode
    <3>2. u \in OfNode(st'.samples, n)
      BY <1>1, <2>1, <3>1 DEF OfNode
    <3>3. Seen(st'.samples, n, u.at) = Seen(st.samples, n, u.at)
      BY <1>4, <2>1, <3>1, SightKept DEF Seen
    <3> QED
      BY <3>2, <3>3
  <2>3. s \in OfNode(st.samples, n) /\ s.at <= s.at
    BY <2>1 DEF OfNode, n
  <2>l. s.at # hist'.last[n]
    BY <1>6, <1>8
  <2>4. CASE Cardinality(named) = Cardinality(hist.view[n])
    <3>1. /\ hist'.steady[n] = hist.steady[n]
          /\ Cardinality(hist'.view[n]) = Cardinality(hist.view[n])
      BY <1>5, <1>6, <2>1, <2>4
    <3>2. CASE hist.steady[n] <= s.at
      <4>1. Seen(st.samples, n, s.at) = Cardinality(hist.view[n])
        BY <2>1, <3>2 DEF SteadyInv, n
      <4> QED
        BY <2>1, <2>2, <2>3, <2>l, <3>1, <3>2, <4>1 DEF n
    <3>3. CASE ~(hist.steady[n] <= s.at)
      <4>1. PICK u \in OfNode(st.samples, n) :
               s.at <= u.at /\ Seen(st.samples, n, u.at) # Cardinality(hist.view[n])
        BY <2>1, <3>3 DEF SteadyInv, n
      <4> QED
        BY <2>1, <2>2, <2>l, <3>1, <3>3, <4>1 DEF n
    <3> QED
      BY <3>2, <3>3
  <2>5. CASE Cardinality(named) # Cardinality(hist.view[n])
    <3>1. hist'.steady[n] = clock /\ ~(clock <= s.at) /\ clock # None
      BY <1>3, <1>5, <2>1, <2>5
    <3>2. PICK u \in OfNode(st.samples, n) : u.at = hist.last[n]
      BY <2>1 DEF EvidenceInv, SamplesInv, n
    <3>3. s.at <= u.at
      BY <2>1, <3>2 DEF EvidenceInv, SamplesInv, n
    <3>4. Seen(st.samples, n, u.at) = Cardinality(hist.view[n])
      BY <2>1, <3>2 DEF SteadyInv, OfNode, Seen
    <3>5. Seen(st'.samples, n, u.at) # Cardinality(hist'.view[n])
      BY <1>6, <2>2, <2>5, <3>3, <3>4
    <3>6. u \in OfNode(st'.samples, n)
      BY <2>2, <3>3
    <3> QED
      BY <2>1, <2>l, <3>1, <3>3, <3>5, <3>6 DEF n
  <2> QED
    BY <2>4, <2>5
<1> QED
  BY <1>7, <1>8

LEMMA CompleteCycle ==
    ASSUME Punctual, Dense, Paced, TypeOK, EvidenceInv, PaceInv, CompleteInv, start # None, judged < clock,
           start' = start, clock' = clock,
           NEW report \in [Nodes -> Reports], NEW stamp \in Stamps,
           NEW exempt \in ExemptAnswers, Judge(report, stamp, exempt)
    PROVE  CompleteInv'
<1> DEFINE new == Batch(report, stamp)
<1>1. /\ judged' = clock
      /\ \A s : s \in st'.samples <=>
            /\ s.at >= clock - Window
            /\ \/ Current /\ s \in st.samples
               \/ s \in new /\ clock >= start + Warmup
      /\ \A s \in new : s.at = clock
      /\ \A n \in Nodes :
            /\ hist'.clean[n] = CleanAfter(hist, report, stamp, start + Warmup, n)
            /\ hist'.last[n] = clock /\ stamp[n] = clock /\ hist.last[n] < clock
  BY PunctualCycle
<1>2. \A n \in Nodes : \E s \in new : s.node = n
  BY BatchType DEF TypeOK
<1>3. /\ clock \in Nat /\ Window \in Nat /\ Warmup \in Nat /\ start \in Nat
      /\ MaxSampleGap \in Nat /\ Pace \in Nat \ {0} /\ judged \in Int
      /\ \A n \in Nodes : /\ hist.clean[n] \in Int /\ hist.last[n] \in Int
                          /\ hist.clean[n] # None => hist.clean[n] \in Nat
      /\ \A s \in st.samples : s.node \in Nodes /\ s.at \in Nat
  BY TimesAreInts DEF Dense
<1> SUFFICES ASSUME NEW n \in Nodes, hist'.clean[n] # None
             PROVE  /\ hist'.clean[n] >= clock - Window =>
                          \E u \in OfNode(st'.samples, n) : u.at = hist'.clean[n]
                    /\ \A t \in Nat :
                          hist'.clean[n] <= t /\ t < clock /\ t + 1 >= clock - Window
                          => \E u \in OfNode(st'.samples, n) : t < u.at /\ u.at - t <= Pace
  BY <1>1 DEF CompleteInv, NextSeen
<1>4. clock >= start + Warmup
  <2>1. SUFFICES ASSUME clock < start + Warmup PROVE FALSE
    BY <1>3
  <2>2. hist.clean[n] # None
    BY <1>1, <2>1 DEF CleanAfter
  <2>3. start + Warmup <= hist.clean[n] /\ hist.clean[n] <= hist.last[n]
    BY <2>2 DEF EvidenceInv, RecordInv
  <2> QED
    BY <1>1, <1>3, <2>1, <2>3
<1>5. PICK now \in OfNode(st'.samples, n) : now.at = clock
  <2>1. PICK s \in new : s.node = n
    BY <1>2
  <2>2. s.at = clock /\ clock >= clock - Window
    BY <1>1, <1>3
  <2>3. s \in st'.samples
    BY <1>1, <1>4, <2>2
  <2> QED
    BY <2>1, <2>2, <2>3 DEF OfNode
<1>6. hist'.clean[n] = IF hist.clean[n] = None \/ clock - hist.last[n] > MaxSampleGap
                       THEN clock ELSE hist.clean[n]
  BY <1>1, <1>3, <1>4 DEF CleanAfter
<1>7. CASE hist'.clean[n] = clock
  BY <1>3, <1>5, <1>7
<1>8. CASE /\ hist'.clean[n] = hist.clean[n] /\ hist.clean[n] # None
           /\ clock - hist.last[n] <= MaxSampleGap
  <2>1. Current
    BY <1>8 DEF EvidenceInv, RecordInv
  <2>p. clock - hist.last[n] <= Pace
    <3>1. hist.clean[n] <= hist.last[n] /\ hist.last[n] # None
      BY <1>3, <1>8 DEF EvidenceInv, RecordInv
    <3> QED
      BY <1>1, <1>3, <1>8, <3>1 DEF Paced
  <2>2. ASSUME NEW u \in OfNode(st.samples, n), u.at >= clock - Window
        PROVE  u \in OfNode(st'.samples, n)
    BY <1>1, <2>1, <2>2 DEF OfNode
  <2>3. ASSUME hist'.clean[n] >= clock - Window
        PROVE  \E u \in OfNode(st'.samples, n) : u.at = hist'.clean[n]
    <3>1. hist.clean[n] >= judged - Window
      BY <1>3, <1>8, <2>3
    <3>2. PICK u \in OfNode(st.samples, n) : u.at = hist.clean[n]
      BY <1>8, <2>1, <3>1 DEF CompleteInv
    <3> QED
      BY <1>8, <2>2, <2>3, <3>2
  <2>4. ASSUME NEW t \in Nat, hist'.clean[n] <= t, t < clock, t + 1 >= clock - Window
        PROVE  \E u \in OfNode(st'.samples, n) : t < u.at /\ u.at - t <= Pace
    <3>1. CASE t < hist.last[n]
      <4>1. t + 1 >= judged - Window
        BY <1>3, <2>4
      <4>2. PICK u \in OfNode(st.samples, n) : t < u.at /\ u.at - t <= Pace
        BY <1>8, <2>1, <2>4, <3>1, <4>1 DEF CompleteInv, NextSeen
      <4>3. u.at >= clock - Window
        BY <1>3, <2>4, <4>2 DEF OfNode
      <4> QED
        BY <2>2, <4>2, <4>3
    <3>2. CASE ~(t < hist.last[n])
      <4>1. t < now.at /\ now.at - t <= Pace
        BY <1>3, <1>5, <1>8, <2>4, <2>p, <3>2
      <4> QED
        BY <4>1
    <3> QED
      BY <3>1, <3>2
  <2> QED
    BY <2>3, <2>4
<1> QED
  BY <1>3, <1>6, <1>7, <1>8

(* Nothing but a cycle changes the samples or the reports, except what     *)
(* voids them.                                                             *)
LEMMA SeenSame ==
    ASSUME SeenInv, start' = start, judged' = judged,
           st'.startTime = st.startTime, st'.samples = st.samples,
           hist'.clean = hist.clean, hist'.last = hist.last, hist'.view = hist.view,
           hist'.steady = hist.steady
    PROVE  SeenInv'
<1>1. Current' = Current
  BY DEF Current
<1> QED
  BY <1>1 DEF SeenInv, PaceInv, SightInv, SteadyInv, InRecord

LEMMA SeenVoid ==
    ASSUME ~Current', PaceInv' PROVE SeenInv'
BY DEF SeenInv, SightInv, SteadyInv

(* What is left of the history when the engine's memory is void.           *)
LEMMA HistoryVoid ==
    ASSUME hist' = Broken(hist) \/ hist' = [Broken(hist) EXCEPT !.billed = 0]
    PROVE  /\ hist'.last = hist.last /\ hist'.drained = None
           /\ hist'.billed = hist.billed \/ hist'.billed = 0
           /\ \A n \in Nodes : hist'.clean[n] = None /\ hist'.steady[n] = None
<1> DEFINE b == Broken(hist)
<1>1. /\ b.last = hist.last /\ b.drained = None /\ b.billed = hist.billed
      /\ \A n \in Nodes : b.clean[n] = None /\ b.steady[n] = None
      /\ b = [field \in DOMAIN NoRecord |-> b[field]]
      /\ {"clean", "last", "steady", "drained", "billed"} \subseteq DOMAIN NoRecord
  BY DEF Broken, NoRecord
<1>2. CASE hist' = b
  BY <1>1, <1>2
<1>3. CASE hist' = [b EXCEPT !.billed = 0]
  <2> HIDE DEF b
  <2> QED
    BY <1>1, <1>3
<1> QED
  BY <1>2, <1>3

LEMMA SeenInit == Init => SeenInv
<1> SUFFICES ASSUME Init PROVE SeenInv
  OBVIOUS
<1>1. ~Current
  BY DEF Init, Current, NoState, FreshState
<1>2. PaceInv
  BY DEF Init, PaceInv, NoRecord
<1> QED
  BY <1>1, <1>2 DEF SeenInv, SightInv, SteadyInv

LEMMA SeenStep ==
    ASSUME Punctual
    PROVE  TypeOK /\ EvidenceInv /\ SeenInv /\ [Next]_vars => SeenInv'
<1> SUFFICES ASSUME TypeOK, EvidenceInv, SeenInv, [Next]_vars PROVE SeenInv'
  OBVIOUS
<1>s. NoState.startTime = None
  BY DEF NoState, FreshState
<1>v. ASSUME hist' = Broken(hist) \/ hist' = [Broken(hist) EXCEPT !.billed = 0],
             judged' = judged \/ (judged < clock /\ judged' = clock)
      PROVE  PaceInv'
  <2> SUFFICES ASSUME NEW n \in Nodes
               PROVE  hist'.last[n] <= judged' /\ hist'.steady[n] <= hist'.last[n]
    BY DEF PaceInv
  <2>1. hist'.last[n] = hist.last[n] /\ hist'.steady[n] = None
    BY <1>v, HistoryVoid
  <2>2. hist.last[n] \in Time /\ judged \in Int /\ clock \in Nat
    <3>1. hist \in HistoryType /\ judged \in Time /\ clock \in Nat
      BY DEF TypeOK
    <3> QED
      BY <3>1 DEF HistoryType, Time
  <2>3. hist.last[n] <= judged
    BY DEF SeenInv, PaceInv
  <2>4. judged' \in Int /\ judged <= judged'
    <3>1. judged' = judged \/ (judged < clock /\ judged' = clock)
      BY <1>v
    <3> QED
      BY <2>2, <3>1
  <2> QED
    BY <2>1, <2>2, <2>3, <2>4 DEF Time
<1>1. CASE Tick \/ UNCHANGED vars
  <2>1. start' = start /\ judged' = judged /\ st' = st /\ hist' = hist
    BY <1>1 DEF Tick, vars
  <2> QED
    BY <2>1, SeenSame
<1>2. CASE Cycle
  <2>1. PICK report \in [Nodes -> Reports], stamp \in Stamps, exempt \in ExemptAnswers :
           Judge(report, stamp, exempt)
    BY <1>2 DEF Cycle
  <2>2. start # None /\ judged < clock /\ clock' = clock /\ start' = start
    BY <1>2 DEF Cycle
  <2> QED
    BY <2>1, <2>2, PaceCycle, SightCycle, SteadyCycle DEF SeenInv
<1>3. CASE CycleWithoutStart \/ Drop \/ Forget \/ Restart
  <2>1. st' = NoState
    BY <1>3, NothingJudged DEF Drop, Forget, Restart
  <2>2. ~Current'
    BY <1>s, <2>1 DEF Current
  <2>3. /\ hist' = Broken(hist) \/ hist' = [Broken(hist) EXCEPT !.billed = 0]
        /\ judged' = judged \/ (judged < clock /\ judged' = clock)
    BY <1>3 DEF CycleWithoutStart, Drop, Forget, Restart
  <2> QED
    BY <1>v, <2>2, <2>3, SeenVoid
<1>4. CASE DrainExecuted
  <2>1. st'.startTime = st.startTime /\ st'.samples = st.samples
    BY <1>4 DEF DrainExecuted, ConfirmDrain, TypeOK, StateType
  <2>2. /\ hist'.clean = hist.clean /\ hist'.last = hist.last /\ hist'.view = hist.view
        /\ hist'.steady = hist.steady
    BY <1>4 DEF DrainExecuted, TypeOK, HistoryType
  <2>3. start' = start /\ judged' = judged
    BY <1>4 DEF DrainExecuted
  <2> QED
    BY <2>1, <2>2, <2>3, SeenSame
<1>5. CASE End
  <2>1. ~Current' /\ judged' = judged /\ hist' = hist
    BY <1>5 DEF End, Current
  <2>2. PaceInv'
    BY <2>1 DEF SeenInv, PaceInv
  <2> QED
    BY <2>1, <2>2, SeenVoid
<1>6. CASE Requeue
  <2>1. st' = st /\ start' = clock /\ judged' = judged /\ st.startTime < clock
    BY <1>6 DEF Requeue
  <2>2. ~Current'
    BY <2>1 DEF Current, TypeOK
  <2>3. PaceInv'
    BY <1>6, <1>v, <2>1 DEF Requeue
  <2> QED
    BY <2>2, <2>3, SeenVoid
<1> QED
  BY <1>1, <1>2, <1>3, <1>4, <1>5, <1>6 DEF Next

-----------------------------------------------------------------------------
(***************************************************************************)
(* Every report of the window named as many GPUs.                          *)
(***************************************************************************)
(* Where the count of GPUs was the same at all times, the nodes have named *)
(* as many as in their last reports since before the first of them.        *)
LEMMA CoveredSights ==
    ASSUME TypeOK', EvidenceInv', SeenInv', Current', NEW now,
           Covered(st'.samples, Nodes, GPUCount, now),
           NEW n \in Nodes, NEW s \in OfNode(st'.samples, n)
    PROVE  /\ hist'.steady[n] <= s.at
           /\ Seen(st'.samples, n, s.at) = Cardinality(hist'.view[n])
           /\ hist'.view[n] \in Views
<1>1. \A u \in OfNode(st'.samples, n) :
         /\ u \in st'.samples /\ u.node = n
         /\ u.at \in Times(st'.samples, n)
  BY DEF OfNode, Times
<1>2. /\ Single(st'.samples)
      /\ \A u \in OfNode(st'.samples, n) : Sight(st'.samples, n, u.at) \in Views
  BY <1>1 DEF SeenInv, SightInv
<1>3. ASSUME NEW u \in OfNode(st'.samples, n)
      PROVE  CountAt(st'.samples, n, u.at) = Seen(st'.samples, n, u.at)
  <2>1. Sight(st'.samples, n, u.at) \subseteq UNION Views
    BY <1>2
  <2>2. IsFiniteSet(Sight(st'.samples, n, u.at))
    BY <2>1, WatchAssumption, FS_Subset
  <2> QED
    BY <1>2, <2>2, CountIsSight DEF Seen
<1>4. PICK l \in OfNode(st'.samples, n) : l.at = hist'.last[n]
  BY <1>1 DEF EvidenceInv, SamplesInv
<1>5. Sight(st'.samples, n, l.at) = hist'.view[n]
  BY <1>1, <1>4 DEF SeenInv, SteadyInv
<1>6. ASSUME NEW u \in OfNode(st'.samples, n)
      PROVE  Seen(st'.samples, n, u.at) = Cardinality(hist'.view[n])
  <2>1. SteadyGPUs(st'.samples, n)
    BY DEF Covered
  <2>2. CountAt(st'.samples, n, u.at) = CountAt(st'.samples, n, l.at)
    BY <1>1, <2>1 DEF SteadyGPUs
  <2>3. Seen(st'.samples, n, u.at) = Seen(st'.samples, n, l.at)
    BY <1>3, <2>2
  <2> QED
    BY <1>5, <2>3 DEF Seen
<1>7. hist'.steady[n] <= s.at
  BY <1>1, <1>6 DEF SeenInv, SteadyInv
<1>8. hist'.view[n] \in Views
  BY <1>2, <1>4, <1>5
<1> QED
  BY <1>6, <1>7, <1>8

LEMMA SteadyStep ==
    ASSUME Punctual
    PROVE  /\ TypeOK /\ EvidenceInv /\ SeenInv /\ SteadySight
           /\ [Next]_vars
           => SteadySight'
<1> SUFFICES ASSUME TypeOK, EvidenceInv, SeenInv, SteadySight, [Next]_vars
             PROVE  SteadySight'
  OBVIOUS
<1>1. CASE Cycle
  <2>1. PICK report \in [Nodes -> Reports], stamp \in Stamps, exempt \in ExemptAnswers :
           Judge(report, stamp, exempt)
    BY <1>1 DEF Cycle
  <2>2. start # None /\ judged < clock /\ clock' = clock /\ start' = start
    BY <1>1 DEF Cycle
  <2>3. TypeOK' /\ EvidenceInv' /\ SeenInv'
    BY TypeStep, EvidenceStep, SeenStep
  <2>4. Current' /\ judged' = clock
    BY <2>1, <2>2, PunctualCycle DEF SeenInv
  <2> SUFFICES ASSUME finding'.verdict >= Watching, NEW n \in Nodes
               PROVE  hist'.steady[n] <= clock - Window + MaxSampleGap
    BY <2>4 DEF SteadySight, Reported
  <2>5. Covered(st'.samples, Nodes, GPUCount, clock)
    BY <2>1, <2>2, ReportIsCovered
  <2>6. PICK s \in OfNode(st'.samples, n) : s.at <= clock - Window + MaxSampleGap
    BY <2>5 DEF Covered, ReachesBack, Times
  <2>7. hist'.steady[n] <= s.at
    BY <2>3, <2>4, <2>5, CoveredSights
  <2>8. hist'.steady[n] \in Int /\ s.at \in Int /\ clock \in Int /\ Window \in Int /\ MaxSampleGap \in Int
    <3>1. hist' \in HistoryType /\ st'.samples \subseteq SampleType /\ clock \in Nat
      BY <2>3 DEF TypeOK, StateType
    <3> QED
      BY <3>1, ThresholdsAssumption DEF HistoryType, Time, OfNode, SampleType
  <2> QED
    BY <2>6, <2>7, <2>8
<1>2. CASE Tick \/ UNCHANGED vars
  <2>1. start' = start /\ judged' = judged /\ finding' = finding /\ hist' = hist
    BY <1>2 DEF Tick, vars
  <2> QED
    BY <2>1 DEF SteadySight, Reported
<1>3. CASE CycleWithoutStart \/ Drop \/ Forget \/ Restart
  <2>1. finding'.verdict = Healthy
    BY <1>3, NothingJudged DEF Drop, Forget, Restart, NoFinding, Nothing
  <2> QED
    BY <2>1 DEF SteadySight, Reported
<1>4. CASE DrainExecuted
  <2>1. hist'.steady = hist.steady
    BY <1>4 DEF DrainExecuted, TypeOK, HistoryType
  <2>2. start' = start /\ judged' = judged /\ finding' = finding
    BY <1>4 DEF DrainExecuted
  <2> QED
    BY <2>1, <2>2 DEF SteadySight, Reported
<1>5. CASE End
  BY <1>5 DEF End, SteadySight, Reported, EvidenceInv, FindingInv
<1>6. CASE Requeue
  <2>1. finding' = finding /\ start' = clock /\ finding.start < clock
    BY <1>6 DEF Requeue
  <2>2. finding.start \in Int /\ clock \in Int
    <3>1. finding \in FindingType /\ clock \in Nat
      BY DEF TypeOK
    <3> QED
      BY <3>1 DEF FindingType, Time
  <2> QED
    BY <2>1, <2>2 DEF SteadySight, Reported
<1> QED
  BY <1>1, <1>2, <1>3, <1>4, <1>5, <1>6 DEF Next

LEMMA SeenInduction ==
    ASSUME Punctual
    PROVE  Spec => [](TypeOK /\ EvidenceInv /\ SeenInv)
<1>1. Init => TypeOK /\ EvidenceInv /\ SeenInv
  BY TypeInit, EvidenceInit, SeenInit
<1>2. /\ TypeOK /\ EvidenceInv /\ SeenInv
      /\ [Next]_vars
      => (TypeOK /\ EvidenceInv /\ SeenInv)'
  BY TypeStep, EvidenceStep, SeenStep
<1> QED
  BY <1>1, <1>2, PTL DEF Spec

(* None of the reports a verdict rests on saw fewer GPUs of its node than  *)
(* another: coverage counts them, over all the samples that Observe keeps, *)
(* and a gap in them or a drop does not hide a change.  Reports that name  *)
(* other GPUs, but as many, it does not tell apart (SameSight).            *)
THEOREM SightCorrect ==
    ASSUME Punctual
    PROVE  Spec => []SteadySight
<1>1. Init => SteadySight
  BY DEF Init, SteadySight, Reported, NoFinding, Nothing
<1>2. TypeOK /\ EvidenceInv /\ SeenInv /\ SteadySight /\ [Next]_vars => SteadySight'
  BY SteadyStep
<1> QED
  BY <1>1, <1>2, SeenInduction, PTL DEF Spec

-----------------------------------------------------------------------------
(***************************************************************************)
(* A breach is reported.                                                   *)
(***************************************************************************)
(* What any other step than a cycle leaves, unless it voids the samples.   *)
LEMMA Untouched ==
    ASSUME TypeOK, [Next]_vars, ~Cycle
    PROVE  \/ ~Current'
           \/ /\ start' = start /\ judged' = judged
              /\ st'.startTime = st.startTime /\ st'.samples = st.samples
              /\ hist'.clean = hist.clean /\ hist'.last = hist.last
<1>1. CASE Tick \/ UNCHANGED vars
  BY <1>1 DEF Tick, vars
<1>2. CASE CycleWithoutStart \/ Drop \/ Forget \/ Restart
  <2>1. st' = NoState
    BY <1>2, NothingJudged DEF Drop, Forget, Restart
  <2> QED
    BY <2>1 DEF Current, NoState, FreshState
<1>3. CASE DrainExecuted
  <2>1. st'.startTime = st.startTime /\ st'.samples = st.samples
    BY <1>3 DEF DrainExecuted, ConfirmDrain, TypeOK, StateType
  <2>2. hist'.clean = hist.clean /\ hist'.last = hist.last
    BY <1>3 DEF DrainExecuted, TypeOK, HistoryType
  <2> QED
    BY <1>3, <2>1, <2>2 DEF DrainExecuted
<1>4. CASE End
  BY <1>4 DEF End, Current
<1>5. CASE Requeue
  BY <1>5 DEF Requeue, Current, TypeOK
<1> QED
  BY <1>1, <1>2, <1>3, <1>4, <1>5 DEF Next

LEMMA WholeStep ==
    ASSUME Punctual, Dense
    PROVE  TypeOK /\ EvidenceInv /\ WholeInv /\ [Next]_vars /\ [Paced]_vars => WholeInv'
<1> SUFFICES ASSUME TypeOK, EvidenceInv, WholeInv, [Next]_vars, [Paced]_vars
             PROVE  CompleteInv'
  BY SeenStep DEF WholeInv
<1>1. CASE Cycle
  <2>1. PICK report \in [Nodes -> Reports], stamp \in Stamps, exempt \in ExemptAnswers :
           Judge(report, stamp, exempt)
    BY <1>1 DEF Cycle
  <2>2. start # None /\ judged < clock /\ clock' = clock /\ start' = start
    BY <1>1 DEF Cycle
  <2>3. judged' = clock
    BY <2>1, <2>2, PunctualCycle DEF WholeInv, SeenInv
  <2>4. judged \in Int /\ clock \in Int
    BY DEF TypeOK, Time
  <2>5. vars' # vars
    BY <2>2, <2>3, <2>4 DEF vars
  <2>6. Paced
    BY <2>5
  <2> QED
    BY <2>1, <2>2, <2>6, CompleteCycle DEF WholeInv, SeenInv
<1>2. CASE ~Cycle
  <2>1. CASE ~Current'
    BY <2>1 DEF CompleteInv
  <2>2. CASE /\ start' = start /\ judged' = judged
             /\ st'.startTime = st.startTime /\ st'.samples = st.samples
             /\ hist'.clean = hist.clean /\ hist'.last = hist.last
    <3>1. Current' = Current
      BY <2>2 DEF Current
    <3> QED
      BY <2>2, <3>1 DEF WholeInv, CompleteInv, NextSeen
  <2> QED
    BY <1>2, <2>1, <2>2, Untouched
<1> QED
  BY <1>1, <1>2

LEMMA WholeInduction ==
    ASSUME Punctual, Dense
    PROVE  Spec /\ [][Paced]_vars => [](TypeOK /\ EvidenceInv /\ WholeInv)
<1>1. Init => TypeOK /\ EvidenceInv /\ WholeInv
  <2>1. Init => ~Current
    BY DEF Init, Current, NoState, FreshState
  <2> QED
    BY <2>1, TypeInit, EvidenceInit, SeenInit DEF WholeInv, CompleteInv
<1>2. /\ TypeOK /\ EvidenceInv /\ WholeInv
      /\ [Next]_vars /\ [Paced]_vars
      => (TypeOK /\ EvidenceInv /\ WholeInv)'
  BY TypeStep, EvidenceStep, WholeStep
<1> QED
  BY <1>1, <1>2, PTL DEF Spec

(* Where the record of every node began a window less one gap ago, or      *)
(* earlier, the samples cover the window.                                  *)
LEMMA WindowCovered ==
    ASSUME Punctual, Dense, TypeOK, TypeOK', EvidenceInv, EvidenceInv', WholeInv, WholeInv',
           start # None, judged < clock, start' = start, clock' = clock,
           NEW report \in [Nodes -> Reports], NEW stamp \in Stamps,
           NEW exempt \in ExemptAnswers, Judge(report, stamp, exempt),
           \A n \in Nodes : /\ hist'.clean[n] # None
                            /\ hist'.clean[n] < clock - Window + MaxSampleGap,
           \A s \in st'.samples : /\ hist'.clean[s.node] <= s.at
                                  /\ Seen(st'.samples, s.node, s.at)
                                        = Cardinality(hist'.view[s.node]),
           Cardinality(Viewed(hist'.view)) >= GPUCount
    PROVE  Covered(st'.samples, Nodes, GPUCount, clock) /\ ~Alive(st'.samples)
<1>1. /\ Current' /\ judged' = clock
      /\ \A s \in st'.samples : s.at >= clock - Window
      /\ \A n \in Nodes : hist'.last[n] = clock
  BY PunctualCycle DEF WholeInv, SeenInv
<1>2. /\ clock \in Nat /\ Window \in Nat \ {0} /\ MaxSampleGap \in Nat \ {0}
      /\ Pace \in Nat /\ Pace <= MaxSampleGap
      /\ \A n \in Nodes : hist'.clean[n] \in Nat
      /\ st'.samples \in SUBSET SampleType
      /\ \A s \in st'.samples : s.node \in Nodes /\ s.at \in Nat
  <2>1. hist' \in HistoryType /\ st'.samples \in SUBSET SampleType /\ clock \in Nat
    BY DEF TypeOK, StateType
  <2> QED
    BY <2>1, ThresholdsAssumption DEF HistoryType, Time, SampleType, Dense
<1>3. ASSUME NEW n \in Nodes
      PROVE  /\ hist'.clean[n] >= clock - Window =>
                   \E u \in OfNode(st'.samples, n) : u.at = hist'.clean[n]
             /\ \A t \in Nat : hist'.clean[n] <= t /\ t < clock /\ t + 1 >= clock - Window =>
                   \E u \in OfNode(st'.samples, n) : t < u.at /\ u.at - t <= Pace
  BY <1>1 DEF WholeInv, SeenInv, CompleteInv, NextSeen
<1>4. ASSUME NEW n \in Nodes
      PROVE  \E s \in OfNode(st'.samples, n) : s.at < clock - Window + MaxSampleGap
  <2>1. CASE hist'.clean[n] >= clock - Window
    BY <1>3, <2>1
  <2>2. CASE ~(hist'.clean[n] >= clock - Window)
    <3> DEFINE t == clock - Window - 1
    <3>1. t \in Nat /\ hist'.clean[n] <= t /\ t < clock /\ t + 1 >= clock - Window
      BY <1>2, <2>2
    <3>2. PICK u \in OfNode(st'.samples, n) : t < u.at /\ u.at - t <= Pace
      BY <1>3, <3>1
    <3>3. u.at \in Nat
      BY <1>2 DEF OfNode
    <3> QED
      BY <1>2, <3>2, <3>3
  <2> QED
    BY <2>1, <2>2
<1>5. ASSUME NEW n \in Nodes
      PROVE  \E s \in OfNode(st'.samples, n) : s.at = clock
  <2>1. PICK s \in OfNode(st'.samples, n) : TRUE
    BY <1>4
  <2>2. s \in st'.samples /\ s.node = n
    BY DEF OfNode
  <2> QED
    BY <1>1, <2>2 DEF EvidenceInv, SamplesInv
<1>6. ASSUME NEW n \in Nodes, NEW s \in OfNode(st'.samples, n), s.at < clock
      PROVE  \E u \in OfNode(st'.samples, n) : s.at < u.at /\ u.at - s.at <= Pace
  <2>1. s \in st'.samples /\ s.node = n
    BY DEF OfNode
  <2>2. /\ s.at \in Nat /\ hist'.clean[n] <= s.at /\ s.at + 1 >= clock - Window
    BY <1>1, <1>2, <2>1
  <2> QED
    BY <1>3, <1>6, <2>2
<1>7. \A s \in st'.samples : ~Breaking(s.read) /\ s.at <= clock
  <2> SUFFICES ASSUME NEW s \in st'.samples PROVE ~Breaking(s.read) /\ s.at <= clock
    OBVIOUS
  <2>1. s.node \in Nodes
    BY <1>2
  <2>2. s.at <= clock
    BY <1>1, <2>1 DEF EvidenceInv, SamplesInv
  <2>3. InRecord(s)'
    BY <2>1 DEF InRecord
  <2> QED
    BY <1>1, <2>2, <2>3 DEF WholeInv, SeenInv, SightInv
<1>8. Single(st'.samples)
  BY <1>1 DEF WholeInv, SeenInv, SightInv
<1>9. ASSUME NEW n \in Nodes PROVE Sight(st'.samples, n, clock) = hist'.view[n]
  <2>1. PICK s \in OfNode(st'.samples, n) : s.at = clock
    BY <1>5
  <2>2. s \in st'.samples /\ s.node = n /\ s.at = hist'.last[n]
    BY <1>1, <2>1 DEF OfNode
  <2> QED
    BY <1>1, <2>1, <2>2 DEF WholeInv, SeenInv, SteadyInv
<1>10. \A s \in st'.samples :
          Cardinality(Sight(st'.samples, s.node, s.at)) = Cardinality(hist'.view[s.node])
  BY DEF Seen
<1> QED
  BY <1>2, <1>4, <1>5, <1>6, <1>7, <1>8, <1>9, <1>10, CoverageOf

(* Covered samples with none at work are judged: the engine concludes that *)
(* there is a breach, or passes over a job that is exempt.                 *)
LEMMA CoveredIsJudged ==
    ASSUME TypeOK, start # None, NEW report \in [Nodes -> Reports], NEW stamp \in Stamps,
           NEW exempt \in ExemptAnswers, NEW O, O = Observed(report, stamp, exempt),
           Covered(O.samples, Nodes, GPUCount, clock), ~Alive(O.samples),
           ~(clock - start < Warmup)
    PROVE  Answer(report, stamp, exempt) =
              IF exempt THEN Result(O, Nothing(JobOf(start, exempt)))
              ELSE Breach(O, JobOf(start, exempt), clock)
<1> DEFINE job == JobOf(start, exempt)
<1>1. /\ job.start = start /\ job.nodes = Nodes /\ job.gpuCount = GPUCount
      /\ job.exempt = exempt /\ GPUCount # 0 /\ Nodes # {}
  BY WatchAssumption DEF JobOf
<1>2. O.startTime = start
  BY ObservedSamples
<1>3. O.samples # {}
  <2>1. PICK n \in Nodes : TRUE
    BY <1>1
  <2> QED
    BY <2>1 DEF Covered, OfNode
<1>4. Answer(report, stamp, exempt) = Evaluate(O, job, clock)
  BY DEF Answer
<1> HIDE DEF job
<1> QED
  BY <1>1, <1>2, <1>3, <1>4, Zenon DEF Evaluate, job

LEMMA BreachIsSeen ==
    ASSUME Punctual, Dense, NeverExempt,
           TypeOK, TypeOK', EvidenceInv, EvidenceInv', WholeInv, WholeInv', Cycle
    PROVE  BreachSeen'
<1>1. PICK report \in [Nodes -> Reports], stamp \in Stamps, exempt \in ExemptAnswers :
         Judge(report, stamp, exempt)
  BY DEF Cycle
<1>2. start # None /\ judged < clock /\ clock' = clock /\ start' = start
  BY DEF Cycle
<1>3. /\ Current' /\ judged' = clock
      /\ \A s \in st'.samples : s.at >= clock - Window
  BY <1>1, <1>2, PunctualCycle DEF WholeInv, SeenInv
<1> SUFFICES ASSUME \A n \in Nodes : /\ hist'.clean[n] # None
                                     /\ hist'.clean[n] <= clock - Window
                                     /\ hist'.steady[n] <= clock - Window,
                    Cardinality(Viewed(hist'.view)) >= GPUCount
             PROVE  finding'.verdict >= Watching
  BY <1>3 DEF BreachSeen
<1>4. /\ clock \in Nat /\ Window \in Nat \ {0} /\ MaxSampleGap \in Nat \ {0} /\ Warmup \in Nat
      /\ start \in Nat
      /\ \A n \in Nodes : hist'.clean[n] \in Int /\ hist'.steady[n] \in Int
      /\ \A s \in st'.samples : s.node \in Nodes /\ s.at \in Nat
  <2>1. /\ hist' \in HistoryType /\ st'.samples \in SUBSET SampleType /\ clock \in Nat
        /\ start \in Time
    BY DEF TypeOK, StateType
  <2> QED
    BY <1>2, <2>1, ThresholdsAssumption DEF HistoryType, Time, SampleType
<1>5. \A n \in Nodes : hist'.clean[n] < clock - Window + MaxSampleGap
  BY <1>4
<1>6. ASSUME NEW s \in st'.samples
      PROVE  /\ hist'.clean[s.node] <= s.at
             /\ Seen(st'.samples, s.node, s.at) = Cardinality(hist'.view[s.node])
  <2>1. s.node \in Nodes /\ hist'.clean[s.node] <= s.at /\ hist'.steady[s.node] <= s.at
    BY <1>3, <1>4
  <2> QED
    BY <1>3, <2>1 DEF WholeInv, SeenInv, SteadyInv
<1>7. Covered(st'.samples, Nodes, GPUCount, clock) /\ ~Alive(st'.samples)
  BY <1>1, <1>2, <1>5, <1>6, WindowCovered
<1>8. ~(clock - start < Warmup)
  <2>1. PICK n \in Nodes : TRUE
    BY WatchAssumption
  <2>2. start + Warmup <= hist'.clean[n]
    BY <1>2 DEF EvidenceInv, RecordInv
  <2> QED
    BY <1>4, <2>1, <2>2
<1> DEFINE O == Observed(report, stamp, exempt)
           A == Answer(report, stamp, exempt)
           job == JobOf(start, exempt)
<1>9. st'.samples = O.samples /\ finding' = A.finding
  BY <1>1, <1>2, JudgeAs, AnswerCases
<1>10. A = Breach(O, job, clock)
  <2>1. exempt = FALSE
    BY DEF NeverExempt
  <2> QED
    BY <1>2, <1>7, <1>8, <1>9, <2>1, CoveredIsJudged
<1>11. O \in StateType /\ O.samples # {}
  <2>1. PICK n \in Nodes : TRUE
    BY WatchAssumption
  <2>2. O.samples # {}
    BY <1>7, <1>9, <2>1 DEF Covered, OfNode
  <2> QED
    BY <1>2, <2>2, JudgeType
<1>12. BreachVerdict(O, clock) \in Watching .. Cancel
  BY <1>4, <1>11, BreachVerdictType
<1> HIDE DEF O, job, A
<1> QED
  BY <1>9, <1>10, <1>12 DEF Breach, Result

LEMMA BreachSeenStep ==
    ASSUME Punctual, Dense, NeverExempt
    PROVE  /\ TypeOK /\ EvidenceInv /\ WholeInv /\ BreachSeen
           /\ [Next]_vars /\ [Paced]_vars
           => BreachSeen'
<1> SUFFICES ASSUME TypeOK, EvidenceInv, WholeInv, BreachSeen, [Next]_vars, [Paced]_vars
             PROVE  BreachSeen'
  OBVIOUS
<1>n. PICK n \in Nodes : TRUE
  BY WatchAssumption
<1>1. CASE Cycle
  <2>1. TypeOK' /\ EvidenceInv' /\ WholeInv'
    BY TypeStep, EvidenceStep, WholeStep
  <2> QED
    BY <1>1, <2>1, BreachIsSeen
<1>2. CASE Tick \/ UNCHANGED vars
  <2>1. start' = start /\ judged' = judged /\ finding' = finding /\ hist' = hist
    BY <1>2 DEF Tick, vars
  <2> QED
    BY <2>1 DEF BreachSeen
<1>3. CASE CycleWithoutStart \/ Drop \/ Forget \/ Restart \/ Requeue
  <2>1. hist' = Broken(hist) \/ hist' = [Broken(hist) EXCEPT !.billed = 0]
    BY <1>3 DEF CycleWithoutStart, Drop, Forget, Restart, Requeue
  <2>2. hist'.clean[n] = None
    BY <1>n, <2>1, HistoryVoid
  <2> QED
    BY <1>n, <2>2 DEF BreachSeen
<1>4. CASE DrainExecuted
  <2>1. /\ hist'.steady = hist.steady /\ hist'.clean = hist.clean /\ hist'.view = hist.view
        /\ start' = start /\ judged' = judged /\ finding' = finding
    BY <1>4 DEF DrainExecuted, TypeOK, HistoryType
  <2> QED
    BY <2>1 DEF BreachSeen
<1>5. CASE End
  BY <1>5 DEF End, BreachSeen
<1> QED
  BY <1>1, <1>2, <1>3, <1>4, <1>5 DEF Next

(* A job that was not at work for a full window without a hole, each report*)
(* naming enough GPUs, is reported by the cycle that completes the window: *)
(* the engine keeps every sample that coverage asks for (Observe, coverage,*)
(* Evaluate).  With MaxSampleGap as the pace, or with the interval and the *)
(* lateness of cycles; the defaults (8 samples, 20 minutes, 3 minutes, an  *)
(* interval of 2) are Dense for a pace of 2 minutes and 50 seconds.        *)
THEOREM BreachIsReported ==
    ASSUME Punctual, Dense, NeverExempt
    PROVE  Spec /\ [][Paced]_vars => []BreachSeen
<1>1. Init => BreachSeen
  <2>1. PICK n \in Nodes : TRUE
    BY WatchAssumption
  <2> QED
    BY <2>1 DEF Init, BreachSeen, NoRecord
<1>2. TypeOK /\ EvidenceInv /\ WholeInv /\ BreachSeen /\ [Next]_vars /\ [Paced]_vars => BreachSeen'
  BY BreachSeenStep
<1> QED
  BY <1>1, <1>2, WholeInduction, PTL DEF Spec

-----------------------------------------------------------------------------
(***************************************************************************)
(* What the nodes name.  coverage wants all the GPUs of the job among the  *)
(* samples of the window together, and as many in each report of a node.   *)
(***************************************************************************)
(* What nodes may have named that named as many GPUs as they do in view.   *)
AsMany(view) ==
    {v \in [Nodes -> Views] : \A n \in Nodes : Cardinality(v[n]) = Cardinality(view[n])}

(* Where the reports of a window name all the GPUs of the job, each does:  *)
(* the nodes never leave some out and then, as many, others (SameSight).   *)
NoSwap ==
    \A view \in [Nodes -> Views] :
        Cardinality(UNION {Viewed(v) : v \in AsMany(view)}) >= GPUCount
        => Cardinality(Viewed(view)) >= GPUCount

(* Every report of a node names as many GPUs.                              *)
SameCount == \A v, w \in Views : Cardinality(v) = Cardinality(w)

LEMMA ViewedFinite ==
    ASSUME NEW S \in SUBSET (Nodes \X UNION Views)
    PROVE  IsFiniteSet(S) /\ Cardinality(S) \in Nat
<1>1. IsFiniteSet(Nodes \X UNION Views)
  BY WatchAssumption, FS_Product
<1> QED
  BY <1>1, FS_Subset, FS_CardinalityType

(* Nodes that name as many GPUs each name as many together.                *)
LEMMA ViewedAsMany ==
    ASSUME NEW v, NEW w,
           \A n \in Nodes : /\ v[n] \subseteq UNION Views /\ w[n] \subseteq UNION Views
                            /\ Cardinality(v[n]) = Cardinality(w[n])
    PROVE  Cardinality(Viewed(v)) = Cardinality(Viewed(w))
<1> DEFINE F == [n \in Nodes |-> CHOOSE f : f \in Bijection(v[n], w[n])]
           G == [p \in Viewed(v) |-> <<p[1], F[p[1]][p[2]]>>]
<1>1. ASSUME NEW n \in Nodes PROVE F[n] \in Bijection(v[n], w[n])
  <2>1. IsFiniteSet(v[n]) /\ IsFiniteSet(w[n])
    BY WatchAssumption, FS_Subset
  <2>2. Bijection(v[n], w[n]) # {}
    BY <2>1, FS_SameCardinalityBij DEF ExistsBijection
  <2> QED
    BY <2>2
<1> HIDE DEF F
<1>2. ASSUME NEW n \in Nodes
      PROVE  /\ \A g \in v[n] : F[n][g] \in w[n]
             /\ \A g, h \in v[n] : F[n][g] = F[n][h] => g = h
             /\ \A h \in w[n] : \E g \in v[n] : F[n][g] = h
  BY <1>1 DEF Bijection, Injection, Surjection, IsInjective
<1>3. ASSUME NEW p \in Viewed(v)
      PROVE  p[1] \in Nodes /\ p[2] \in v[p[1]] /\ p = <<p[1], p[2]>>
  BY DEF Viewed
<1>4. ASSUME NEW p \in Viewed(v) PROVE G[p] \in Viewed(w)
  BY <1>2, <1>3 DEF Viewed
<1>5. ASSUME NEW p \in Viewed(v), NEW q \in Viewed(v), G[p] = G[q] PROVE p = q
  BY <1>2, <1>3, <1>5
<1>6. ASSUME NEW q \in Viewed(w) PROVE \E p \in Viewed(v) : G[p] = q
  <2>1. PICK n \in Nodes : \E h \in w[n] : q = <<n, h>>
    BY DEF Viewed
  <2>2. PICK h \in w[n] : q = <<n, h>>
    BY <2>1
  <2>3. PICK g \in v[n] : F[n][g] = h
    BY <1>2
  <2>4. <<n, g>> \in Viewed(v)
    BY DEF Viewed
  <2> QED
    BY <2>2, <2>3, <2>4
<1>7. G \in Injection(Viewed(v), Viewed(w)) /\ G \in Surjection(Viewed(v), Viewed(w))
  BY <1>4, <1>5, <1>6 DEF Injection, Surjection, IsInjective
<1>8. IsFiniteSet(Viewed(w))
  <2>1. Viewed(w) \subseteq Nodes \X UNION Views
    BY DEF Viewed
  <2> QED
    BY <2>1, ViewedFinite
<1> HIDE DEF G
<1> QED
  BY <1>7, <1>8, FS_Injection

(* Where samples cover the window, the last reports name enough GPUs.      *)
LEMMA CoveredNamesAll ==
    ASSUME NoSwap, TypeOK', EvidenceInv', SeenInv', Current', NEW now,
           Covered(st'.samples, Nodes, GPUCount, now)
    PROVE  /\ \A n \in Nodes : hist'.view[n] \in Views
           /\ Cardinality(Viewed(hist'.view)) >= GPUCount
<1> DEFINE view == [n \in Nodes |-> hist'.view[n]]
           all  == UNION {Viewed(v) : v \in AsMany(view)}
<1>1. ASSUME NEW n \in Nodes PROVE hist'.view[n] \in Views
  <2>1. PICK s \in OfNode(st'.samples, n) : TRUE
    BY DEF Covered
  <2> QED
    BY <2>1, CoveredSights
<1>2. view \in [Nodes -> Views]
  BY <1>1
<1>3. ASSUME NEW s \in st'.samples PROVE <<s.node, s.gpu>> \in all
  <2> DEFINE n == s.node
             sight == Sight(st'.samples, n, s.at)
             v == [view EXCEPT ![n] = sight]
  <2>1. n \in Nodes /\ s \in OfNode(st'.samples, n)
    BY DEF TypeOK, StateType, SampleType, OfNode
  <2>2. sight \in Views
    BY DEF SeenInv, SightInv
  <2>3. Cardinality(sight) = Cardinality(view[n])
    BY <2>1, CoveredSights DEF Seen
  <2>4. s.gpu \in sight
    BY <2>1 DEF Sight, OfTime
  <2> HIDE DEF n, sight, view
  <2>5. v \in AsMany(view)
    BY <1>2, <2>1, <2>2, <2>3 DEF AsMany
  <2>6. v[n] = sight
    BY <1>2, <2>1
  <2>7. <<n, s.gpu>> \in Viewed(v)
    BY <2>1, <2>4, <2>6 DEF Viewed
  <2> QED
    BY <2>5, <2>7 DEF n
<1>4. GPUsSeen(st'.samples) \subseteq all
  BY <1>3 DEF GPUsSeen
<1>5. all \subseteq Nodes \X UNION Views
  BY DEF Viewed, AsMany
<1> HIDE DEF all
<1>6. Cardinality(GPUsSeen(st'.samples)) <= Cardinality(all)
  BY <1>4, <1>5, ViewedFinite, FS_Subset
<1>7. Cardinality(GPUsSeen(st'.samples)) >= GPUCount
  BY DEF Covered
<1>8. GPUCount \in Nat /\ Cardinality(all) \in Nat /\ Cardinality(GPUsSeen(st'.samples)) \in Nat
  BY <1>4, <1>5, WatchAssumption, ViewedFinite
<1>9. Cardinality(Viewed(view)) >= GPUCount
  BY <1>2, <1>6, <1>7, <1>8 DEF NoSwap, all
<1>10. Viewed(view) = Viewed(hist'.view)
  BY DEF Viewed
<1> QED
  BY <1>1, <1>9, <1>10

-----------------------------------------------------------------------------
(***************************************************************************)
(* A drain is asked for once per breach.                                   *)
(***************************************************************************)
(* The samples are a record that covers the window.                        *)
Based ==
    /\ Current
    /\ \A n \in Nodes : /\ hist.clean[n] # None
                        /\ hist.clean[n] <= judged - Window + MaxSampleGap
    /\ \A s \in st.samples : InRecord(s)
    /\ \A n \in Nodes : hist.view[n] \in Views
    /\ Cardinality(Viewed(hist.view)) >= GPUCount

(* A drain that was executed on the record stays confirmed while it lasts. *)
DrainedInv ==
    /\ Reported => Based
    /\ start # None /\ hist.drained # None => Based /\ st.drainConfirmedAt # None
    /\ draining =>
          /\ judged # None /\ finding.verdict = Drain
          /\ finding.start = st.startTime => st.lastVerdict = Drain

OnceInv == DrainedInv /\ DrainOncePerBreach

(* While the record a drain was based on is unbroken, its confirmation     *)
(* stays.                                                                  *)
LEMMA DrainRemembered ==
    ASSUME Punctual, Dense, SameCount,
           TypeOK, TypeOK', EvidenceInv, EvidenceInv', WholeInv, WholeInv',
           start # None, judged < clock, start' = start, clock' = clock,
           NEW report \in [Nodes -> Reports], NEW stamp \in Stamps,
           NEW exempt \in ExemptAnswers, Judge(report, stamp, exempt),
           Based, hist'.clean = hist.clean, st.drainConfirmedAt # None
    PROVE  Based' /\ st'.drainConfirmedAt # None
<1> DEFINE O == Observed(report, stamp, exempt)
           A == Answer(report, stamp, exempt)
           job == JobOf(start, exempt)
<1>1. /\ Current' /\ judged' = clock
      /\ \A s : s \in st'.samples <=>
            /\ s.at >= clock - Window
            /\ \/ Current /\ s \in st.samples
               \/ s \in Batch(report, stamp) /\ clock >= start + Warmup
      /\ \A s \in Batch(report, stamp) : s.at = clock
      /\ \A n \in Nodes : hist'.last[n] = clock /\ hist'.view[n] = DOMAIN report[n]
  BY PunctualCycle DEF WholeInv, SeenInv
<1>2. /\ clock \in Nat /\ judged \in Int /\ start \in Nat
      /\ Window \in Nat \ {0} /\ MaxSampleGap \in Nat \ {0} /\ Warmup \in Nat
      /\ \A n \in Nodes : hist.clean[n] \in Nat
  BY TimesAreInts DEF Based
<1>3. \A s \in Batch(report, stamp) : s.node \in Nodes
  BY BatchType DEF TypeOK
<1>4. \A n \in Nodes : /\ hist'.clean[n] # None
                       /\ hist'.clean[n] < clock - Window + MaxSampleGap
                       /\ hist'.clean[n] <= clock /\ start + Warmup <= hist'.clean[n]
  <2> SUFFICES ASSUME NEW n \in Nodes
               PROVE  /\ hist'.clean[n] # None
                      /\ hist'.clean[n] < clock - Window + MaxSampleGap
                      /\ hist'.clean[n] <= clock /\ start + Warmup <= hist'.clean[n]
    OBVIOUS
  <2>1. hist.clean[n] # None /\ hist.clean[n] <= judged - Window + MaxSampleGap
    BY DEF Based
  <2>2. hist'.clean[n] <= hist'.last[n] /\ start + Warmup <= hist'.clean[n]
    BY <2>1 DEF EvidenceInv, RecordInv
  <2> QED
    BY <1>1, <1>2, <2>1, <2>2
<1>5. ASSUME NEW s \in st'.samples
      PROVE  s.node \in Nodes /\ hist'.clean[s.node] <= s.at
  <2>1. CASE s \in Batch(report, stamp)
    BY <1>1, <1>3, <1>4, <2>1
  <2>2. CASE s \in st.samples
    <3>1. s.node \in Nodes
      BY <2>2, TimesAreInts
    <3> QED
      BY <2>2, <3>1 DEF Based, InRecord
  <2> QED
    BY <1>1, <2>1, <2>2
<1>6. \A n \in Nodes : hist'.view[n] \in Views
  BY <1>1, BatchType DEF TypeOK
<1>7. ASSUME NEW s \in st'.samples
      PROVE  Seen(st'.samples, s.node, s.at) = Cardinality(hist'.view[s.node])
  BY <1>1, <1>5, <1>6 DEF WholeInv, SeenInv, SightInv, SameCount, Seen
<1>8. Cardinality(Viewed(hist'.view)) >= GPUCount
  <2>1. ASSUME NEW n \in Nodes
        PROVE  /\ hist.view[n] \subseteq UNION Views /\ hist'.view[n] \subseteq UNION Views
               /\ Cardinality(hist.view[n]) = Cardinality(hist'.view[n])
    BY <1>6 DEF Based, SameCount
  <2>2. Cardinality(Viewed(hist.view)) = Cardinality(Viewed(hist'.view))
    BY <2>1, ViewedAsMany
  <2> QED
    BY <2>2 DEF Based
<1>9. Covered(st'.samples, Nodes, GPUCount, clock) /\ ~Alive(st'.samples)
  BY <1>4, <1>5, <1>7, <1>8, WindowCovered
<1>10. st'.samples = O.samples /\ st' = A.state
  BY JudgeAs, AnswerCases
<1>11. ~(clock - start < Warmup)
  <2>1. PICK n \in Nodes : TRUE
    BY WatchAssumption
  <2>2. start + Warmup <= clock
    BY <1>2, <1>4, <2>1
  <2> QED
    BY <1>2, <2>2
<1>12. A = IF exempt THEN Result(O, Nothing(job)) ELSE Breach(O, job, clock)
  BY <1>9, <1>10, <1>11, CoveredIsJudged
<1>13. O \in StateType /\ O.drainConfirmedAt = st.drainConfirmedAt
  BY JudgeType, ObservedLadder DEF Based
<1> HIDE DEF O, A, job
<1>14. A.state.drainConfirmedAt = O.drainConfirmedAt
  BY <1>12, <1>13 DEF Breach, Result, StateType
<1>15. Based'
  <2>1. \A n \in Nodes : hist'.clean[n] <= judged' - Window + MaxSampleGap
    BY <1>1, <1>2, <1>4
  <2>2. \A s \in st'.samples : InRecord(s)'
    BY <1>4, <1>5 DEF InRecord
  <2> QED
    BY <1>1, <1>4, <1>6, <1>8, <2>1, <2>2 DEF Based
<1> QED
  BY <1>10, <1>13, <1>14, <1>15

(* A report rests on a record that covers the window.                      *)
LEMMA ReportIsBased ==
    ASSUME NoSwap, TypeOK, TypeOK', EvidenceInv', SeenInv', Current', judged' = clock,
           start # None, NEW report \in [Nodes -> Reports], NEW stamp \in Stamps,
           NEW exempt \in ExemptAnswers, Judge(report, stamp, exempt),
           finding'.verdict >= Watching
    PROVE  Based'
<1>1. Covered(st'.samples, Nodes, GPUCount, clock) /\ ~Alive(st'.samples)
  BY ReportIsCovered
<1>2. clock \in Nat
  BY DEF TypeOK
<1>3. \A n \in Nodes : /\ hist'.clean[n] # None
                       /\ hist'.clean[n] <= clock - Window + MaxSampleGap
  BY <1>1, <1>2, CoveredIsRecord DEF EvidenceInv
<1>4. \A s \in st'.samples : InRecord(s)'
  BY <1>1, CoveredAllRecord DEF EvidenceInv
<1>5. /\ \A n \in Nodes : hist'.view[n] \in Views
      /\ Cardinality(Viewed(hist'.view)) >= GPUCount
  BY <1>1, CoveredNamesAll
<1> QED
  BY <1>3, <1>4, <1>5 DEF Based

LEMMA OnceCycle ==
    ASSUME Punctual, Dense, SameCount, NoSwap,
           TypeOK, TypeOK', EvidenceInv, EvidenceInv', WholeInv, WholeInv', OnceInv, Cycle
    PROVE  OnceInv'
<1>1. PICK report \in [Nodes -> Reports], stamp \in Stamps, exempt \in ExemptAnswers :
         Judge(report, stamp, exempt)
  BY DEF Cycle
<1>2. start # None /\ judged < clock /\ clock' = clock /\ start' = start
  BY DEF Cycle
<1>3. Current' /\ judged' = clock /\ clock \in Nat
  BY <1>1, <1>2, PunctualCycle DEF WholeInv, SeenInv, TypeOK
<1>4. Reported' => Based'
  BY <1>1, <1>2, <1>3, ReportIsBased DEF Reported, WholeInv
<1>5. hist'.drained # None => Based' /\ st'.drainConfirmedAt # None
  <2> SUFFICES ASSUME hist'.drained # None PROVE Based' /\ st'.drainConfirmedAt # None
    OBVIOUS
  <2>1. PICK f : hist' = Remember(hist, report, stamp, clock, start + Warmup, f)
    BY <1>1, JudgeAs
  <2>2. hist'.clean = hist.clean /\ hist'.drained = hist.drained
    BY <2>1, RememberFields
  <2>3. Based /\ st.drainConfirmedAt # None
    BY <1>2, <2>2 DEF OnceInv, DrainedInv
  <2> QED
    BY <1>1, <1>2, <2>2, <2>3, DrainRemembered
<1>6. draining' => /\ finding'.verdict = Drain /\ st'.lastVerdict = Drain
                   /\ st'.drainConfirmedAt = None
  <2> SUFFICES ASSUME draining'
               PROVE  /\ finding'.verdict = Drain /\ st'.lastVerdict = Drain
                      /\ st'.drainConfirmedAt = None
    OBVIOUS
  <2> DEFINE O == Observed(report, stamp, exempt)
             A == Answer(report, stamp, exempt)
  <2>1. st' = A.state /\ finding' = A.finding
    BY <1>1, JudgeAs
  <2>2. finding'.verdict = Drain /\ ~finding'.drainConfirmed
    BY <1>1, JudgeAs, Zenon
  <2>3. /\ A.finding.verdict = BreachVerdict(O, clock)
        /\ A.state.lastVerdict = BreachVerdict(O, clock)
        /\ A.state.drainConfirmedAt = O.drainConfirmedAt
        /\ A.finding.drainConfirmed = (O.drainConfirmedAt # None)
    BY <1>2, <2>1, <2>2, AnswerCases
  <2> HIDE DEF O, A
  <2>4. ~(O.drainConfirmedAt # None)
    BY <2>1, <2>2, <2>3, Zenon
  <2> QED
    BY <2>1, <2>2, <2>3, <2>4
<1>7. judged' # None
  BY <1>3
<1> QED
  BY <1>4, <1>5, <1>6, <1>7 DEF OnceInv, DrainedInv, DrainOncePerBreach

(* The drain a finding asked for is executed: the engine's state is still  *)
(* the one that asked, and remembers it.                                   *)
LEMMA OnceDrain ==
    ASSUME TypeOK, OnceInv, DrainExecuted PROVE OnceInv'
<1>1. /\ draining /\ start' = start /\ finding' = finding /\ judged' = judged
      /\ st' = ConfirmDrain(st, finding.start, judged)
  BY DEF DrainExecuted
<1>2. ~draining'
  BY Zenon DEF DrainExecuted
<1>3. /\ st'.startTime = st.startTime /\ st'.samples = st.samples
      /\ st'.drainConfirmedAt = IF /\ st.startTime = finding.start /\ st.lastVerdict = Drain
                                   /\ st.drainConfirmedAt = None
                                THEN judged ELSE st.drainConfirmedAt
  BY <1>1 DEF ConfirmDrain, TypeOK, StateType
<1>4. /\ hist'.clean = hist.clean /\ hist'.view = hist.view
      /\ hist'.drained = IF finding.start = start THEN clock ELSE hist.drained
  BY DEF DrainExecuted, TypeOK, HistoryType
<1>5. Based => Based'
  BY <1>1, <1>3, <1>4 DEF Based, Current, InRecord
<1>6. Reported' => Reported
  BY <1>1 DEF Reported
<1>7. judged # None /\ finding.verdict = Drain
      /\ (finding.start = st.startTime => st.lastVerdict = Drain)
  BY <1>1 DEF OnceInv, DrainedInv
<1>8. start # None /\ hist'.drained # None => Based' /\ st'.drainConfirmedAt # None
  <2> SUFFICES ASSUME start # None, hist'.drained # None
               PROVE  Based' /\ st'.drainConfirmedAt # None
    OBVIOUS
  <2>1. CASE finding.start = start
    <3>1. Based
      BY <1>7, <2>1 DEF OnceInv, DrainedInv, Reported
    <3>2. st.startTime = finding.start /\ st.lastVerdict = Drain
      BY <1>7, <2>1, <3>1 DEF Based, Current
    <3> QED
      BY <1>3, <1>5, <1>7, <3>1, <3>2
  <2>2. CASE finding.start # start
    <3>1. Based /\ st.drainConfirmedAt # None
      BY <1>4, <2>2 DEF OnceInv, DrainedInv
    <3> QED
      BY <1>3, <1>5, <1>7, <3>1
  <2> QED
    BY <2>1, <2>2
<1> QED
  BY <1>1, <1>2, <1>5, <1>6, <1>8 DEF OnceInv, DrainedInv, DrainOncePerBreach

LEMMA OnceStep ==
    ASSUME Punctual, Dense, SameCount, NoSwap
    PROVE  /\ TypeOK /\ EvidenceInv /\ WholeInv /\ OnceInv
           /\ [Next]_vars /\ [Paced]_vars
           => OnceInv'
<1> SUFFICES ASSUME TypeOK, EvidenceInv, WholeInv, OnceInv, [Next]_vars, [Paced]_vars
             PROVE  OnceInv'
  OBVIOUS
<1>1. CASE Cycle
  <2>1. TypeOK' /\ EvidenceInv' /\ WholeInv'
    BY TypeStep, EvidenceStep, WholeStep
  <2> QED
    BY <1>1, <2>1, OnceCycle
<1>2. CASE DrainExecuted
  BY <1>2, OnceDrain
<1>3. CASE Tick \/ UNCHANGED vars
  <2>1. /\ start' = start /\ st' = st /\ finding' = finding /\ judged' = judged
        /\ hist' = hist
    BY <1>3 DEF Tick, vars
  <2>2. draining' = draining
    BY <1>3, Zenon DEF Tick, vars
  <2>3. Based' = Based /\ Reported' = Reported
    BY <2>1 DEF Based, Reported, Current, InRecord
  <2> QED
    <3>1. DrainedInv'
      BY <2>1, <2>2, <2>3 DEF OnceInv, DrainedInv
    <3>2. DrainOncePerBreach'
      BY <2>1, <2>2 DEF OnceInv, DrainOncePerBreach
    <3> QED
      BY <3>1, <3>2 DEF OnceInv
<1>4. CASE CycleWithoutStart \/ Drop \/ Forget \/ Restart
  <2>1. hist' = Broken(hist) \/ hist' = [Broken(hist) EXCEPT !.billed = 0]
    BY <1>4 DEF CycleWithoutStart, Drop, Forget, Restart
  <2>2. hist'.drained = None
    BY <2>1, HistoryVoid
  <2>3. ~draining'
    BY <1>4, Zenon DEF CycleWithoutStart, Drop, Forget, Restart
  <2>4. finding'.verdict = Healthy
    BY <1>4, NothingJudged DEF Drop, Forget, Restart, NoFinding, Nothing
  <2>5. ~Reported'
    BY <2>4 DEF Reported
  <2> QED
    BY <2>2, <2>3, <2>5 DEF OnceInv, DrainedInv, DrainOncePerBreach
<1>5. CASE Requeue
  <2>1. /\ st' = st /\ finding' = finding /\ judged' = judged
        /\ start' = clock /\ finding.start < clock
        /\ hist' = [Broken(hist) EXCEPT !.billed = 0]
    BY <1>5 DEF Requeue
  <2>2. draining' <=> draining
    BY <1>5, Zenon DEF Requeue
  <2>3. hist'.drained = None
    BY <2>1, HistoryVoid
  <2>4. ~Reported'
    <3>1. clock \in Nat /\ finding.start \in Int
      BY DEF TypeOK, FindingType, Time
    <3> QED
      BY <2>1, <3>1 DEF Reported
  <2> QED
    BY <2>1, <2>2, <2>3, <2>4 DEF OnceInv, DrainedInv, DrainOncePerBreach
<1>6. CASE End
  <2>1. start' = None /\ st' = st /\ finding' = finding /\ judged' = judged
    BY <1>6 DEF End
  <2>2. draining' <=> draining
    BY <1>6, Zenon DEF End
  <2>3. draining => finding.verdict = Drain
    BY DEF OnceInv, DrainedInv
  <2>4. finding.verdict >= Watching => finding.start # None
    BY DEF EvidenceInv, FindingInv
  <2>5. ~Reported' /\ ~(draining' /\ finding'.start = start')
    BY <2>1, <2>2, <2>3, <2>4 DEF Reported
  <2> QED
    BY <2>1, <2>2, <2>5 DEF OnceInv, DrainedInv, DrainOncePerBreach
<1> QED
  BY <1>1, <1>2, <1>3, <1>4, <1>5, <1>6 DEF Next

(* A drain that was executed is not asked for again while the record it    *)
(* was based on is unbroken: no cycle of that record finds the samples     *)
(* wanting, so none forgets the confirmation (ConfirmDrain, reset).        *)
THEOREM DrainedOnce ==
    ASSUME Punctual, Dense, SameCount, NoSwap
    PROVE  Spec /\ [][Paced]_vars => []DrainOncePerBreach
<1>1. Init => OnceInv
  <2> SUFFICES ASSUME Init PROVE OnceInv
    OBVIOUS
  <2>1. ~draining
    BY Zenon DEF Init
  <2>2. ~Reported /\ hist.drained = None
    BY DEF Init, Reported, NoFinding, Nothing, NoRecord
  <2> QED
    BY <2>1, <2>2 DEF OnceInv, DrainedInv, DrainOncePerBreach
<1>2. TypeOK /\ EvidenceInv /\ WholeInv /\ OnceInv /\ [Next]_vars /\ [Paced]_vars => OnceInv'
  BY OnceStep
<1>3. OnceInv => DrainOncePerBreach
  BY DEF OnceInv
<1> QED
  BY <1>1, <1>2, <1>3, WholeInduction, PTL DEF Spec

-----------------------------------------------------------------------------
(***************************************************************************)
(* The waste is counted once.  All that was counted lies before a time b,  *)
(* the end of the last breach that was billed; if the engine has forgotten *)
(* that time, then no breach it will find reaches back to before it.       *)
(***************************************************************************)
(* At t the record and the list of every node had begun.                   *)
GoodSince(t) ==
    \A n \in Nodes : hist.clean[n] # None /\ hist.clean[n] <= t /\ hist.steady[n] <= t

(* A record that had begun at b had covered a window then.                 *)
Base(b) ==
    /\ \A n \in Nodes :
          /\ hist.clean[n] # None /\ hist.clean[n] <= b =>
                /\ hist.clean[n] <= b - Window + MaxSampleGap
                /\ \A s \in st.samples : hist.clean[n] <= s.at
          /\ hist.steady[n] <= b => \A s \in st.samples : hist.steady[n] <= s.at
    /\ (\A n \in Nodes : hist.steady[n] <= b) => Cardinality(Viewed(hist.view)) >= GPUCount

Bill(b) ==
    /\ start + Warmup <= b
    /\ hist.billed <= GPUCount * (b - start - Warmup)
    /\ b = start + Warmup \/ b <= judged
    /\ Current /\ st.accountedUntil # None =>
          st.accountedUntil = b /\ b <= judged /\ Base(b)
    /\ Current /\ st.accountedUntil = None =>
          /\ st.breachedSince = None
          /\ \A s \in st.samples : s.at < b => ~GoodSince(s.at)

BillInv == start # None => \E b \in Nat : Bill(b)

(* What had begun before a cycle after it had begun before it.             *)
LEMMA GoodBack ==
    ASSUME Punctual, TypeOK, TypeOK', EvidenceInv, PaceInv, start # None, judged < clock,
           start' = start, clock' = clock,
           NEW report \in [Nodes -> Reports], NEW stamp \in Stamps,
           NEW exempt \in ExemptAnswers, Judge(report, stamp, exempt),
           NEW n \in Nodes, NEW t \in Nat, t < clock
    PROVE  /\ hist'.clean[n] # None /\ hist'.clean[n] <= t => hist'.clean[n] = hist.clean[n]
           /\ hist'.steady[n] <= t =>
                 /\ hist'.steady[n] = hist.steady[n]
                 /\ start + Warmup <= t =>
                       Cardinality(hist'.view[n]) = Cardinality(hist.view[n])
<1>1. /\ hist'.clean[n] = CleanAfter(hist, report, stamp, start + Warmup, n)
      /\ hist'.steady[n] = SteadyAfter(hist, report, stamp, start + Warmup, n)
      /\ hist'.view[n] = DOMAIN report[n] /\ stamp[n] = clock
  BY PunctualCycle
<1>2. clock \in Nat /\ start \in Nat /\ Warmup \in Nat
  BY TimesAreInts
<1>3. hist'.clean[n] # None /\ hist'.clean[n] <= t => hist'.clean[n] = hist.clean[n]
  BY <1>1, <1>2 DEF CleanAfter
<1>4. hist'.steady[n] <= t => hist'.steady[n] = hist.steady[n]
  BY <1>1, <1>2 DEF SteadyAfter
<1>5. hist'.steady[n] <= t /\ start + Warmup <= t =>
         Cardinality(hist'.view[n]) = Cardinality(hist.view[n])
  BY <1>1, <1>2 DEF SteadyAfter
<1> QED
  BY <1>3, <1>4, <1>5

(* A cycle leaves what is known of a time before it.                       *)
LEMMA BaseKept ==
    ASSUME Punctual, TypeOK, TypeOK', EvidenceInv, PaceInv, start # None, judged < clock,
           start' = start, clock' = clock,
           NEW report \in [Nodes -> Reports], NEW stamp \in Stamps,
           NEW exempt \in ExemptAnswers, Judge(report, stamp, exempt),
           NEW b \in Nat, b < clock, start + Warmup <= b, Base(b)
    PROVE  Base(b)'
<1>1. \A s \in st'.samples : s \in st.samples \/ s.at = clock
  BY PunctualCycle
<1>2. clock \in Nat
  BY DEF TypeOK
<1>3. ASSUME NEW n \in Nodes, hist'.clean[n] # None, hist'.clean[n] <= b
      PROVE  /\ hist'.clean[n] <= b - Window + MaxSampleGap
             /\ \A s \in st'.samples : hist'.clean[n] <= s.at
  <2>1. hist'.clean[n] = hist.clean[n]
    BY <1>3, GoodBack
  <2>2. hist.clean[n] \in Int
    BY TimesAreInts
  <2>3. \A s \in st.samples : hist.clean[n] <= s.at
    BY <1>3, <2>1 DEF Base
  <2> QED
    BY <1>1, <1>2, <1>3, <2>1, <2>2, <2>3 DEF Base
<1>4. ASSUME NEW n \in Nodes, hist'.steady[n] <= b
      PROVE  /\ \A s \in st'.samples : hist'.steady[n] <= s.at
             /\ hist.steady[n] <= b
             /\ Cardinality(hist'.view[n]) = Cardinality(hist.view[n])
  <2>1. /\ hist'.steady[n] = hist.steady[n]
        /\ Cardinality(hist'.view[n]) = Cardinality(hist.view[n])
    BY <1>4, GoodBack
  <2>2. hist.steady[n] \in Int
    BY TimesAreInts
  <2>3. \A s \in st.samples : hist.steady[n] <= s.at
    BY <1>4, <2>1 DEF Base
  <2> QED
    BY <1>1, <1>2, <1>4, <2>1, <2>2, <2>3
<1>5. ASSUME \A n \in Nodes : hist'.steady[n] <= b
      PROVE  Cardinality(Viewed(hist'.view)) >= GPUCount
  <2>1. \A n \in Nodes : hist.view[n] \subseteq UNION Views /\ hist'.view[n] \subseteq UNION Views
    BY DEF TypeOK, HistoryType
  <2>2. Cardinality(Viewed(hist'.view)) = Cardinality(Viewed(hist.view))
    BY <1>4, <1>5, <2>1, ViewedAsMany
  <2> QED
    BY <1>4, <1>5, <2>2 DEF Base
<1> QED
  BY <1>3, <1>4, <1>5 DEF Base

(* Where samples cover the window, all that the record asks for had begun  *)
(* before the first of them.                                               *)
LEMMA CoveredIsBase ==
    ASSUME NoSwap, TypeOK', EvidenceInv', SeenInv', Current', NEW now \in Nat,
           Covered(st'.samples, Nodes, GPUCount, now), ~Alive(st'.samples)
    PROVE  Base(now)' /\ \A s \in st'.samples : GoodSince(s.at)'
<1>1. ASSUME NEW s \in st'.samples, NEW n \in Nodes
      PROVE  /\ hist'.clean[n] # None /\ hist'.clean[n] <= s.at
             /\ hist'.steady[n] <= s.at
  <2>1. PICK u \in OfNode(st'.samples, n) : u.at = s.at
    BY DEF SeenInv, SightInv
  <2>2. u \in st'.samples /\ u.node = n
    BY DEF OfNode
  <2>3. InRecord(u)'
    BY <2>2, CoveredAllRecord DEF EvidenceInv
  <2>4. hist'.steady[n] <= u.at
    BY CoveredSights
  <2> QED
    BY <2>1, <2>2, <2>3, <2>4 DEF InRecord
<1>2. \A n \in Nodes : hist'.clean[n] <= now - Window + MaxSampleGap
  BY CoveredIsRecord DEF EvidenceInv
<1>3. Cardinality(Viewed(hist'.view)) >= GPUCount
  BY CoveredNamesAll
<1> QED
  BY <1>1, <1>2, <1>3 DEF Base, GoodSince

(* More time costs more.                                                   *)
LEMMA MoreTime ==
    ASSUME NEW g \in Nat, NEW h \in Nat, h <= g, NEW x \in Int, NEW y \in Nat, x <= y
    PROVE  h * x <= g * y
<1>1. CASE x <= 0
  <2>1. h * x <= 0 /\ 0 <= g * y
    BY <1>1
  <2> QED
    BY <2>1
<1>2. CASE x > 0
  <2>1. x \in Nat
    BY <1>2
  <2>2. h * x <= g * x
    BY <2>1
  <2>3. g * x <= g * y
    <3>1. PICK d \in Nat : y = x + d
      <4>1. y - x \in Nat /\ y = x + (y - x)
        OBVIOUS
      <4> QED
        BY <4>1
    <3>2. g * y = g * x + g * d /\ g * d \in Nat /\ g * x \in Nat
      BY <2>1, <3>1
    <3> QED
      BY <3>2
  <2>4. h * x \in Int /\ g * x \in Int /\ g * y \in Int
    OBVIOUS
  <2> QED
    BY <2>2, <2>3, <2>4
<1> QED
  BY <1>1, <1>2

LEMMA TimesAdd ==
    ASSUME NEW g \in Nat, NEW a \in Int, NEW b \in Int, NEW c \in Int
    PROVE  g * (b - a) + g * (c - b) = g * (c - a)
OBVIOUS

(* What Observe leaves of the accounts.                                    *)
LEMMA ObservedBill ==
    ASSUME TypeOK, start # None, NEW report, NEW stamp, NEW exempt,
           NEW O, O = Observed(report, stamp, exempt)
    PROVE  /\ Current => /\ O.breachedSince = st.breachedSince
                         /\ O.accountedUntil = st.accountedUntil
           /\ ~Current => O.breachedSince = None /\ O.accountedUntil = None
<1> DEFINE job == JobOf(start, exempt)
<1>1. job.start = start
  BY DEF JobOf
<1>2. Current => StateOf(st, job) = st
  BY <1>1 DEF StateOf, Current
<1>3. ~Current => StateOf(st, job) = FreshState(start)
  BY <1>1 DEF StateOf, Current
<1>4. /\ O.breachedSince = StateOf(st, job).breachedSince
      /\ O.accountedUntil = StateOf(st, job).accountedUntil
  BY StatesOfTypes DEF Observed, Observe, StateOf, TypeOK, StateType, FreshState
<1> QED
  BY <1>2, <1>3, <1>4 DEF FreshState

(* What Evaluate makes of the accounts: it leaves them, closes them, or    *)
(* bills a breach up to now.                                               *)
LEMMA AnswerBills ==
    ASSUME TypeOK, start # None, NEW report \in [Nodes -> Reports], NEW stamp \in Stamps,
           NEW exempt \in ExemptAnswers,
           NEW O, O = Observed(report, stamp, exempt),
           NEW A, A = Answer(report, stamp, exempt)
    PROVE  \/ A.state = O /\ A.finding.wasted = 0
           \/ /\ A.state.accountedUntil = None /\ A.state.breachedSince = None
              /\ A.finding.wasted = 0
              /\ clock - start < Warmup \/ ~Covered(O.samples, Nodes, GPUCount, clock)
                                        \/ Alive(O.samples)
           \/ /\ A.state.accountedUntil = clock
              /\ A.finding.wasted = Wasted(O, JobOf(start, exempt), clock)
              /\ O.samples # {}
              /\ Covered(O.samples, Nodes, GPUCount, clock)
              /\ ~Alive(O.samples)
<1> DEFINE job == JobOf(start, exempt)
<1>1. /\ job.start = start /\ job.nodes = Nodes /\ job.gpuCount = GPUCount
  BY DEF JobOf
<1>2. O \in StateType
  BY JudgeType
<1>3. A = Evaluate(O, job, clock)
  BY DEF Answer
<1>4. Nothing(job).wasted = 0
  BY DEF Nothing
<1>5. Reset(O).accountedUntil = None /\ Reset(O).breachedSince = None
  BY <1>2 DEF Reset, StateType
<1>6. CASE A = Result(O, Nothing(job))
  BY <1>4, <1>6, ResultFields
<1>7. CASE \/ A = Result(Reset(O), Nothing(job))
           \/ A = Result(Reset(O), [Nothing(job) EXCEPT !.recovered = (O.drainConfirmedAt # None)])
  <2>1. A.state = Reset(O) /\ A.finding.wasted = 0
    <3> DEFINE calm == [Nothing(job) EXCEPT !.recovered = (O.drainConfirmedAt # None)]
    <3>1. calm.wasted = 0
      BY DEF Nothing
    <3> HIDE DEF calm
    <3>2. CASE A = Result(Reset(O), Nothing(job))
      BY <1>4, <3>2, ResultFields
    <3>3. CASE A = Result(Reset(O), calm)
      BY <3>1, <3>3, ResultFields
    <3> QED
      BY <1>7, <3>2, <3>3 DEF calm
  <2>2. CASE Covered(O.samples, Nodes, GPUCount, clock) /\ ~Alive(O.samples)
             /\ ~(clock - start < Warmup)
    <3>1. A = IF exempt THEN Result(O, Nothing(job)) ELSE Breach(O, job, clock)
      BY <2>2, CoveredIsJudged
    <3>2. CASE exempt
      <4>1. A = Result(O, Nothing(job))
        BY <3>1, <3>2, Zenon
      <4> QED
        BY <1>4, <4>1, ResultFields
    <3>3. CASE ~exempt
      <4>1. A = Breach(O, job, clock)
        BY <3>1, <3>3, Zenon
      <4>2. /\ A.state = [O EXCEPT !.breachedSince = BreachStart(O), !.accountedUntil = clock,
                                   !.lastVerdict = BreachVerdict(O, clock)]
            /\ A.finding.wasted = Wasted(O, job, clock)
        BY <4>1, ResultFields DEF Breach
      <4>3. A.state.accountedUntil = clock
        BY <1>2, <4>2 DEF StateType
      <4>4. clock # None
        BY DEF TypeOK
      <4> QED
        BY <1>5, <2>1, <4>3, <4>4
    <3> QED
      BY <3>2, <3>3
  <2> QED
    BY <1>5, <2>1, <2>2
<1>8. CASE /\ A = Breach(O, job, clock)
           /\ O.samples # {}
           /\ Covered(O.samples, job.nodes, job.gpuCount, clock)
           /\ ~Alive(O.samples)
  <2>1. /\ A.state = [O EXCEPT !.breachedSince = BreachStart(O), !.accountedUntil = clock,
                               !.lastVerdict = BreachVerdict(O, clock)]
        /\ A.finding.wasted = Wasted(O, job, clock)
    BY <1>8, ResultFields DEF Breach
  <2>2. A.state.accountedUntil = clock
    BY <1>2, <2>1 DEF StateType
  <2> QED
    BY <1>1, <1>8, <2>1, <2>2
<1> QED
  BY <1>1, <1>3, <1>6, <1>7, <1>8, EvaluateCases

(* A breach is billed from b on at the most, if neither what was billed    *)
(* before nor, where that is forgotten, its first sample is before b.      *)
LEMMA WasteSinceBill ==
    ASSUME TypeOK, start # None, NEW exempt, NEW O \in StateType, O.samples # {},
           NEW b \in Nat, b <= clock,
           \/ O.accountedUntil = b
           \/ /\ O.accountedUntil = None /\ O.breachedSince = None
              /\ \A s \in O.samples : b <= s.at
    PROVE  Wasted(O, JobOf(start, exempt), clock) <= GPUCount * (clock - b)
<1> DEFINE job == JobOf(start, exempt)
           since == BreachStart(O)
           from == IF O.accountedUntil > since THEN O.accountedUntil ELSE since
           seen == Cardinality(GPUsSeen(O.samples))
           gpus == IF job.gpuCount < seen THEN job.gpuCount ELSE seen
<1>1. clock \in Nat /\ GPUCount \in Nat /\ job.gpuCount = GPUCount
  BY WatchAssumption DEF TypeOK, JobOf
<1>2. \A s \in O.samples : s.at \in Nat
  BY DEF StateType, SampleType
<1>3. /\ since \in Nat
      /\ O.breachedSince = None => \E s \in O.samples : s.at = since
  <2>1. First(O.samples) \in Nat /\ \E s \in O.samples : s.at = First(O.samples)
    BY <1>2, FirstIsEarliest
  <2> QED
    BY <2>1 DEF BreachStart, StateType, Time
<1>4. from \in Nat /\ b <= from
  <2>1. CASE O.accountedUntil = b
    BY <1>3, <2>1
  <2>2. CASE /\ O.accountedUntil = None /\ O.breachedSince = None
             /\ \A s \in O.samples : b <= s.at
    BY <1>3, <2>2
  <2> QED
    BY <2>1, <2>2
<1>5. gpus \in Nat /\ gpus <= GPUCount
  <2>1. GPUsSeen(O.samples) \subseteq Nodes \X UNION Views
    BY DEF GPUsSeen, StateType, SampleType
  <2>2. seen \in Nat
    BY <2>1, WatchAssumption, FS_Product, FS_Subset, FS_CardinalityType
  <2> HIDE DEF seen
  <2> QED
    BY <1>1, <2>2
<1>6. Wasted(O, job, clock) = IF clock > from THEN gpus * (clock - from) ELSE 0
  BY DEF Wasted
<1> HIDE DEF from, gpus, job
<1>7. clock - from \in Int /\ clock - b \in Nat /\ clock - from <= clock - b
  BY <1>1, <1>4
<1>8. gpus * (clock - from) <= GPUCount * (clock - b) /\ 0 <= GPUCount * (clock - b)
  BY <1>1, <1>5, <1>7, MoreTime
<1> QED
  BY <1>6, <1>8 DEF job

LEMMA BillCycle ==
    ASSUME Punctual, Dense, NoSwap,
           TypeOK, TypeOK', EvidenceInv, EvidenceInv', WholeInv, WholeInv', BillInv, Cycle
    PROVE  BillInv'
<1>1. PICK report \in [Nodes -> Reports], stamp \in Stamps, exempt \in ExemptAnswers :
         Judge(report, stamp, exempt)
  BY DEF Cycle
<1>2. start # None /\ judged < clock /\ clock' = clock /\ start' = start /\ PaceInv
  BY DEF Cycle, WholeInv, SeenInv
<1>3. /\ Current' /\ judged' = clock
      /\ \A s \in st'.samples : (Current /\ s \in st.samples) \/ s.at = clock
  BY <1>1, <1>2, PunctualCycle DEF WholeInv, SeenInv
<1>4. /\ clock \in Nat /\ judged \in Int /\ start \in Nat
      /\ Warmup \in Nat /\ Window \in Nat /\ MaxSampleGap \in Nat /\ MaxSampleGap < Window
      /\ hist.billed \in Nat /\ GPUCount \in Nat
      /\ \A n \in Nodes : hist'.clean[n] \in Int /\ hist'.steady[n] \in Int
  <2>1. hist \in HistoryType /\ hist' \in HistoryType
    BY DEF TypeOK
  <2> QED
    BY <1>2, <2>1, TimesAreInts, WatchAssumption DEF HistoryType, Time
<1>5. ASSUME NEW s \in st'.samples
      PROVE  s.at \in Nat /\ s.node \in Nodes /\ start + Warmup <= s.at /\ s.at <= clock
  <2>1. s.at \in Nat /\ s.node \in Nodes
    BY DEF TypeOK, StateType, SampleType
  <2>2. hist'.last[s.node] <= clock
    BY <1>2, <2>1 DEF TypeOK
  <2>3. start + Warmup <= s.at /\ s.at <= hist'.last[s.node]
    BY <1>2, <1>3 DEF EvidenceInv, SamplesInv
  <2>4. hist'.last[s.node] \in Int
    BY <2>1 DEF TypeOK, HistoryType, Time
  <2> QED
    BY <1>4, <2>1, <2>2, <2>3, <2>4
<1> DEFINE O == Observed(report, stamp, exempt)
           A == Answer(report, stamp, exempt)
           job == JobOf(start, exempt)
<1>6. /\ st' = A.state /\ finding' = A.finding /\ st'.samples = O.samples /\ O \in StateType
      /\ A.finding.wasted \in Nat
  BY <1>1, <1>2, JudgeAs, AnswerCases, JudgeType DEF FindingType
<1>7. hist'.billed = hist.billed + A.finding.wasted
  <2>1. hist' = Remember(hist, report, stamp, clock, start + Warmup, A.finding)
    BY <1>1, JudgeAs
  <2> HIDE DEF A
  <2> QED
    BY <2>1 DEF Remember
<1>8. PICK b \in Nat : Bill(b)
  BY <1>2 DEF BillInv
<1>9. /\ Current => O.breachedSince = st.breachedSince /\ O.accountedUntil = st.accountedUntil
      /\ ~Current => O.breachedSince = None /\ O.accountedUntil = None
  BY <1>2, ObservedBill
<1>10. \/ A.state = O /\ A.finding.wasted = 0
       \/ /\ A.state.accountedUntil = None /\ A.state.breachedSince = None
          /\ A.finding.wasted = 0
          /\ clock - start < Warmup \/ ~Covered(O.samples, Nodes, GPUCount, clock)
                                    \/ Alive(O.samples)
       \/ /\ A.state.accountedUntil = clock
          /\ A.finding.wasted = Wasted(O, job, clock)
          /\ O.samples # {}
          /\ Covered(O.samples, Nodes, GPUCount, clock)
          /\ ~Alive(O.samples)
  BY <1>2, AnswerBills
<1> HIDE DEF O, A, job
<1>11. ASSUME NEW s \in st'.samples, s.at < b
       PROVE  Current /\ s \in st.samples /\ s.at < clock /\ b <= judged /\ b < clock
  <2>1. b = start + Warmup \/ b <= judged
    BY <1>8 DEF Bill
  <2> QED
    BY <1>2, <1>3, <1>4, <1>5, <1>11, <2>1
<1>12. ASSUME NEW s \in st'.samples, s.at < b, GoodSince(s.at)'
       PROVE  GoodSince(s.at)
  <2>1. s.at \in Nat /\ s.at < clock
    BY <1>5, <1>11, <1>12
  <2>2. \A n \in Nodes : /\ hist'.clean[n] # None /\ hist'.clean[n] <= s.at
                         /\ hist'.steady[n] <= s.at
    BY <1>12 DEF GoodSince
  <2> QED
    BY <1>1, <1>2, <2>1, <2>2, GoodBack DEF GoodSince
<1>13. ASSUME Current, st.accountedUntil # None
       PROVE  st.accountedUntil = b /\ b < clock /\ Base(b)'
  <2>1. st.accountedUntil = b /\ b <= judged /\ Base(b) /\ start + Warmup <= b
    BY <1>8, <1>13 DEF Bill
  <2>2. b < clock
    BY <1>2, <1>4, <2>1
  <2> QED
    BY <1>1, <1>2, <2>1, <2>2, BaseKept
<1>14. /\ start' + Warmup <= b
       /\ b = start' + Warmup \/ b <= judged'
       /\ hist.billed <= GPUCount * (b - start - Warmup)
  BY <1>2, <1>3, <1>4, <1>8 DEF Bill
<1>15. ASSUME A.finding.wasted = 0 PROVE hist'.billed <= GPUCount * (b - start' - Warmup)
  BY <1>2, <1>4, <1>7, <1>14, <1>15
<1>16. CASE A.state = O /\ A.finding.wasted = 0
  <2>1. Bill(b)'
    <3>1. CASE O.accountedUntil # None
      <4>1. Current /\ st.accountedUntil = O.accountedUntil
        BY <1>9, <3>1
      <4>2. O.accountedUntil = b /\ b <= judged' /\ Base(b)'
        BY <1>3, <1>4, <1>13, <3>1, <4>1
      <4> QED
        BY <1>6, <1>14, <1>15, <1>16, <3>1, <4>2 DEF Bill
    <3>2. CASE O.accountedUntil = None
      <4>1. O.breachedSince = None
        BY <1>8, <1>9, <3>2 DEF Bill
      <4>2. \A s \in st'.samples : s.at < b => ~GoodSince(s.at)'
        BY <1>8, <1>9, <1>11, <1>12, <3>2 DEF Bill
      <4> QED
        BY <1>6, <1>14, <1>15, <1>16, <3>2, <4>1, <4>2 DEF Bill
    <3> QED
      BY <3>1, <3>2
  <2> QED
    BY <2>1 DEF BillInv
<1>17. CASE /\ A.state.accountedUntil = None /\ A.state.breachedSince = None
            /\ A.finding.wasted = 0
            /\ clock - start < Warmup \/ ~Covered(O.samples, Nodes, GPUCount, clock)
                                      \/ Alive(O.samples)
  <2>1. ASSUME NEW s \in st'.samples, s.at < b, GoodSince(s.at)'
        PROVE  FALSE
    <3>1. Current /\ s \in st.samples /\ GoodSince(s.at)
      BY <1>11, <1>12, <2>1
    <3>2. st.accountedUntil # None
      BY <1>8, <2>1, <3>1 DEF Bill
    <3>3. b < clock /\ Base(b)'
      BY <1>13, <3>1, <3>2
    <3>4. \A n \in Nodes : /\ hist'.clean[n] # None /\ hist'.clean[n] <= b
                           /\ hist'.steady[n] <= b
      BY <1>4, <1>5, <2>1 DEF GoodSince
    <3>5. /\ \A n \in Nodes : /\ hist'.clean[n] <= b - Window + MaxSampleGap
                              /\ \A u \in st'.samples : /\ hist'.clean[n] <= u.at
                                                        /\ hist'.steady[n] <= u.at
          /\ Cardinality(Viewed(hist'.view)) >= GPUCount
      BY <3>3, <3>4 DEF Base
    <3>6. \A n \in Nodes : hist'.clean[n] < clock - Window + MaxSampleGap
      BY <1>4, <3>3, <3>5
    <3>7. \A u \in st'.samples : /\ hist'.clean[u.node] <= u.at
                                 /\ Seen(st'.samples, u.node, u.at)
                                       = Cardinality(hist'.view[u.node])
      BY <1>3, <1>5, <3>5 DEF WholeInv, SeenInv, SteadyInv
    <3>8. Covered(st'.samples, Nodes, GPUCount, clock) /\ ~Alive(st'.samples)
      BY <1>1, <1>2, <3>4, <3>5, <3>6, <3>7, WindowCovered
    <3>9. ~(clock - start < Warmup)
      BY <1>4, <1>14, <1>2, <3>3
    <3> QED
      BY <1>6, <1>17, <3>8, <3>9
  <2>2. Bill(b)'
    BY <1>6, <1>14, <1>15, <1>17, <2>1 DEF Bill
  <2> QED
    BY <2>2 DEF BillInv
<1>18. CASE /\ A.state.accountedUntil = clock
            /\ A.finding.wasted = Wasted(O, job, clock)
            /\ O.samples # {}
            /\ Covered(O.samples, Nodes, GPUCount, clock)
            /\ ~Alive(O.samples)
  <2>0. PICK now \in Nat : now = clock
    BY <1>4
  <2>1. Base(now)' /\ \A s \in st'.samples : GoodSince(s.at)'
    BY <1>3, <1>6, <1>18, <2>0, CoveredIsBase DEF WholeInv
  <2>2. start + Warmup <= clock
    <3>1. PICK s \in st'.samples : TRUE
      BY <1>6, <1>18
    <3> QED
      BY <1>4, <1>5, <3>1
  <2>3. b <= clock
    BY <1>2, <1>3, <1>4, <1>14, <2>2
  <2>4. \/ O.accountedUntil = b
        \/ /\ O.accountedUntil = None /\ O.breachedSince = None
           /\ \A s \in O.samples : b <= s.at
    <3>1. CASE O.accountedUntil # None
      BY <1>9, <1>13, <3>1
    <3>2. CASE O.accountedUntil = None
      <4>1. O.breachedSince = None
        BY <1>8, <1>9, <3>2 DEF Bill
      <4>2. ASSUME NEW s \in O.samples PROVE ~(s.at < b)
        <5>1. SUFFICES ASSUME s.at < b PROVE FALSE
          OBVIOUS
        <5>2. s \in st'.samples
          BY <1>6
        <5>3. Current /\ s \in st.samples /\ GoodSince(s.at)
          BY <1>11, <1>12, <2>1, <5>1, <5>2
        <5> QED
          BY <1>8, <1>9, <3>2, <5>1, <5>3 DEF Bill
      <4>3. \A s \in O.samples : b <= s.at
        BY <1>5, <1>6, <4>2
      <4> QED
        BY <3>2, <4>1, <4>3
    <3> QED
      BY <3>1, <3>2
  <2>5. A.finding.wasted <= GPUCount * (clock - b)
    BY <1>2, <1>6, <1>18, <2>3, <2>4, WasteSinceBill DEF job
  <2>6. hist'.billed <= GPUCount * (clock - start' - Warmup)
    <3> DEFINE from == start + Warmup
    <3>1. GPUCount * (b - from) + GPUCount * (clock - b) = GPUCount * (clock - from)
      BY <1>4, TimesAdd
    <3>2. /\ GPUCount * (b - from) \in Int /\ GPUCount * (clock - b) \in Int
          /\ GPUCount * (clock - from) \in Int
      BY <1>4
    <3>3. b - start - Warmup = b - from /\ clock - start' - Warmup = clock - from
      BY <1>2, <1>4
    <3>4. hist.billed <= GPUCount * (b - from)
      BY <1>14, <3>3
    <3>5. hist'.billed <= GPUCount * (clock - from)
      BY <1>4, <1>6, <1>7, <2>5, <3>1, <3>2, <3>4
    <3> QED
      BY <3>3, <3>5
  <2>7. Bill(now)'
    BY <1>2, <1>3, <1>4, <1>6, <1>18, <2>0, <2>1, <2>2, <2>6 DEF Bill
  <2> QED
    BY <2>7 DEF BillInv
<1> QED
  BY <1>10, <1>16, <1>17, <1>18

LEMMA FromWarmup ==
    ASSUME NEW from \in Nat
    PROVE  \E b \in Nat : /\ from + Warmup <= b /\ b = from + Warmup
                         /\ 0 <= GPUCount * (b - from - Warmup)
<1> DEFINE b == from + Warmup
<1>1. Warmup \in Nat /\ GPUCount \in Nat
  BY ThresholdsAssumption, WatchAssumption
<1>2. b \in Nat /\ from + Warmup <= b /\ b = from + Warmup
  BY <1>1
<1>3. b - from - Warmup = 0
  BY <1>1
<1>4. 0 <= GPUCount * (b - from - Warmup)
  BY <1>1, <1>3
<1> HIDE DEF b
<1> QED
  BY <1>2, <1>4

LEMMA BillStep ==
    ASSUME Punctual, Dense, NoSwap
    PROVE  /\ TypeOK /\ EvidenceInv /\ WholeInv /\ BillInv
           /\ [Next]_vars /\ [Paced]_vars
           => BillInv'
<1> SUFFICES ASSUME TypeOK, EvidenceInv, WholeInv, BillInv, [Next]_vars, [Paced]_vars
             PROVE  BillInv'
  OBVIOUS
<1>s. NoState.startTime = None
  BY DEF NoState, FreshState
<1>t. /\ clock \in Nat /\ judged \in Int /\ start \in Int /\ Warmup \in Nat /\ GPUCount \in Nat
      /\ start # None => start \in Nat
  BY TimesAreInts, WatchAssumption
<1>v. ASSUME start' # None, start' \in Nat, ~Current', hist'.billed = 0
      PROVE  BillInv'
  <2>1. PICK b \in Nat : /\ start' + Warmup <= b /\ b = start' + Warmup
                        /\ 0 <= GPUCount * (b - start' - Warmup)
    BY <1>v, FromWarmup
  <2>2. Bill(b)'
    BY <1>v, <2>1 DEF Bill
  <2> QED
    BY <2>2 DEF BillInv
<1>1. CASE Cycle
  <2>1. TypeOK' /\ EvidenceInv' /\ WholeInv'
    BY TypeStep, EvidenceStep, WholeStep
  <2> QED
    BY <1>1, <2>1, BillCycle
<1>2. CASE Tick \/ DrainExecuted \/ UNCHANGED vars
  <2>1. /\ start' = start /\ judged' = judged
        /\ st'.startTime = st.startTime /\ st'.samples = st.samples
        /\ st'.accountedUntil = st.accountedUntil /\ st'.breachedSince = st.breachedSince
        /\ hist'.clean = hist.clean /\ hist'.steady = hist.steady /\ hist'.view = hist.view
        /\ hist'.billed = hist.billed
    <3>1. CASE Tick \/ UNCHANGED vars
      BY <3>1 DEF Tick, vars
    <3>2. CASE DrainExecuted
      BY <3>2 DEF DrainExecuted, ConfirmDrain, TypeOK, StateType, HistoryType
    <3> QED
      BY <1>2, <3>1, <3>2
  <2>2. CASE start # None
    <3>1. PICK b \in Nat : Bill(b)
      BY <2>2 DEF BillInv
    <3>2. Current' = Current /\ Base(b)' = Base(b)
      BY <2>1 DEF Current, Base
    <3>3. \A s \in st.samples : GoodSince(s.at)' = GoodSince(s.at)
      BY <2>1 DEF GoodSince
    <3>4. Bill(b)'
      BY <2>1, <3>1, <3>2, <3>3 DEF Bill
    <3> QED
      BY <3>4 DEF BillInv
  <2> QED
    BY <2>1, <2>2 DEF BillInv
<1>3. CASE CycleWithoutStart \/ Drop
  <2>1. st' = NoState /\ start # None /\ start' = start
    BY <1>3, NothingJudged DEF CycleWithoutStart, Drop
  <2>2. /\ hist'.billed = hist.billed \/ hist'.billed = 0
        /\ judged' = clock /\ judged < clock
    BY <1>3, HistoryVoid DEF CycleWithoutStart, Drop
  <2>3. ~Current'
    BY <1>s, <2>1 DEF Current
  <2>4. CASE hist'.billed = hist.billed
    <3>1. PICK b \in Nat : Bill(b)
      BY <2>1 DEF BillInv
    <3>2. Bill(b)'
      BY <1>t, <2>1, <2>2, <2>3, <2>4, <3>1 DEF Bill
    <3> QED
      BY <3>2 DEF BillInv
  <2> QED
    BY <1>t, <1>v, <2>1, <2>2, <2>3, <2>4
<1>4. CASE Forget \/ End
  <2>1. start' = None
    BY <1>4 DEF Forget, End
  <2> QED
    BY <2>1 DEF BillInv
<1>5. CASE Restart
  <2>1. st' = NoState /\ start' = start /\ hist' = [Broken(hist) EXCEPT !.billed = 0]
    BY <1>5 DEF Restart
  <2>2. ~(start' # None /\ Current')
    BY <1>s, <2>1 DEF Current
  <2>3. hist'.billed = 0
    BY <2>1 DEF Broken, NoRecord
  <2>4. CASE start' # None
    BY <1>t, <1>v, <2>1, <2>2, <2>3, <2>4
  <2> QED
    BY <2>4 DEF BillInv
<1>6. CASE Requeue
  <2>1. /\ st' = st /\ start' = clock /\ st.startTime < clock
        /\ hist' = [Broken(hist) EXCEPT !.billed = 0]
    BY <1>6 DEF Requeue
  <2>2. ~Current' /\ start' \in Nat
    BY <1>t, <2>1 DEF Current, TypeOK
  <2>3. hist'.billed = 0
    BY <2>1 DEF Broken, NoRecord
  <2> QED
    BY <1>v, <2>2, <2>3
<1> QED
  BY <1>1, <1>2, <1>3, <1>4, <1>5, <1>6 DEF Next

(* The waste counted for an incarnation is never more than its GPUs for    *)
(* all the time since its warmup, however often the breach was reset, the  *)
(* samples dropped or a report lost (accountedUntil, breachedSince).       *)
THEOREM WasteCorrect ==
    ASSUME Punctual, Dense, NoSwap
    PROVE  Spec /\ [][Paced]_vars => []WasteOnce
<1>1. Init => BillInv
  <2> SUFFICES ASSUME Init PROVE BillInv
    OBVIOUS
  <2>1. ~Current
    BY DEF Init, Current, NoState, FreshState
  <2>2. start = 0 /\ hist.billed = 0 /\ Warmup \in Nat /\ GPUCount \in Nat
    BY ThresholdsAssumption, WatchAssumption DEF Init, NoRecord
  <2>3. GPUCount * (Warmup - start - Warmup) = 0
    <3>1. Warmup - start - Warmup = 0
      BY <2>2
    <3> QED
      BY <2>2, <3>1
  <2>4. Bill(Warmup)
    BY <2>1, <2>2, <2>3 DEF Bill
  <2> QED
    BY <2>2, <2>4 DEF BillInv
<1>2. TypeOK /\ EvidenceInv /\ WholeInv /\ BillInv /\ [Next]_vars /\ [Paced]_vars => BillInv'
  BY BillStep
<1>3. TypeOK /\ BillInv => WasteOnce
  <2> SUFFICES ASSUME TypeOK, BillInv, start # None, hist.billed > 0
               PROVE  hist.billed <= GPUCount * (clock - start - Warmup)
    BY DEF WasteOnce
  <2>1. PICK b \in Nat : Bill(b)
    BY DEF BillInv
  <2>2. /\ clock \in Nat /\ judged \in Int /\ judged <= clock /\ start \in Nat
        /\ Warmup \in Nat /\ GPUCount \in Nat /\ hist.billed \in Nat
    <3>1. hist \in HistoryType
      BY DEF TypeOK
    <3> QED
      BY <3>1, TimesAreInts, WatchAssumption DEF HistoryType
  <2>3. b # start + Warmup
    <3>1. SUFFICES ASSUME b = start + Warmup PROVE FALSE
      OBVIOUS
    <3>2. b - start - Warmup = 0
      BY <2>2, <3>1
    <3>3. GPUCount * (b - start - Warmup) = 0
      BY <2>2, <3>2
    <3> QED
      BY <2>1, <2>2, <3>3 DEF Bill
  <2>4. b <= clock /\ start + Warmup <= b /\ hist.billed <= GPUCount * (b - start - Warmup)
    BY <2>1, <2>2, <2>3 DEF Bill
  <2>5. GPUCount * (b - start - Warmup) <= GPUCount * (clock - start - Warmup)
    <3>1. /\ b - start - Warmup \in Int /\ clock - start - Warmup \in Nat
          /\ b - start - Warmup <= clock - start - Warmup
      BY <2>2, <2>4
    <3> QED
      BY <2>2, <3>1, MoreTime
  <2>6. /\ GPUCount * (b - start - Warmup) \in Int
        /\ GPUCount * (clock - start - Warmup) \in Int
    BY <2>2
  <2> QED
    BY <2>2, <2>4, <2>5, <2>6
<1> QED
  BY <1>1, <1>2, <1>3, WholeInduction, PTL DEF Spec

-----------------------------------------------------------------------------
(***************************************************************************)
(* JobWatch implements Ladder: for any thresholds, stages, nodes, readings *)
(* and lags, and whether or not the job is exempt now and then, what the   *)
(* engine remembers of a job climbs the ladder and nothing else.           *)
(***************************************************************************)
HIDE DEF None, Healthy, Watching, Alert, Drain, Cancel

Pending == IF draining THEN judged ELSE None

(* A drain is asked for by a cycle, so that it has that cycle's time.      *)
AskedInv == draining => judged # None

LEMMA AskedStep == TypeOK /\ AskedInv /\ [Next]_vars => AskedInv'
<1> SUFFICES ASSUME TypeOK, AskedInv, [Next]_vars
             PROVE  AskedInv'
    OBVIOUS
<1>1. CASE Cycle
    <2>1. judged' = clock
        BY <1>1, JudgeAs DEF Cycle
    <2> QED BY <2>1 DEF AskedInv, TypeOK, None
<1>2. CASE Tick \/ End \/ Requeue \/ UNCHANGED vars
    BY <1>2 DEF AskedInv, Tick, End, Requeue, vars
<1>3. CASE CycleWithoutStart \/ DrainExecuted \/ Drop \/ Forget \/ Restart
    <2>1. draining' = FALSE
        BY <1>3, Zenon DEF CycleWithoutStart, DrainExecuted, Drop, Forget, Restart
    <2> QED BY <2>1 DEF AskedInv
<1> QED BY <1>1, <1>2, <1>3 DEF Next

-----------------------------------------------------------------------------
(***************************************************************************)
(* The steps of the ladder, for the state under the mapping.               *)
(***************************************************************************)
(* What goes on anew is over.                                              *)
LEMMA OverMaps ==
    ASSUME clock' = clock, draining' = FALSE, st'.drainConfirmedAt = None,
           st'.lastVerdict \in {Healthy, Watching, Alert}
    PROVE  L!Next
<1>1. Pending' = None
    BY Zenon DEF Pending
<1>2. L!Over
    BY <1>1 DEF L!Over, L!None, L!Healthy, L!Watching, L!Alert, Pending,
           None, Healthy, Watching, Alert
<1> QED BY <1>2 DEF L!Next

LEMMA ForgoneMaps ==
    ASSUME clock' = clock, draining' = FALSE,
           st'.drainConfirmedAt = st.drainConfirmedAt, st'.lastVerdict = st.lastVerdict
    PROVE  L!Next
<1>1. Pending' = None
    BY Zenon DEF Pending
<1>2. L!Forgone
    BY <1>1 DEF L!Forgone, L!None, Pending, None
<1> QED BY <1>2 DEF L!Next

(* A breach that goes on takes one rung, or none.                          *)
LEMMA BreachMaps ==
    ASSUME TypeOK, clock' = clock, judged' = clock,
           NEW v \in Watching .. Cancel,
           st'.lastVerdict = v, st'.drainConfirmedAt = st.drainConfirmedAt,
           draining' = (v = Drain /\ st.drainConfirmedAt = None),
           v = Drain => ~(st.lastVerdict < Alert),
           v = Cancel => /\ ~(st.lastVerdict < Drain)
                         /\ st.drainConfirmedAt # None
                         /\ ~(clock - st.drainConfirmedAt < Window)
    PROVE  L!Next
<1>t. /\ clock \in Nat /\ st.lastVerdict \in 0 .. 4 /\ Window \in Nat
      /\ st.drainConfirmedAt \in Nat \cup {-1}
    BY ThresholdsAssumption
    DEF TypeOK, StateType, Verdicts, Healthy, Cancel, Time, None
<1>1. CASE v \in {Watching, Alert}
    <2>1. draining' = FALSE
        <3>1. v # Drain
            BY <1>1 DEF Watching, Alert, Drain
        <3> QED BY <3>1, Zenon
    <2>2. Pending' = None
        BY <2>1, Zenon DEF Pending
    <2>3. L!Warn
        BY <1>1, <2>2 DEF L!Warn, L!None, L!Watching, L!Alert, Pending, None, Watching, Alert
    <2> QED BY <2>3 DEF L!Next
<1>2. CASE v = Drain
    <2>1. Pending' = IF st.drainConfirmedAt = None THEN clock ELSE None
        BY <1>2, Zenon DEF Pending
    <2>2. st.lastVerdict >= 2 /\ st'.lastVerdict = 3
        BY <1>2, <1>t DEF Alert, Drain
    <2>3. L!AskDrain
        BY <2>1, <2>2, Zenon DEF L!AskDrain, L!None, L!Alert, L!Drain, Pending, None
    <2> QED BY <2>3 DEF L!Next
<1>3. CASE v = Cancel
    <2>1. draining' = FALSE
        <3>1. v # Drain
            BY <1>3 DEF Cancel, Drain
        <3> QED BY <3>1, Zenon
    <2>2. Pending' = None
        BY <2>1, Zenon DEF Pending
    <2>3. L!AskCancel
        BY <1>3, <1>t, <2>2 DEF L!AskCancel, L!None, L!Drain, L!Cancel, Pending, None, Drain, Cancel
    <2> QED BY <2>3 DEF L!Next
<1> QED BY <1>1, <1>2, <1>3 DEF Watching, Alert, Drain, Cancel

-----------------------------------------------------------------------------
(***************************************************************************)
(* The actions of JobWatch.                                                *)
(***************************************************************************)
LEMMA HealthyAsksNothing == Healthy # Drain
BY DEF Healthy, Drain

LEMMA CycleMaps ==
    ASSUME TypeOK, Cycle
    PROVE  L!Next
<1>1. PICK report \in [Nodes -> Reports], stamp \in Stamps, exempt \in ExemptAnswers :
         Judge(report, stamp, exempt)
    BY DEF Cycle
<1> DEFINE O == Observed(report, stamp, exempt)
           A == Answer(report, stamp, exempt)
<1>2. start # None /\ clock' = clock
    BY DEF Cycle
<1>3. /\ st' = A.state /\ finding' = A.finding /\ judged' = clock
      /\ draining' = (A.finding.verdict = Drain /\ ~A.finding.drainConfirmed)
    BY <1>1, JudgeAs
<1>4. /\ Current => /\ O.lastVerdict = st.lastVerdict
                    /\ O.drainConfirmedAt = st.drainConfirmedAt
      /\ ~Current => O.lastVerdict = Healthy /\ O.drainConfirmedAt = None
    BY <1>2, ObservedLadder
<1> HIDE DEF O, A
<1>5. CASE /\ A.finding.verdict = Healthy
           /\ A.state.lastVerdict = Healthy /\ A.state.drainConfirmedAt = None
    <2>1. draining' = FALSE
        BY <1>3, <1>5, HealthyAsksNothing, Zenon
    <2>2. st'.lastVerdict \in {Healthy, Watching, Alert} /\ st'.drainConfirmedAt = None
        BY <1>3, <1>5, Zenon
    <2> QED BY <1>2, <2>1, <2>2, OverMaps, Zenon
<1>6. CASE /\ A.finding.verdict = Healthy
           /\ A.state.lastVerdict = O.lastVerdict
           /\ A.state.drainConfirmedAt = O.drainConfirmedAt
    <2>1. draining' = FALSE
        BY <1>3, <1>6, HealthyAsksNothing, Zenon
    <2>2. /\ Current => /\ st'.lastVerdict = st.lastVerdict
                        /\ st'.drainConfirmedAt = st.drainConfirmedAt
          /\ ~Current => /\ st'.lastVerdict \in {Healthy, Watching, Alert}
                         /\ st'.drainConfirmedAt = None
        BY <1>3, <1>4, <1>6, Zenon
    <2> QED BY <1>2, <2>1, <2>2, OverMaps, ForgoneMaps, Zenon
<1>7. CASE /\ A.finding.verdict = BreachVerdict(O, clock)
           /\ A.finding.verdict \in Watching .. Cancel
           /\ A.state.lastVerdict = BreachVerdict(O, clock)
           /\ A.state.drainConfirmedAt = O.drainConfirmedAt
           /\ A.finding.drainConfirmed = (O.drainConfirmedAt # None)
    <2>1. draining' = (BreachVerdict(O, clock) = Drain /\ O.drainConfirmedAt = None)
        BY <1>3, <1>7, Zenon
    <2>2. CASE Current
        <3> DEFINE v == BreachVerdict(O, clock)
        <3>1. /\ v \in Watching .. Cancel
              /\ st'.lastVerdict = v /\ st'.drainConfirmedAt = st.drainConfirmedAt
              /\ draining' = (v = Drain /\ st.drainConfirmedAt = None)
            BY <1>3, <1>4, <1>7, <2>1, <2>2, Zenon
        <3>2. /\ v = Drain => ~(st.lastVerdict < Alert)
              /\ v = Cancel => /\ ~(st.lastVerdict < Drain)
                              /\ st.drainConfirmedAt # None
                              /\ ~(clock - st.drainConfirmedAt < Window)
            BY <1>4, <2>2, VerdictRung, Zenon
        <3> HIDE DEF v
        <3> QED BY <1>2, <1>3, <3>1, <3>2, BreachMaps, Zenon
    <2>3. CASE ~Current
        <3>1. BreachVerdict(O, clock) \in {Watching, Alert}
            BY <1>4, <1>7, <2>3, VerdictRung DEF Healthy, Watching, Alert, Drain, Cancel
        <3>2. draining' = FALSE
            <4>1. BreachVerdict(O, clock) # Drain
                BY <3>1 DEF Watching, Alert, Drain
            <4> QED BY <2>1, <4>1, Zenon
        <3> QED BY <1>2, <1>3, <1>4, <1>7, <2>3, <3>1, <3>2, OverMaps
    <2> QED BY <2>2, <2>3
<1> QED BY <1>2, <1>5, <1>6, <1>7, AnswerCases DEF O, A

LEMMA DrainMaps ==
    ASSUME TypeOK, AskedInv, DrainExecuted
    PROVE  L!Next
<1>1. /\ draining /\ draining' = FALSE /\ clock' = clock /\ judged # None
      /\ st' = ConfirmDrain(st, finding.start, judged)
    BY DEF DrainExecuted, AskedInv
<1>2. CASE st' = st
    BY <1>1, <1>2, ForgoneMaps
<1>3. CASE st' = [st EXCEPT !.drainConfirmedAt = judged]
    <2>1. st'.drainConfirmedAt = judged /\ st'.lastVerdict = st.lastVerdict
        BY <1>3 DEF TypeOK, StateType
    <2>2. Pending = judged /\ Pending' = None
        BY <1>1, Zenon DEF Pending
    <2>3. L!Drained
        BY <1>1, <2>1, <2>2 DEF L!Drained, L!None, Pending, None
    <2> QED BY <2>3 DEF L!Next
<1> QED BY <1>1, <1>2, <1>3 DEF ConfirmDrain

LEMMA NoStateIsOver == NoState.lastVerdict = Healthy /\ NoState.drainConfirmedAt = None
BY DEF NoState, FreshState

LEMMA LadderMaps == TypeOK /\ AskedInv /\ [Next]_vars => [L!Next]_(L!vars)
<1> SUFFICES ASSUME TypeOK, AskedInv, [Next]_vars
             PROVE  [L!Next]_(L!vars)
    OBVIOUS
<1>1. CASE Tick
    <2>1. Pending' = Pending
        BY <1>1, Zenon DEF Tick, Pending
    <2>2. L!Tick
        BY <1>1, <2>1 DEF Tick, L!Tick, Pending
    <2> QED BY <2>2 DEF L!Next
<1>2. CASE Cycle
    BY <1>2, CycleMaps
<1>3. CASE DrainExecuted
    BY <1>3, DrainMaps
<1>4. CASE CycleWithoutStart \/ Drop \/ Forget \/ Restart
    <2>1. draining' = FALSE /\ clock' = clock
        BY <1>4, Zenon DEF CycleWithoutStart, Drop, Forget, Restart
    <2>2. st' = NoState
        BY <1>4, NothingJudged DEF Drop, Forget, Restart
    <2> QED BY <2>1, <2>2, NoStateIsOver, OverMaps
<1>5. CASE End \/ Requeue \/ UNCHANGED vars
    <2>1. UNCHANGED <<clock, st, judged, draining>>
        BY <1>5 DEF End, Requeue, vars
    <2>2. Pending' = Pending
        BY <2>1, Zenon DEF Pending
    <2> QED BY <2>1, <2>2 DEF L!vars, Pending
<1> QED BY <1>1, <1>2, <1>3, <1>4, <1>5 DEF Next

LEMMA LadderBegins == Init => L!Init /\ AskedInv
<1> SUFFICES ASSUME Init
             PROVE  L!Init /\ AskedInv
    OBVIOUS
<1>1. draining = FALSE /\ clock = 0 /\ st = NoState
    BY Zenon DEF Init
<1>2. Pending = None
    BY <1>1, Zenon DEF Pending
<1> QED BY <1>1, <1>2, NoStateIsOver
    DEF L!Init, L!None, L!Healthy, None, Healthy, Pending, AskedInv

(* A job climbs the ladder whatever becomes of its evidence, its drains    *)
(* and the daemon (property ClimbsLadder; Evaluate, ConfirmDrain, Drop).   *)
THEOREM WatchClimbs == Spec => ClimbsLadder
<1>1. Init => TypeOK /\ AskedInv /\ L!Init
    BY TypeInit, LadderBegins
<1>2. TypeOK /\ AskedInv /\ [Next]_vars => (TypeOK /\ AskedInv)'
    BY TypeStep, AskedStep
<1>3. TypeOK /\ AskedInv /\ [Next]_vars => [L!Next]_(L!vars)
    BY LadderMaps
<1> QED BY <1>1, <1>2, <1>3, PTL DEF Spec, ClimbsLadder, L!Spec

=============================================================================
