---------------------------- MODULE EngineProofs ----------------------------
(***************************************************************************)
(* What the operators of Evidence and Engine return: the lemmas that the   *)
(* proofs about JobWatch and about Reaper share.                           *)
(***************************************************************************)
EXTENDS Engine, TLAPS, FiniteSetTheorems, WellFoundedInduction,
        SequenceTheorems

USE DEF None, Healthy, Watching, Alert, Drain, Cancel

-----------------------------------------------------------------------------
(***************************************************************************)
(* Evidence, stages and the ladder.                                        *)
(***************************************************************************)
(* Every nonempty set of numbers has a least one.                          *)
LEMMA LeastNumber ==
    ASSUME NEW T, T \subseteq Nat, T # {}
    PROVE  \E x \in T : \A y \in T : x <= y
<1>1. PICK x \in T : \A y \in T : ~(<<y, x>> \in OpToRel(<, Nat))
  BY NatLessThanWellFounded, WFMin
<1>2. ASSUME NEW y \in T PROVE x <= y
  <2>1. x \in Nat /\ y \in Nat
    OBVIOUS
  <2>2. <<y, x>> \notin OpToRel(<, Nat)
    BY <1>1
  <2>3. ~(y < x)
    BY <2>1, <2>2, Zenon DEF OpToRel
  <2> QED
    BY <2>1, <2>3
<1> QED
  BY <1>2

(* A nonempty set of times has an earliest one, and First returns it.      *)
LEMMA FirstIsEarliest ==
    ASSUME NEW ss, ss # {}, \A s \in ss : s.at \in Nat
    PROVE  /\ First(ss) \in Nat
           /\ \E s \in ss : s.at = First(ss)
           /\ \A s \in ss : First(ss) <= s.at
<1> DEFINE T == {s.at : s \in ss}
<1>1. T \subseteq Nat /\ T # {}
  OBVIOUS
<1>2. PICK x \in T : \A y \in T : x <= y
  BY <1>1, LeastNumber
<1>3. \A s \in ss : x <= s.at
  BY <1>2
<1>4. First(ss) \in T /\ \A s \in ss : First(ss) <= s.at
  BY <1>3, Zenon DEF First
<1> QED
  BY <1>4

(* Whatever the dwell, the signature and the ladder say, a breach is one.  *)
LEMMA StageIsBreach ==
    ASSUME NEW dwell PROVE StageFor(dwell) \in Watching .. Cancel
<1> DEFINE due == {i \in 1 .. Len(Stages) : Stages[i].after <= dwell}
<1>1. Stages \in Seq([after : Nat, verdict : {Alert, Drain, Cancel}])
  BY StagesAssumption
<1>2. Len(Stages) \in Nat
  BY <1>1
<1>3. CASE due = {}
  BY <1>3 DEF StageFor
<1>4. CASE due # {}
  <2>1. IsFiniteSet(1 .. Len(Stages)) /\ Cardinality(1 .. Len(Stages)) = Len(Stages)
    <3>1. 1 \in Int /\ Len(Stages) \in Int
      BY <1>2
    <3>2. /\ IsFiniteSet(1 .. Len(Stages))
          /\ Cardinality(1 .. Len(Stages)) =
                IF 1 > Len(Stages) THEN 0 ELSE Len(Stages) - 1 + 1
      BY <3>1, FS_Interval, SMTT(30)
    <3> QED
      BY <1>2, <3>2
  <2>2. IsFiniteSet(due) /\ Cardinality(due) <= Len(Stages)
    BY <2>1, FS_Subset
  <2>3. Cardinality(due) \in Nat /\ Cardinality(due) # 0
    BY <2>2, <1>4, FS_CardinalityType, FS_EmptySet
  <2>4. Cardinality(due) \in 1 .. Len(Stages)
    BY <2>2, <2>3, <1>2
  <2>5. Stages[Cardinality(due)].verdict \in {Alert, Drain, Cancel}
    <3>1. \A i \in 1 .. Len(Stages) : Stages[i] \in [after : Nat, verdict : {Alert, Drain, Cancel}]
      BY <1>1, ElementOfSeq
    <3>2. Stages[Cardinality(due)] \in [after : Nat, verdict : {Alert, Drain, Cancel}]
      BY <2>4, <3>1
    <3> QED
      BY <3>2
  <2> QED
    BY <1>4, <2>5 DEF StageFor
<1> QED
  BY <1>3, <1>4

LEMMA ClassifyIsSignature == ASSUME NEW ss PROVE Classify(ss) \in Signatures
  BY Zenon DEF Classify, Signatures

LEMMA CappedIsBreach ==
    ASSUME NEW target \in Watching .. Cancel, NEW sig
    PROVE  Capped(target, sig) \in Watching .. Cancel
  BY DEF Capped

LEMMA LadderedIsBreach ==
    ASSUME NEW target \in Watching .. Cancel, NEW s, NEW now
    PROVE  Laddered(target, s, now) \in Watching .. Cancel
  BY DEF Laddered

(* The five ways Evaluate can end, each with the condition it ends under.  *)
LEMMA EvaluateCases ==
    ASSUME NEW s, NEW job, NEW now
    PROVE  \/ /\ Evaluate(s, job, now) = Result(s, Nothing(job))
              /\ \/ job.gpuCount = 0 \/ job.exempt
                 \/ now - job.start < Warmup
                 \/ s.startTime # job.start \/ s.samples = {}
           \/ /\ Evaluate(s, job, now) = Result(NoState, Nothing(job))
              /\ job.start = None
           \/ /\ Evaluate(s, job, now) = Result(Reset(s), Nothing(job))
           \/ /\ Evaluate(s, job, now) =
                    Result(Reset(s), [Nothing(job) EXCEPT !.recovered = (s.drainConfirmedAt # None)])
           \/ /\ Evaluate(s, job, now) = Breach(s, job, now)
              /\ job.start # None
              /\ s.samples # {}
              /\ Covered(s.samples, job.nodes, job.gpuCount, now)
              /\ ~Alive(s.samples)
  BY Zenon DEF Evaluate

LEMMA ResultFields == \A s, f : Result(s, f).state = s /\ Result(s, f).finding = f
  BY DEF Result

(* What Laddered lets through: Drain after an Alert, Cancel after a Drain  *)
(* that was confirmed a Window ago.                                        *)
LEMMA RungsBelow ==
    ASSUME NEW target, NEW s, NEW now
    PROVE  /\ Laddered(target, s, now) = Drain => ~(s.lastVerdict < Alert)
           /\ Laddered(target, s, now) = Cancel =>
                 /\ ~(s.lastVerdict < Alert)
                 /\ s.drainConfirmedAt # None
                 /\ ~(now - s.drainConfirmedAt < Window)
  BY DEF Laddered

LEMMA CancelFromDrain ==
    ASSUME NEW target, NEW s, NEW now, Laddered(target, s, now) = Cancel
    PROVE  ~(s.lastVerdict < Drain)
  BY DEF Laddered

(* A verdict of the breach of state O, in the terms of BreachMaps.         *)
LEMMA VerdictRung ==
    ASSUME NEW O, NEW now
    PROVE  /\ BreachVerdict(O, now) = Drain => ~(O.lastVerdict < Alert)
           /\ BreachVerdict(O, now) = Cancel =>
                 /\ ~(O.lastVerdict < Drain)
                 /\ O.drainConfirmedAt # None
                 /\ ~(now - O.drainConfirmedAt < Window)
BY RungsBelow, CancelFromDrain, Zenon DEF BreachVerdict

-----------------------------------------------------------------------------
(***************************************************************************)
(* The operations, on a state of which only the fields matter.             *)
(***************************************************************************)
(* The fields of a job's state.                                            *)
Fields == {"startTime", "samples", "breachedSince", "lastVerdict",
           "drainConfirmedAt", "accountedUntil"}

IsState(s) == s = [field \in Fields |-> s[field]]

(* What the ladder sees of a state, and a state that is off the ladder.    *)
SameRung(s, new) ==
    /\ new.startTime = s.startTime
    /\ new.lastVerdict = s.lastVerdict
    /\ new.drainConfirmedAt = s.drainConfirmedAt

OffLadder(s) == s.lastVerdict = Healthy /\ s.drainConfirmedAt = None

(* What "r" makes of a breach of state s, one rung up at most.             *)
Climbed(s, r, now) ==
    /\ r.finding.verdict \in Watching .. Cancel
    /\ r.finding.drainConfirmed = (s.drainConfirmedAt # None)
    /\ r.finding.verdict = Drain => ~(s.lastVerdict < Alert)
    /\ r.finding.verdict = Cancel =>
          /\ ~(s.lastVerdict < Drain)
          /\ s.drainConfirmedAt # None
          /\ ~(now - s.drainConfirmedAt < Window)
    /\ r.state.startTime = s.startTime
    /\ r.state.lastVerdict = r.finding.verdict
    /\ r.state.drainConfirmedAt = s.drainConfirmedAt

LEMMA FreshIsState ==
    ASSUME NEW start
    PROVE  /\ IsState(FreshState(start))
           /\ FreshState(start).startTime = start
           /\ OffLadder(FreshState(start))
  BY DEF FreshState, IsState, Fields, OffLadder

LEMMA ResetIsState ==
    ASSUME NEW s, IsState(s)
    PROVE  /\ IsState(Reset(s))
           /\ Reset(s).startTime = s.startTime
           /\ OffLadder(Reset(s))
  BY DEF Reset, IsState, Fields, OffLadder

(* Observe keeps the ladder with the start, or neither.                    *)
LEMMA ObserveIsState ==
    ASSUME NEW s, IsState(s), NEW job, NEW batch, NEW now
    PROVE  LET o == Observe(s, job, batch, now)
           IN  /\ IsState(o)
               /\ o.startTime = job.start
               /\ s.startTime = job.start => SameRung(s, o)
               /\ s.startTime # job.start => OffLadder(o)
<1>1. CASE s.startTime = job.start
  BY <1>1 DEF Observe, StateOf, IsState, Fields, SameRung
<1>2. CASE s.startTime # job.start
  BY <1>2 DEF Observe, StateOf, FreshState, IsState, Fields, OffLadder
<1> QED
  BY <1>1, <1>2

LEMMA BreachClimbs ==
    ASSUME NEW s, IsState(s), NEW job, NEW now
    PROVE  IsState(Breach(s, job, now).state) /\ Climbed(s, Breach(s, job, now), now)
<1> DEFINE v == BreachVerdict(s, now)
           b == Breach(s, job, now)
<1>1. v \in Watching .. Cancel
  BY StageIsBreach, CappedIsBreach, LadderedIsBreach DEF BreachVerdict
<1>2. /\ v = Drain => ~(s.lastVerdict < Alert)
      /\ v = Cancel => /\ ~(s.lastVerdict < Drain)
                       /\ s.drainConfirmedAt # None
                       /\ ~(now - s.drainConfirmedAt < Window)
  BY VerdictRung
<1> HIDE DEF v
<1>3. /\ IsState(b.state)
      /\ b.state.startTime = s.startTime
      /\ b.state.lastVerdict = v
      /\ b.state.drainConfirmedAt = s.drainConfirmedAt
      /\ b.finding.verdict = v
      /\ b.finding.drainConfirmed = (s.drainConfirmedAt # None)
  BY DEF Breach, Result, IsState, Fields, v
<1> HIDE DEF b
<1>4. IsState(b.state) /\ Climbed(s, b, now)
  BY <1>1, <1>2, <1>3 DEF Climbed
<1> QED
  BY <1>4 DEF b

(* Evaluate keeps the rung, leaves the ladder, or climbs.                  *)
LEMMA EvaluateClimbs ==
    ASSUME NEW s, IsState(s), NEW job, NEW now
    PROVE  LET r == Evaluate(s, job, now)
           IN  /\ IsState(r.state)
               /\ \/ r.finding.verdict = Healthy /\ r.state = s
                  \/ /\ r.finding.verdict = Healthy
                     /\ OffLadder(r.state)
                     /\ r.state.startTime \in {s.startTime, None}
                  \/ Climbed(s, r, now)
<1> DEFINE r == Evaluate(s, job, now)
           Good(x) == /\ IsState(x.state)
                      /\ \/ x.finding.verdict = Healthy /\ x.state = s
                         \/ /\ x.finding.verdict = Healthy
                            /\ OffLadder(x.state)
                            /\ x.state.startTime \in {s.startTime, None}
                         \/ Climbed(s, x, now)
<1>1. /\ Nothing(job).verdict = Healthy
      /\ [Nothing(job) EXCEPT !.recovered = (s.drainConfirmedAt # None)].verdict = Healthy
  BY DEF Nothing
<1>2. ASSUME NEW finding, finding.verdict = Healthy
      PROVE  /\ Good(Result(s, finding))
             /\ Good(Result(NoState, finding))
             /\ Good(Result(Reset(s), finding))
  BY <1>2, FreshIsState, ResetIsState, ResultFields DEF NoState
<1>3. Good(Breach(s, job, now))
  BY BreachClimbs
<1> HIDE DEF Good
<1>4. Good(r)
  BY <1>1, <1>2, <1>3, EvaluateCases
<1> QED
  BY <1>4 DEF Good

(* Evaluate keeps the samples, or has none of them left; and it alerts on  *)
(* samples only that cover the window and of which none is at work.        *)
LEMMA EvaluateKeeps ==
    ASSUME NEW s, IsState(s), NEW job, NEW now
    PROVE  LET r == Evaluate(s, job, now)
           IN  /\ \/ r.state.samples = {}
                  \/ r.state.samples = s.samples /\ r.state.startTime = s.startTime
               /\ r.finding.verdict >= Watching =>
                     /\ Covered(s.samples, job.nodes, job.gpuCount, now)
                     /\ ~Alive(s.samples)
<1> DEFINE r == Evaluate(s, job, now)
           b == Breach(s, job, now)
           Keeps(x) == \/ x.state.samples = {}
                       \/ x.state.samples = s.samples /\ x.state.startTime = s.startTime
           Earned   == Covered(s.samples, job.nodes, job.gpuCount, now) /\ ~Alive(s.samples)
<1>1. /\ Nothing(job).verdict = Healthy
      /\ [Nothing(job) EXCEPT !.recovered = (s.drainConfirmedAt # None)].verdict = Healthy
    BY DEF Nothing
<1>2. /\ NoState.samples = {}
      /\ Reset(s).samples = s.samples /\ Reset(s).startTime = s.startTime
    BY DEF NoState, FreshState, Reset, IsState, Fields
<1>3. ASSUME NEW f, f.verdict = Healthy, NEW t \in {s, NoState, Reset(s)}, r = Result(t, f)
      PROVE  Keeps(r) /\ ~(r.finding.verdict >= Watching)
    BY <1>2, <1>3, ResultFields DEF Healthy, Watching
<1>4. b.state.samples = s.samples /\ b.state.startTime = s.startTime
    BY DEF Breach, Result, IsState, Fields
<1> HIDE DEF r, b
<1>5. Keeps(r) /\ (r.finding.verdict >= Watching => Earned)
    <2>1. CASE r = b /\ Earned
        BY <1>4, <2>1
    <2>2. CASE \E f : \E t \in {s, NoState, Reset(s)} : f.verdict = Healthy /\ r = Result(t, f)
        BY <1>3, <2>2
    <2> QED
        BY <1>1, <2>1, <2>2, EvaluateCases DEF r, b
<1> QED
    BY <1>5 DEF r

=============================================================================
