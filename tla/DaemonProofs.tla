---------------------------- MODULE DaemonProofs ----------------------------
(***************************************************************************)
(* Proofs about the daemon's loop, for every configuration that Validate   *)
(* accepts: what it asks for is earned (DestructiveEarned), what it calls  *)
(* ready has looked at the job (ReadyMeansSeen), and a job that stays idle *)
(* is reported (IdleReported).                                             *)
(***************************************************************************)
EXTENDS Daemon, TLAPS, FiniteSetTheorems, WellFoundedInduction,
        SequenceTheorems

-----------------------------------------------------------------------------
(***************************************************************************)
(* The stages the engine runs (Sorted, PolicyStages).                      *)
(***************************************************************************)
(* The rank of a stage: as many come before it.  No two have the same, so  *)
(* that every rank is taken.                                               *)
LEMMA Ranks ==
    ASSUME NEW N \in Nat, NEW stages, DOMAIN stages = 1 .. N,
           \A i \in 1 .. N : stages[i].after \in Int,
           NEW i \in 1 .. N
    PROVE  \E k \in 1 .. N : Cardinality(Before(stages, k)) = i - 1
<1> DEFINE D == 1 .. N
           T == 0 .. (N - 1)
           B(k) == Before(stages, k)
           rank == [k \in D |-> Cardinality(B(k))]
<1>1. IsFiniteSet(D) /\ Cardinality(D) = N
    <2>1. 1 \in Int /\ N \in Int
        OBVIOUS
    <2>2. IsFiniteSet(D) /\ Cardinality(D) = IF 1 > N THEN 0 ELSE N - 1 + 1
        BY <2>1, FS_Interval
    <2> QED
        BY <2>2
<1>2. IsFiniteSet(T) /\ Cardinality(T) = N
    <2>1. 0 \in Int /\ N - 1 \in Int
        OBVIOUS
    <2>2. IsFiniteSet(T) /\ Cardinality(T) = IF 0 > N - 1 THEN 0 ELSE (N - 1) - 0 + 1
        BY <2>1, FS_Interval
    <2> QED
        BY <2>2
<1>3. \A k \in D : B(k) \subseteq D /\ k \notin B(k)
    BY DEF Before
<1>4. \A k \in D : /\ IsFiniteSet(B(k))
                   /\ Cardinality(B(k)) \in Nat
                   /\ Cardinality(B(k)) < N
    <2> TAKE k \in D
    <2>1. /\ IsFiniteSet(B(k)) /\ Cardinality(B(k)) <= N
          /\ Cardinality(B(k)) = N => B(k) = D
        BY <1>1, <1>3, FS_Subset
    <2>2. Cardinality(B(k)) \in Nat
        BY <2>1, FS_CardinalityType
    <2> QED
        BY <1>3, <2>1, <2>2
<1>5. ASSUME NEW k \in D, NEW l \in D, k \in B(l)
      PROVE  Cardinality(B(k)) # Cardinality(B(l))
    <2>1. B(k) \subseteq B(l)
        BY <1>5 DEF Before
    <2>2. B(k) # B(l)
        BY <1>3, <1>5
    <2> QED
        BY <1>4, <2>1, <2>2, FS_Subset
<1>6. \A k, l \in D : k # l => k \in B(l) \/ l \in B(k)
    BY DEF Before
<1>7. rank \in [D -> T]
    BY <1>4
<1>8. \A k, l \in D : rank[k] = rank[l] => k = l
    BY <1>5, <1>6
<1> HIDE DEF rank
<1>9. rank \in Injection(D, T)
    BY <1>7, <1>8 DEF Injection, IsInjective
<1>10. rank \in Surjection(D, T)
    BY <1>1, <1>2, <1>9, FS_Injection
<1>11. i - 1 \in T
    OBVIOUS
<1>12. PICK k \in D : rank[k] = i - 1
    BY <1>10, <1>11 DEF Surjection
<1> QED
    BY <1>12 DEF rank

(* Sorted has the stages in the order of their dwell.                      *)
LEMMA SortedStages ==
    ASSUME NEW N \in Nat, NEW stages, DOMAIN stages = 1 .. N,
           \A i \in 1 .. N : stages[i].after \in Int
    PROVE  /\ DOMAIN Sorted(stages) = 1 .. N
           /\ \A i \in 1 .. N : \E k \in 1 .. N : Sorted(stages)[i] = stages[k]
           /\ \A i, k \in 1 .. N : i <= k => Sorted(stages)[i].after <= Sorted(stages)[k].after
<1> DEFINE at(i) == CHOOSE k \in DOMAIN stages : Cardinality(Before(stages, k)) = i - 1
<1>1. /\ DOMAIN Sorted(stages) = 1 .. N
      /\ \A i \in 1 .. N : Sorted(stages)[i] = stages[at(i)]
    BY DEF Sorted
<1>2. \A i \in 1 .. N : at(i) \in 1 .. N /\ Cardinality(Before(stages, at(i))) = i - 1
    <2> TAKE i \in 1 .. N
    <2>1. \E k \in DOMAIN stages : Cardinality(Before(stages, k)) = i - 1
        BY Ranks
    <2> QED
        BY <2>1
<1> HIDE DEF at
<1>3. ASSUME NEW i \in 1 .. N, NEW k \in 1 .. N, i <= k,
             stages[at(k)].after < stages[at(i)].after
      PROVE  FALSE
    <2> DEFINE p == at(i)
               q == at(k)
    <2>0. p \in DOMAIN stages /\ q \in DOMAIN stages
        BY <1>2
    <2> HIDE DEF p, q
    <2>a. \A j \in DOMAIN stages : stages[j].after \in Int
        OBVIOUS
    <2>b. stages[q].after < stages[p].after
        BY <1>3 DEF p, q
    <2>c. /\ Before(stages, q) \subseteq Before(stages, p)
          /\ q \in Before(stages, p) /\ q \notin Before(stages, q)
        BY <2>0, <2>a, <2>b DEF Before
    <2>1. /\ Before(stages, at(k)) \subseteq Before(stages, at(i))
          /\ at(k) \in Before(stages, at(i)) /\ at(k) \notin Before(stages, at(k))
        BY <2>c DEF p, q
    <2>2. IsFiniteSet(Before(stages, at(i)))
        <3>1. 1 \in Int /\ N \in Int
            OBVIOUS
        <3>2. IsFiniteSet(1 .. N)
            BY <3>1, FS_Interval
        <3>3. Before(stages, at(i)) \subseteq 1 .. N
            BY DEF Before
        <3> QED
            BY <3>2, <3>3, FS_Subset
    <2>3. /\ Cardinality(Before(stages, at(k))) <= Cardinality(Before(stages, at(i)))
          /\ Cardinality(Before(stages, at(k))) # Cardinality(Before(stages, at(i)))
        BY <2>1, <2>2, FS_Subset
    <2> QED
        BY <1>2, <1>3, <2>3
<1>4. \A i, k \in 1 .. N : i <= k => stages[at(i)].after <= stages[at(k)].after
    <2> SUFFICES ASSUME NEW i \in 1 .. N, NEW k \in 1 .. N, i <= k
                 PROVE  stages[at(i)].after <= stages[at(k)].after
        OBVIOUS
    <2>1. ~(stages[at(k)].after < stages[at(i)].after)
        BY <1>3
    <2>2. at(i) \in 1 .. N /\ at(k) \in 1 .. N
        BY <1>2
    <2>3. stages[at(i)].after \in Int /\ stages[at(k)].after \in Int
        BY <2>2
    <2> QED
        BY <2>1, <2>3
<1> QED
    BY <1>1, <1>2, <1>4

(* Stages that may follow a breach: N of them, none destructive before a   *)
(* window.                                                                 *)
Earned(stages, N, window) ==
    /\ N \in Nat
    /\ DOMAIN stages = 1 .. N
    /\ \A i \in 1 .. N :
          /\ stages[i].after \in Nat
          /\ stages[i].verdict \in Alert .. Cancel
          /\ stages[i].verdict >= Drain => stages[i].after >= window

(* Validate accepts no others, the default ones included.                  *)
LEMMA AcceptedStages ==
    ASSUME NEW c \in Config, StagesValid(c), StagesLate(c, Hour)
    PROVE  \E N \in Nat : Earned(PolicyStages(c, Hour), N, c.thresholds.window)
<1> USE DEF Alert, Drain, Cancel
<1> DEFINE ss == PolicyStages(c, Hour)
<1>1. CASE c.stages = <<>>
    <2>1. ss = <<[after |-> 0, verdict |-> Alert], [after |-> Hour, verdict |-> Drain]>>
        BY <1>1 DEF PolicyStages, DefaultStages
    <2>2. DOMAIN ss = 1 .. 2
        BY <2>1
    <2>3. /\ ss[1] = [after |-> 0, verdict |-> Alert]
          /\ ss[2] = [after |-> Hour, verdict |-> Drain]
        BY <2>1
    <2>4. \A i \in 1 .. 2 : ss[i].verdict >= Drain => ss[i].after >= c.thresholds.window
        BY <2>2 DEF StagesLate, LateFrom
    <2>5. \A i \in 1 .. 2 : ss[i].after \in Nat /\ ss[i].verdict \in Alert .. Cancel
        BY <2>3, DaemonAssumption
    <2> HIDE DEF ss
    <2>6. Earned(ss, 2, c.thresholds.window)
        BY <2>2, <2>4, <2>5 DEF Earned
    <2> QED
        BY <2>6, Zenon DEF ss
<1>2. CASE c.stages # <<>>
    <2>1. c.stages \in Seq([after : Int, verdict : STRING])
        BY DEF Config
    <2>2. ss = [i \in DOMAIN c.stages |->
                   [after |-> c.stages[i].after, verdict |-> ParseVerdict(c.stages[i].verdict)]]
        BY <1>2, Zenon DEF PolicyStages
    <2> DEFINE N == Len(c.stages)
    <2>3. N \in Nat /\ DOMAIN c.stages = 1 .. N
        BY <2>1
    <2>4. \A i \in 1 .. N : c.stages[i].after \in Int
        <3>1. \A i \in 1 .. N : c.stages[i] \in [after : Int, verdict : STRING]
            BY <2>1, ElementOfSeq
        <3> QED
            BY <3>1
    <2>5. \A i \in 1 .. N : /\ ss[i].after = c.stages[i].after
                            /\ ss[i].verdict = ParseVerdict(c.stages[i].verdict)
        BY <2>2, <2>3
    <2>6. DOMAIN ss = 1 .. N
        BY <2>2, <2>3
    <2>7. \A i \in 1 .. N : ss[i].verdict >= Drain => ss[i].after >= c.thresholds.window
        BY <2>6 DEF StagesLate, LateFrom
    <2>8. \A w : ParseVerdict(w) \in Int /\ ParseVerdict(w) <= Cancel
        BY DEF ParseVerdict, Healthy, Watching, Error
    <2>9. \A i \in 1 .. N : ss[i].after \in Nat /\ ss[i].verdict \in Alert .. Cancel
        <3> TAKE i \in 1 .. N
        <3>1. ParseVerdict(c.stages[i].verdict) >= Alert /\ c.stages[i].after >= 0
            BY <2>3, Zenon DEF StagesValid
        <3> QED
            BY <3>1, <2>4, <2>5, <2>8
    <2> HIDE DEF ss, N
    <2>10. Earned(ss, N, c.thresholds.window)
        BY <2>3, <2>6, <2>7, <2>9 DEF Earned
    <2> QED
        BY <2>3, <2>10, Zenon DEF ss
<1> QED
    BY <1>1, <1>2

(* What the engine runs.                                                   *)
LEMMA RunStages ==
    ASSUME NEW c \in Config, StagesValid(c), StagesLate(c, Hour)
    PROVE  LET ss == Sorted(PolicyStages(c, Hour))
           IN  \E N \in Nat :
                  /\ Earned(ss, N, c.thresholds.window)
                  /\ Len(ss) = N
                  /\ \A i, k \in 1 .. N : i <= k => ss[i].after <= ss[k].after
<1> DEFINE stages == PolicyStages(c, Hour)
           ss == Sorted(stages)
           w == c.thresholds.window
<1>1. PICK N \in Nat : Earned(stages, N, w)
    BY AcceptedStages
<1> HIDE DEF stages, w
<1>2. DOMAIN stages = 1 .. N /\ \A i \in 1 .. N : stages[i].after \in Int
    BY <1>1 DEF Earned
<1>3. /\ DOMAIN ss = 1 .. N
      /\ \A i \in 1 .. N : \E k \in 1 .. N : ss[i] = stages[k]
      /\ \A i, k \in 1 .. N : i <= k => ss[i].after <= ss[k].after
    BY <1>2, SortedStages
<1> HIDE DEF ss
<1>4. Earned(ss, N, w)
    BY <1>1, <1>3 DEF Earned
<1>5. Len(ss) = N
    <2> DEFINE S == {ss[i] : i \in 1 .. N}
    <2>1. ss = [i \in 1 .. N |-> ss[i]]
        BY <1>3 DEF ss, Sorted
    <2>2. ss \in [1 .. N -> S]
        BY <2>1
    <2>3. ss \in Seq(S)
        BY <2>2
    <2>4. Len(ss) \in Nat /\ DOMAIN ss = 1 .. Len(ss)
        BY <2>3, LenProperties
    <2> QED
        BY <1>3, <2>4
<1> QED
    BY <1>3, <1>4, <1>5 DEF ss, stages, w

-----------------------------------------------------------------------------
(***************************************************************************)
(* The engine under the configuration.                                     *)
(***************************************************************************)
Accepted == conf \in Config /\ Validate(conf, Hour)

(* The stages reached are the first ones, so that the last of them is.     *)
LEMMA DueStage ==
    ASSUME Accepted, NEW dwell \in Int
    PROVE  /\ E!StageFor(dwell) \in Watching .. Cancel
           /\ E!StageFor(dwell) >= Drain => dwell >= conf.thresholds.window
<1> DEFINE ss == Sorted(PolicyStages(conf, Hour))
           w == conf.thresholds.window
           reached == {i \in 1 .. Len(ss) : ss[i].after <= dwell}
           m == Cardinality(reached)
<1> USE DEF Watching, Alert, Drain, Cancel
<1>0. E!StageFor(dwell) = IF reached = {} THEN Watching ELSE ss[m].verdict
    <2>1. \A S : E!Cardinality(S) = Cardinality(S)
        BY DEF E!Cardinality, Cardinality
    <2> QED
        BY <2>1, Zenon DEF E!StageFor, E!Watching
<1>1. PICK N \in Nat : /\ Earned(ss, N, w)
                       /\ Len(ss) = N
                       /\ \A i, k \in 1 .. N : i <= k => ss[i].after <= ss[k].after
    BY RunStages, Zenon DEF Accepted, Validate
<1>2. w \in Int
    BY DEF Accepted, Config
<1> HIDE DEF ss, w
<1>3. CASE reached = {}
    BY <1>0, <1>3
<1>4. CASE reached # {}
    <2>1. \A j \in Int : j >= 0 => IsFiniteSet(1 .. j) /\ Cardinality(1 .. j) = j
        <3> TAKE j \in Int
        <3>1. 1 \in Int /\ j \in Int
            OBVIOUS
        <3>2. IsFiniteSet(1 .. j) /\ Cardinality(1 .. j) = IF 1 > j THEN 0 ELSE j - 1 + 1
            BY <3>1, FS_Interval
        <3> QED
            BY <3>2
    <2>2. IsFiniteSet(reached) /\ m <= N
        BY <1>1, <2>1, FS_Subset
    <2>3. m \in Nat /\ m # 0
        BY <2>2, <1>4, FS_CardinalityType, FS_EmptySet
    <2>4. m \in 1 .. N
        BY <2>2, <2>3
    <2> HIDE DEF m
    <2>5. ss[m].after \in Nat /\ \A i \in 1 .. N : ss[i].after \in Nat
        BY <1>1, <2>4 DEF Earned
    <2>6. ss[m].after <= dwell
        <3> SUFFICES ASSUME ~(ss[m].after <= dwell) PROVE FALSE
            OBVIOUS
        <3> DEFINE below == 1 .. (m - 1)
        <3>1. reached \subseteq below
            <4> SUFFICES ASSUME NEW i \in reached PROVE i < m /\ i \in 1 .. N
                BY <2>4
            <4>1. i \in 1 .. N /\ ss[i].after <= dwell
                BY <1>1
            <4>2. m <= i => ss[m].after <= ss[i].after
                BY <1>1, <2>4, <4>1
            <4> QED
                BY <2>4, <2>5, <4>1, <4>2
        <3>2. IsFiniteSet(below) /\ Cardinality(below) = m - 1
            BY <2>1, <2>3
        <3> HIDE DEF reached, below
        <3>3. Cardinality(reached) <= Cardinality(below)
            BY <3>1, <3>2, FS_Subset
        <3> QED
            BY <2>3, <3>2, <3>3 DEF m
    <2>7. /\ ss[m].verdict \in Alert .. Cancel
          /\ ss[m].verdict >= Drain => ss[m].after >= w
        BY <1>1, <2>4 DEF Earned
    <2>8. E!StageFor(dwell) = ss[m].verdict
        BY <1>0, <1>4
    <2> QED
        BY <1>2, <2>5, <2>6, <2>7, <2>8 DEF w
<1> QED
    BY <1>3, <1>4

USE DEF None, E!None, Healthy, E!Healthy, Watching, E!Watching,
        Alert, E!Alert, Drain, E!Drain, Cancel, E!Cancel

(* The samples of the job and the engine's state of it.                    *)
Samples == [seen : Nat, at : Nat, node : {"node"}, gpu : {0}, read : {Idle}]

StateType ==
    [startTime        : {None, 0},
     samples          : SUBSET Samples,
     breachedSince    : Int,
     lastVerdict      : Int,
     drainConfirmedAt : Int,
     accountedUntil   : Int]

(* A nonempty set of times has an earliest one, and First returns it.      *)
LEMMA FirstIsEarliest ==
    ASSUME NEW ss, ss # {}, \A s \in ss : s.at \in Nat
    PROVE  E!First(ss) \in {s.at : s \in ss} /\ \A s \in ss : E!First(ss) <= s.at
<1> DEFINE T == {s.at : s \in ss}
<1>1. PICK x \in T : \A y \in T : ~(<<y, x>> \in OpToRel(<, Nat))
    <2>1. T \subseteq Nat /\ T # {}
        OBVIOUS
    <2> QED
        BY <2>1, NatLessThanWellFounded, WFMin
<1>2. \A y \in T : x <= y
    <2> TAKE y \in T
    <2>1. x \in Nat /\ y \in Nat
        OBVIOUS
    <2>2. ~(y < x)
        BY <1>1, <2>1, Zenon DEF OpToRel
    <2> QED
        BY <2>1, <2>2
<1>3. \A s \in ss : x <= s.at
    BY <1>2
<1> QED
    BY <1>3, Zenon DEF E!First

(* What Evaluate makes of the job: nothing, a reset or a breach.           *)
LEMMA EvaluateCases ==
    ASSUME NEW s, NEW t
    PROVE  LET r == E!Evaluate(s, Job, t)
           IN  \/ /\ r = E!Result(s, E!Nothing(Job))
                  /\ \/ t - 0 < conf.thresholds.warmup
                     \/ s.startTime # 0 \/ s.samples = {}
               \/ r = E!Result(E!Reset(s), E!Nothing(Job))
               \/ r = E!Result(E!Reset(s), [E!Nothing(Job) EXCEPT
                                               !.recovered = (s.drainConfirmedAt # None)])
               \/ /\ r = E!Breach(s, Job, t)
                  /\ s.startTime = 0 /\ s.samples # {}
                  /\ E!Covered(s.samples, {"node"}, 1, t)
<1>1. /\ Job.gpuCount = 1 /\ Job.exempt = FALSE
      /\ Job.start = 0 /\ Job.nodes = {"node"}
    BY DEF Job
<1>2. /\ ~(Job.gpuCount = 0 \/ Job.exempt)
      /\ Job.start # None
    BY <1>1
<1> QED
    BY <1>1, <1>2, Zenon DEF E!Evaluate

(* A verdict that is destructive was due, and a cancel allowed.            *)
LEMMA VerdictEarned ==
    ASSUME Accepted, NEW s, NEW t, t - E!BreachStart(s) \in Int
    PROVE  LET verdict == E!BreachVerdict(s, t)
           IN  /\ verdict \in Watching .. Cancel
               /\ verdict >= Drain => t - E!BreachStart(s) >= conf.thresholds.window
               /\ verdict = Cancel => E!Classify(s.samples) \in conf.allow
<1> DEFINE dwell == t - E!BreachStart(s)
           stage == E!StageFor(dwell)
           sig == E!Classify(s.samples)
           capped == E!Capped(stage, sig)
           verdict == E!Laddered(capped, s, t)
<1>1. /\ stage \in Watching .. Cancel
      /\ stage >= Drain => dwell >= conf.thresholds.window
    BY DueStage
<1> HIDE DEF stage, dwell, sig
<1>2. /\ capped \in Watching .. Cancel
      /\ capped >= Drain => stage >= Drain
      /\ capped = Cancel => sig \in conf.allow
    BY <1>1 DEF E!Capped, AllowedSignatures
<1> HIDE DEF capped
<1>3. /\ verdict \in Watching .. Cancel
      /\ verdict >= Drain => capped >= Drain
      /\ verdict = Cancel => capped = Cancel
    BY <1>2 DEF E!Laddered
<1>4. E!BreachVerdict(s, t) = verdict
    BY Zenon DEF E!BreachVerdict, verdict, capped, stage, sig, dwell
<1> HIDE DEF verdict
<1> QED
    BY <1>1, <1>2, <1>3, <1>4 DEF dwell, sig

(* The state after each assignment to one of its fields.                   *)
LEMMA Assigned ==
    ASSUME NEW s \in StateType, NEW x \in Int
    PROVE  /\ LET new == [s EXCEPT !.breachedSince = x]
              IN  /\ new \in StateType /\ new.samples = s.samples
                  /\ new.startTime = s.startTime /\ new.breachedSince = x
           /\ LET new == [s EXCEPT !.lastVerdict = x]
              IN  /\ new \in StateType /\ new.samples = s.samples
                  /\ new.startTime = s.startTime /\ new.breachedSince = s.breachedSince
           /\ LET new == [s EXCEPT !.drainConfirmedAt = x]
              IN  /\ new \in StateType /\ new.samples = s.samples
                  /\ new.startTime = s.startTime /\ new.breachedSince = s.breachedSince
           /\ LET new == [s EXCEPT !.accountedUntil = x]
              IN  /\ new \in StateType /\ new.samples = s.samples
                  /\ new.startTime = s.startTime /\ new.breachedSince = s.breachedSince
<1>1. LET new == [s EXCEPT !.breachedSince = x]
      IN  /\ new \in StateType /\ new.samples = s.samples
          /\ new.startTime = s.startTime /\ new.breachedSince = x
    BY DEF StateType
<1>2. LET new == [s EXCEPT !.lastVerdict = x]
      IN  /\ new \in StateType /\ new.samples = s.samples
          /\ new.startTime = s.startTime /\ new.breachedSince = s.breachedSince
    BY DEF StateType
<1>3. LET new == [s EXCEPT !.drainConfirmedAt = x]
      IN  /\ new \in StateType /\ new.samples = s.samples
          /\ new.startTime = s.startTime /\ new.breachedSince = s.breachedSince
    BY DEF StateType
<1>4. LET new == [s EXCEPT !.accountedUntil = x]
      IN  /\ new \in StateType /\ new.samples = s.samples
          /\ new.startTime = s.startTime /\ new.breachedSince = s.breachedSince
    BY DEF StateType
<1> QED
    BY <1>1, <1>2, <1>3, <1>4

(* What the judgement of a state with typed samples says.                  *)
LEMMA Concluded ==
    ASSUME Accepted, NEW s \in StateType, NEW t \in Nat, s.startTime = 0
    PROVE  LET r == E!Evaluate(s, Job, t)
           IN  /\ r.state \in StateType
               /\ r.state.samples = s.samples /\ r.state.startTime = s.startTime
               /\ r.finding.verdict \in Healthy .. Cancel
               /\ \/ /\ r.finding.verdict = Healthy
                     /\ r.state.breachedSince = None
                  \/ /\ r.finding.verdict = Healthy
                     /\ r.state.breachedSince = s.breachedSince
                     /\ t < conf.thresholds.warmup \/ s.samples = {}
                  \/ /\ s.samples # {}
                     /\ E!Covered(s.samples, {"node"}, 1, t)
                     /\ r.state.breachedSince = E!BreachStart(s)
                     /\ r.finding.verdict >= Drain =>
                           t - E!BreachStart(s) >= conf.thresholds.window
                     /\ r.finding.verdict = Cancel => r.finding.signature \in conf.allow
<1> DEFINE r == E!Evaluate(s, Job, t)
           none == E!Nothing(Job)
<1>1. \A x, f : E!Result(x, f).state = x /\ E!Result(x, f).finding = f
    BY DEF E!Result
<1>2. none.verdict = Healthy
    BY DEF E!Nothing
<1>3. /\ E!Reset(s) \in StateType
      /\ E!Reset(s).samples = s.samples /\ E!Reset(s).startTime = s.startTime
      /\ E!Reset(s).breachedSince = None
    <2> DEFINE s1 == [s EXCEPT !.breachedSince = None]
               s2 == [s1 EXCEPT !.lastVerdict = Healthy]
               s3 == [s2 EXCEPT !.drainConfirmedAt = None]
               s4 == [s3 EXCEPT !.accountedUntil = None]
    <2>1. E!Reset(s) = s4
        BY DEF E!Reset
    <2>2. Healthy \in Int /\ None \in Int
        OBVIOUS
    <2>3. /\ s1 \in StateType /\ s1.samples = s.samples /\ s1.startTime = s.startTime
          /\ s1.breachedSince = None
        BY <2>2, Assigned
    <2> HIDE DEF s1
    <2>4. /\ s2 \in StateType /\ s2.samples = s.samples /\ s2.startTime = s.startTime
          /\ s2.breachedSince = None
        BY <2>2, <2>3, Assigned
    <2> HIDE DEF s2
    <2>5. /\ s3 \in StateType /\ s3.samples = s.samples /\ s3.startTime = s.startTime
          /\ s3.breachedSince = None
        BY <2>2, <2>4, Assigned
    <2> HIDE DEF s3
    <2>6. /\ s4 \in StateType /\ s4.samples = s.samples /\ s4.startTime = s.startTime
          /\ s4.breachedSince = None
        BY <2>2, <2>5, Assigned
    <2> QED
        BY <2>1, <2>6
<1>4. CASE /\ r = E!Result(s, none)
           /\ \/ t - 0 < conf.thresholds.warmup
              \/ s.startTime # 0 \/ s.samples = {}
    <2>1. r.state = s /\ r.finding = none
        BY <1>1, <1>4
    <2>2. t < conf.thresholds.warmup \/ s.samples = {}
        BY <1>4
    <2> HIDE DEF r, none
    <2> QED
        BY <1>2, <2>1, <2>2 DEF r
<1>5. CASE r = E!Result(E!Reset(s), none)
    <2>1. r.state = E!Reset(s) /\ r.finding = none
        BY <1>1, <1>5
    <2> HIDE DEF r, none
    <2> QED
        BY <1>2, <1>3, <2>1 DEF r
<1>6. CASE r = E!Result(E!Reset(s), [none EXCEPT !.recovered = (s.drainConfirmedAt # None)])
    <2>1. r.state = E!Reset(s)
        BY <1>1, <1>6
    <2>2. r.finding.verdict = Healthy
        BY <1>1, <1>6 DEF E!Nothing
    <2> HIDE DEF r, none
    <2> QED
        BY <1>3, <2>1, <2>2 DEF r
<1>7. CASE /\ r = E!Breach(s, Job, t)
           /\ s.startTime = 0 /\ s.samples # {}
           /\ E!Covered(s.samples, {"node"}, 1, t)
    <2> DEFINE b == E!BreachStart(s)
               verdict == E!BreachVerdict(s, t)
    <2>1. b \in Int
        <3>1. \A x \in s.samples : x.at \in Nat
            BY DEF StateType, Samples
        <3>2. E!First(s.samples) \in {x.at : x \in s.samples}
            BY <1>7, <3>1, FirstIsEarliest
        <3>3. E!First(s.samples) \in Int
            BY <3>1, <3>2
        <3> QED
            BY <3>3 DEF E!BreachStart, StateType
    <2>2. t - b \in Int
        BY <2>1
    <2>3. /\ verdict \in Watching .. Cancel
          /\ verdict >= Drain => t - b >= conf.thresholds.window
          /\ verdict = Cancel => E!Classify(s.samples) \in conf.allow
        BY <2>2, VerdictEarned
    <2>4. /\ r.state = [s EXCEPT !.breachedSince = b, !.accountedUntil = t,
                                 !.lastVerdict = verdict]
          /\ r.finding.verdict = verdict
          /\ r.finding.signature = E!Classify(s.samples)
        BY <1>1, <1>7 DEF E!Breach
    <2> HIDE DEF b, verdict, r
    <2>5. /\ r.state \in StateType
          /\ r.state.samples = s.samples /\ r.state.startTime = s.startTime
          /\ r.state.breachedSince = b
        <3> DEFINE s1 == [s EXCEPT !.breachedSince = b]
                   s2 == [s1 EXCEPT !.accountedUntil = t]
                   s3 == [s2 EXCEPT !.lastVerdict = verdict]
        <3>1. r.state = s3
            BY <2>4
        <3>2. t \in Int /\ verdict \in Int
            BY <2>3
        <3>3. /\ s1 \in StateType /\ s1.samples = s.samples /\ s1.startTime = s.startTime
              /\ s1.breachedSince = b
            BY <2>1, Assigned
        <3> HIDE DEF s1
        <3>4. /\ s2 \in StateType /\ s2.samples = s.samples /\ s2.startTime = s.startTime
              /\ s2.breachedSince = b
            BY <3>2, <3>3, Assigned
        <3> HIDE DEF s2
        <3>5. /\ s3 \in StateType /\ s3.samples = s.samples /\ s3.startTime = s.startTime
              /\ s3.breachedSince = b
            BY <3>2, <3>4, Assigned
        <3> QED
            BY <3>1, <3>5
    <2> QED
        BY <1>7, <2>3, <2>4, <2>5 DEF b, r
<1> QED
    <2> HIDE DEF r, none
    <2>1. \/ /\ r = E!Result(s, none)
             /\ \/ t - 0 < conf.thresholds.warmup
                \/ s.startTime # 0 \/ s.samples = {}
          \/ r = E!Result(E!Reset(s), none)
          \/ r = E!Result(E!Reset(s), [none EXCEPT !.recovered = (s.drainConfirmedAt # None)])
          \/ /\ r = E!Breach(s, Job, t)
             /\ s.startTime = 0 /\ s.samples # {}
             /\ E!Covered(s.samples, {"node"}, 1, t)
        BY EvaluateCases, Zenon DEF r, none
    <2> QED
        BY <1>4, <1>5, <1>6, <1>7, <2>1 DEF r

(* What the state is after the cycle's sample was observed: the sample     *)
(* itself once the warmup is over, and what the window leaves of the rest. *)
LEMMA Observed ==
    ASSUME Accepted, NEW s \in StateType, clock \in Nat
    PROVE  LET o == E!Observe(s, Job, {Reading}, clock)
               late == {x \in s.samples : x.at >= clock - conf.thresholds.window}
               new == {x \in {Reading} : clock >= conf.thresholds.warmup}
           IN  /\ o \in StateType
               /\ o.startTime = 0
               /\ \/ o.samples = late \cup new /\ o.breachedSince = s.breachedSince
                  \/ o.samples = new /\ o.breachedSince = None
<1> DEFINE mine == E!StateOf(s, Job)
           o == E!Observe(s, Job, {Reading}, clock)
           new == {x \in {Reading} : clock >= conf.thresholds.warmup}
           W(ss) == {x \in ss : x.at >= clock - conf.thresholds.window}
<1>1. conf.thresholds.window \in Nat /\ conf.thresholds.warmup \in Nat
    BY DEF Accepted, Validate, ThresholdsInRange, Config
<1>2. Job.start = 0
    BY DEF Job
<1>3. Reading \in Samples /\ Reading.at = clock
    BY DEF Reading, Samples
<1>4. E!Admitted(Job, {Reading}) = new
    BY <1>1, <1>2, <1>3 DEF E!Admitted
<1>5. /\ mine \in StateType
      /\ mine.startTime = 0
      /\ \/ mine = s
         \/ mine.samples = {} /\ mine.breachedSince = None
    BY <1>2 DEF E!StateOf, E!FreshState, StateType
<1>6. o = [mine EXCEPT !.samples = W(mine.samples \cup new)]
    BY <1>4, Zenon DEF E!Observe, E!InWindow
<1> HIDE DEF mine, o
<1>7. W(mine.samples \cup new) = W(mine.samples) \cup new
    BY <1>1, <1>3
<1>8. W(mine.samples) \cup new \in SUBSET Samples
    BY <1>3, <1>5 DEF StateType
<1>9. /\ o \in StateType
      /\ o.startTime = 0
      /\ o.samples = W(mine.samples) \cup new
      /\ o.breachedSince = mine.breachedSince
    BY <1>5, <1>6, <1>7, <1>8 DEF StateType
<1>10. CASE mine = s
    BY <1>9, <1>10 DEF o
<1>11. CASE mine.samples = {} /\ mine.breachedSince = None
    BY <1>9, <1>11 DEF o
<1> QED
    BY <1>5, <1>10, <1>11

-----------------------------------------------------------------------------
(***************************************************************************)
(* The invariant.  "since" is a history of the cycles, while the engine    *)
(* has only its samples: what lies before "since" is cut off from what     *)
(* came after by a hole that Covered does not accept.                      *)
(***************************************************************************)
LoopInv ==
    /\ clock \in 0 .. MaxTime
    /\ conf \in Configs /\ Accepted
    /\ cycles \in Nat /\ n \in Nat
    /\ cycles > 0 => n <= cycles /\ (phase # "over" => n < cycles)
    /\ phase \in {"select", "cycle", "act", "over"}
    /\ {fired, stopping, drained, pace, due} \subseteq BOOLEAN
    /\ {now, lastSuccess, since} \subseteq Time
    /\ lastSuccess <= now /\ since <= now /\ now <= clock

(* An observation that no later one follows within the gap.                *)
Breaks(t, ss, gap) == \A u \in ss : t.at < u.at => u.at - t.at > gap

CutOff(s, ss, from, gap) ==
    \E t \in ss : s.at <= t.at /\ t.at < from /\ Breaks(t, ss, gap)

EvidenceInv ==
    /\ st \in StateType
    /\ \A s \in st.samples :
          /\ s.at <= now
          /\ s.at >= since \/ CutOff(s, st.samples, since, conf.thresholds.maxSampleGap)
    /\ st.samples # {} => \E s \in st.samples : s.at = now
    /\ since = None => st.samples = {} /\ st.breachedSince = None
    /\ since # None => since >= conf.thresholds.warmup
    /\ st.breachedSince # None => since # None /\ since <= st.breachedSince

FindingInv == finding.verdict \in Healthy .. Cancel /\ DestructiveEarned

DaemonInv == LoopInv /\ EvidenceInv /\ FindingInv

(* What Accepted says of the numbers.                                      *)
LEMMA AcceptedNumbers ==
    ASSUME Accepted
    PROVE  /\ conf.thresholds.window \in Nat /\ conf.thresholds.warmup \in Nat
           /\ conf.thresholds.maxSampleGap \in Nat
           /\ conf.thresholds.maxSampleGap < conf.thresholds.window
           /\ conf.interval \in Nat
BY DEF Accepted, Validate, ThresholdsInRange, GapInBetween, Config

(* What Covered says of the node's observations.                           *)
LEMMA CoveredUp ==
    ASSUME NEW ss \in SUBSET Samples, NEW t, E!Covered(ss, {"node"}, 1, t)
    PROVE  /\ \E s \in ss :
                 s.at <= t - conf.thresholds.window + conf.thresholds.maxSampleGap
           /\ \A s, u \in ss : s.at < u.at =>
                 \E v \in ss : s.at < v.at /\ v.at - s.at <= conf.thresholds.maxSampleGap
<1>1. E!ReachesBack(ss, "node", t) /\ E!NoHole(ss, "node")
    BY Zenon DEF E!Covered
<1>2. E!OfNode(ss, "node") = ss
    BY DEF E!OfNode, Samples
<1>3. E!Times(ss, "node") = {s.at : s \in ss}
    BY <1>2, Zenon DEF E!Times
<1>4. \E s \in ss : s.at <= t - conf.thresholds.window + conf.thresholds.maxSampleGap
    BY <1>1, <1>3 DEF E!ReachesBack
<1>5. ASSUME NEW s \in ss, NEW u \in ss, s.at < u.at
      PROVE  \E v \in ss : s.at < v.at /\ v.at - s.at <= conf.thresholds.maxSampleGap
    BY <1>1, <1>3, <1>5 DEF E!NoHole
<1> QED
    BY <1>4, <1>5

(* After the warmup, what a cycle sees is cut off as before, and no breach *)
(* that Covered lets stand began before the cycles followed each other.    *)
LEMMA JudgedEvidence ==
    ASSUME LoopInv, EvidenceInv, clock >= conf.thresholds.warmup,
           NEW from, from = IF Unbroken THEN since ELSE clock,
           NEW o \in StateType, NEW late,
           late = {x \in st.samples : x.at >= clock - conf.thresholds.window},
           \/ o.samples = late \cup {Reading} /\ o.breachedSince = st.breachedSince
           \/ o.samples = {Reading} /\ o.breachedSince = None
    PROVE  LET ss == o.samples
               gap == conf.thresholds.maxSampleGap
           IN  /\ from \in Time /\ from >= conf.thresholds.warmup /\ from <= clock
               /\ Reading \in ss /\ Reading.at = clock
               /\ \A s \in ss : s.at <= clock /\ (s.at >= from \/ CutOff(s, ss, from, gap))
               /\ E!Covered(ss, {"node"}, 1, clock) =>
                     /\ \A s \in ss : s.at >= from
                     /\ o.breachedSince # None => from <= o.breachedSince
<1> DEFINE ss == o.samples
           gap == conf.thresholds.maxSampleGap
           w == conf.thresholds.window
<1>1. /\ gap \in Nat /\ gap < w /\ w \in Nat
      /\ conf.thresholds.warmup \in Nat
    BY AcceptedNumbers DEF LoopInv
<1>2. /\ clock \in Nat /\ clock <= MaxTime
      /\ now \in Int /\ since \in Int /\ since <= now /\ now <= clock
      /\ since >= None /\ MaxTime \in Nat
    BY DaemonAssumption DEF LoopInv, Time
<1>3. Reading \in Samples /\ Reading.at = clock
    BY <1>2 DEF Reading, Samples
<1> DEFINE r == Reading
<1> HIDE DEF r
<1>4. /\ st.samples \subseteq Samples /\ ss \subseteq Samples
      /\ \A s \in Samples : s.at \in Nat
      /\ st.breachedSince \in Int
    BY DEF EvidenceInv, StateType, Samples
<1>5. /\ \A s \in st.samples : s.at <= now /\ (s.at >= since \/ CutOff(s, st.samples, since, gap))
      /\ st.samples # {} => \E s \in st.samples : s.at = now
      /\ since = None => st.samples = {} /\ st.breachedSince = None
      /\ since # None => since >= conf.thresholds.warmup
      /\ st.breachedSince # None => since # None /\ since <= st.breachedSince
    BY DEF EvidenceInv
<1>6. /\ from \in Int /\ from >= conf.thresholds.warmup /\ from <= clock
      /\ \/ from = since /\ since # None /\ clock - now <= gap
         \/ from = clock /\ (since = None \/ clock - now > gap)
    BY <1>1, <1>2, <1>5 DEF Unbroken
<1>7. ss = late \cup {r} \/ ss = {r}
    BY DEF r
<1>8. r \in ss /\ r.at = clock /\ \A s \in ss : s.at <= clock
    BY <1>2, <1>3, <1>4, <1>5, <1>7 DEF r
<1>9. \A s \in late : /\ s \in st.samples /\ s.at >= clock - w
                      /\ s.at <= now /\ s.at \in Nat
    BY <1>4, <1>5
<1>10. ASSUME NEW s \in late PROVE \E u \in late : u.at = now
    <2>1. PICK u \in st.samples : u.at = now
        BY <1>5, <1>9
    <2>2. u.at >= clock - w
        BY <1>1, <1>2, <1>9, <2>1
    <2> QED
        BY <2>1, <2>2
<1>11. ASSUME NEW s \in ss PROVE s.at >= from \/ CutOff(s, ss, from, gap)
    <2>1. CASE s = r
        BY <1>6, <1>8, <2>1
    <2>2. CASE s # r
        <3>1. s \in late /\ ss = late \cup {r}
            BY <1>7, <2>2
        <3>2. PICK u \in late : u.at = now
            BY <3>1, <1>10
        <3>3. CASE from = since /\ since # None /\ clock - now <= gap
            <4>1. CASE s.at >= since
                BY <3>3, <4>1
            <4>2. CASE CutOff(s, st.samples, since, gap)
                <5>1. PICK t \in st.samples : /\ s.at <= t.at /\ t.at < since
                                              /\ Breaks(t, st.samples, gap)
                    BY <4>2 DEF CutOff
                <5>2. t.at \in Nat /\ t.at >= clock - w
                    BY <1>1, <1>2, <1>4, <1>9, <3>1, <5>1
                <5>3. t \in late /\ t \in ss
                    BY <5>1, <5>2, <3>1
                <5>4. now - t.at > gap
                    BY <1>2, <1>9, <3>2, <5>1, <5>2 DEF Breaks
                <5>5. r.at - t.at > gap
                    BY <1>1, <1>2, <1>8, <5>2, <5>4
                <5>6. Breaks(t, ss, gap)
                    BY <1>9, <3>1, <5>1, <5>5 DEF Breaks
                <5> QED
                    BY <3>3, <5>1, <5>3, <5>6 DEF CutOff
            <4> QED
                BY <1>5, <1>9, <3>1, <4>1, <4>2
        <3>4. CASE from = clock /\ (since = None \/ clock - now > gap)
            <4>1. clock - now > gap
                BY <1>5, <1>9, <3>1, <3>4
            <4>2. s.at <= u.at /\ u.at < from /\ u \in ss
                BY <1>1, <1>2, <1>9, <3>1, <3>2, <3>4, <4>1
            <4>3. Breaks(u, ss, gap)
                BY <1>1, <1>2, <1>8, <1>9, <3>1, <3>2, <4>1 DEF Breaks
            <4> QED
                BY <4>2, <4>3 DEF CutOff
        <3> QED
            BY <1>6, <3>3, <3>4
    <2> QED
        BY <2>1, <2>2
<1>12. ASSUME E!Covered(ss, {"node"}, 1, clock)
       PROVE  /\ \A s \in ss : s.at >= from
              /\ o.breachedSince # None => from <= o.breachedSince
    <2>0. ss \in SUBSET Samples
        BY <1>4
    <2>1. /\ \E s \in ss : s.at <= clock - w + gap
          /\ \A s, u \in ss : s.at < u.at => \E v \in ss : s.at < v.at /\ v.at - s.at <= gap
        BY <1>12, <2>0, CoveredUp
    <2>2. ASSUME NEW s \in ss, CutOff(s, ss, from, gap) PROVE FALSE
        <3>1. PICK t \in ss : t.at < from /\ Breaks(t, ss, gap)
            BY <2>2 DEF CutOff
        <3>2. t.at < r.at /\ t.at \in Nat
            BY <1>2, <1>4, <1>6, <1>8, <3>1
        <3>3. PICK v \in ss : t.at < v.at /\ v.at - t.at <= gap
            BY <2>1, <3>2, <1>8
        <3> QED
            BY <1>1, <1>4, <3>1, <3>2, <3>3 DEF Breaks
    <2>3. ASSUME o.breachedSince # None PROVE from <= o.breachedSince
        <3>1. /\ o.breachedSince = st.breachedSince /\ ss = late \cup {r}
              /\ since # None /\ since <= st.breachedSince
            BY <1>5, <2>3 DEF r
        <3>2. CASE clock - now <= gap
            BY <1>1, <1>2, <1>6, <3>1, <3>2
        <3>3. CASE clock - now > gap
            <4>1. PICK s \in ss : s.at <= clock - w + gap
                BY <2>1
            <4>2. s \in late
                BY <1>1, <1>2, <1>8, <3>1, <4>1
            <4>3. PICK u \in late : u.at = now
                BY <4>2, <1>10
            <4>4. u.at < r.at /\ u \in ss
                BY <1>1, <1>2, <1>8, <3>1, <3>3, <4>3
            <4>5. PICK v \in ss : u.at < v.at /\ v.at - u.at <= gap
                BY <2>1, <4>4, <1>8
            <4>6. v = r
                BY <1>2, <1>9, <3>1, <4>3, <4>5
            <4> QED
                BY <1>1, <1>2, <1>8, <3>3, <4>3, <4>5, <4>6
        <3> QED
            BY <1>1, <1>2, <3>2, <3>3
    <2> QED
        BY <1>11, <2>2, <2>3
<1>13. from \in Time
    BY <1>1, <1>2, <1>6 DEF Time
<1> QED
    BY <1>6, <1>8, <1>11, <1>12, <1>13 DEF r

(* A cycle that judges the job keeps the evidence and earns its finding.   *)
LEMMA JudgeStep ==
    ASSUME LoopInv, EvidenceInv, Judge PROVE EvidenceInv' /\ FindingInv'
<1> DEFINE o == E!Observe(st, Job, {Reading}, clock)
           r == E!Evaluate(o, Job, clock)
           w == conf.thresholds.window
           gap == conf.thresholds.maxSampleGap
           warmup == conf.thresholds.warmup
           late == {x \in st.samples : x.at >= clock - w}
           new == {x \in {Reading} : clock >= warmup}
           ss == o.samples
<1>1. Accepted /\ clock \in Nat /\ st \in StateType
    BY DEF LoopInv, EvidenceInv
<1>2. /\ conf' = conf /\ now' = clock
      /\ st' = r.state /\ finding' = r.finding
      /\ since' = IF clock < warmup THEN None ELSE IF Unbroken THEN since ELSE clock
    BY DEF Judge
<1>3. /\ w \in Nat /\ gap \in Nat /\ warmup \in Nat
    BY <1>1, AcceptedNumbers
<1>4. /\ o \in StateType
      /\ o.startTime = 0
      /\ \/ o.samples = late \cup new /\ o.breachedSince = st.breachedSince
         \/ o.samples = new /\ o.breachedSince = None
    BY <1>1, Observed
<1> HIDE DEF o
<1>5. /\ r.state \in StateType
      /\ r.state.samples = ss
      /\ r.finding.verdict \in Healthy .. Cancel
      /\ \/ /\ r.finding.verdict = Healthy
            /\ r.state.breachedSince = None
         \/ /\ r.finding.verdict = Healthy
            /\ r.state.breachedSince = o.breachedSince
            /\ clock < warmup \/ ss = {}
         \/ /\ ss # {}
            /\ E!Covered(ss, {"node"}, 1, clock)
            /\ r.state.breachedSince = E!BreachStart(o)
            /\ r.finding.verdict >= Drain => clock - E!BreachStart(o) >= w
            /\ r.finding.verdict = Cancel => r.finding.signature \in conf.allow
    BY <1>1, <1>4, Concluded
<1> HIDE DEF r, ss, late, new
<1>6. CASE clock < warmup
    <2>1. since = None /\ st.samples = {} /\ st.breachedSince = None
        BY <1>1, <1>3, <1>6, DaemonAssumption DEF LoopInv, EvidenceInv, Time
    <2>2. new = {} /\ late = {}
        BY <1>1, <1>3, <1>6, <2>1 DEF new, late
    <2>3. ss = {} /\ o.breachedSince = None
        BY <1>4, <2>1, <2>2 DEF ss
    <2>4. r.finding.verdict = Healthy /\ r.state.breachedSince = None
        BY <1>5, <2>3
    <2>5. st' \in StateType /\ st'.samples = {} /\ st'.breachedSince = None /\ since' = None
        BY <1>2, <1>5, <1>6, <2>3, <2>4
    <2>6. EvidenceInv'
        BY <2>5 DEF EvidenceInv
    <2>7. finding'.verdict = Healthy
        BY <1>2, <2>4
    <2> QED
        BY <2>6, <2>7 DEF FindingInv, DestructiveEarned
<1>7. CASE ~(clock < warmup)
    <2> DEFINE from == since'
    <2>1. from = IF Unbroken THEN since ELSE clock
        BY <1>2, <1>7
    <2>2. clock >= warmup
        BY <1>1, <1>3, <1>7
    <2>3. \/ o.samples = late \cup {Reading} /\ o.breachedSince = st.breachedSince
          \/ o.samples = {Reading} /\ o.breachedSince = None
        BY <1>4, <2>2 DEF new
    <2>4. /\ from \in Time /\ from >= warmup /\ from <= clock
          /\ Reading \in ss /\ Reading.at = clock
          /\ \A s \in ss : s.at <= clock /\ (s.at >= from \/ CutOff(s, ss, from, gap))
          /\ E!Covered(ss, {"node"}, 1, clock) =>
                /\ \A s \in ss : s.at >= from
                /\ o.breachedSince # None => from <= o.breachedSince
        BY <1>4, <2>1, <2>2, <2>3, JudgedEvidence DEF late, ss
    <2>5. from \in Nat
        BY <1>3, <2>4 DEF Time
    <2> HIDE DEF from
    <2>6. ss \subseteq Samples /\ \A s \in ss : s.at \in Nat
        BY <1>4 DEF ss, StateType, Samples
    <2>7. CASE /\ r.finding.verdict = Healthy
               /\ r.state.breachedSince = None
        <3>1. EvidenceInv'
            BY <1>2, <1>3, <1>5, <2>4, <2>5, <2>7 DEF EvidenceInv, from
        <3> QED
            BY <1>2, <2>7, <3>1 DEF FindingInv, DestructiveEarned
    <2>8. CASE ss # {} /\ E!Covered(ss, {"node"}, 1, clock)
               /\ r.state.breachedSince = E!BreachStart(o)
               /\ (r.finding.verdict >= Drain => clock - E!BreachStart(o) >= w)
               /\ (r.finding.verdict = Cancel => r.finding.signature \in conf.allow)
        <3>1. E!First(ss) \in {s.at : s \in ss}
            BY <2>6, <2>8, FirstIsEarliest
        <3>2. E!First(ss) \in Nat /\ from <= E!First(ss)
            BY <2>4, <2>6, <2>8, <3>1
        <3>3. E!BreachStart(o) \in Int /\ from <= E!BreachStart(o)
            BY <1>4, <2>4, <2>8, <3>2 DEF E!BreachStart, ss, StateType
        <3>4. EvidenceInv'
            BY <1>2, <1>3, <1>5, <2>4, <2>5, <2>8, <3>3 DEF EvidenceInv, from
        <3>5. r.finding.verdict >= Drain => clock - from >= w
            BY <1>1, <1>3, <2>5, <2>8, <3>3
        <3>6. DestructiveEarned'
            BY <1>2, <2>5, <2>8, <3>5 DEF DestructiveEarned, from
        <3> QED
            BY <1>2, <1>5, <3>4, <3>6 DEF FindingInv
    <2> QED
        BY <1>5, <1>7, <2>4, <2>7, <2>8
<1> QED
    BY <1>6, <1>7

(* Nothing else touches the evidence but a drain's confirmation.           *)
LEMMA RestStep ==
    ASSUME EvidenceInv, FindingInv,
           conf' = conf /\ now' = now /\ since' = since /\ finding' = finding,
           st' = st \/ st' = Confirmed, now \in Int
    PROVE  EvidenceInv' /\ FindingInv'
<1>1. /\ st' \in StateType
      /\ st'.samples = st.samples /\ st'.breachedSince = st.breachedSince
    <2>1. st \in StateType
        BY DEF EvidenceInv
    <2>2. Confirmed = st \/ Confirmed = [st EXCEPT !.drainConfirmedAt = now]
        BY Zenon DEF Confirmed, E!ConfirmDrain
    <2> DEFINE new == [st EXCEPT !.drainConfirmedAt = now]
    <2>3. new \in StateType /\ new.samples = st.samples /\ new.breachedSince = st.breachedSince
        BY <2>1, Assigned
    <2>4. st' = st \/ st' = new
        BY <2>2
    <2> HIDE DEF new
    <2> QED
        BY <2>1, <2>3, <2>4
<1>2. EvidenceInv'
    BY <1>1 DEF EvidenceInv
<1> QED
    BY <1>2 DEF FindingInv, DestructiveEarned

LEMMA InitDaemon == Init => DaemonInv
<1> SUFFICES ASSUME Init PROVE DaemonInv
    OBVIOUS
<1>1. LoopInv
    <2>1. clock \in 0 .. MaxTime /\ {now, lastSuccess, since} \subseteq Time
        BY DaemonAssumption DEF Init, Time
    <2>2. conf \in Configs /\ Accepted
        BY DaemonAssumption DEF Init, Accepted
    <2>3. cycles \in Nat /\ n = 0 /\ phase = "cycle"
        BY DaemonAssumption DEF Init
    <2>4. {fired, stopping, drained, pace, due} \subseteq BOOLEAN
        BY Zenon DEF Init
    <2>5. lastSuccess <= now /\ since <= now /\ now <= clock
        BY DEF Init
    <2> QED
        BY <2>1, <2>2, <2>3, <2>4, <2>5 DEF LoopInv
<1>2. /\ st.samples = {} /\ st.breachedSince = None
      /\ st \in StateType
    BY DEF Init, E!NoState, E!FreshState, StateType
<1>3. EvidenceInv
    BY <1>2 DEF Init, EvidenceInv
<1>4. finding.verdict = Healthy
    BY DEF Init, E!Nothing
<1>5. FindingInv
    BY <1>4 DEF FindingInv, DestructiveEarned
<1> QED
    BY <1>1, <1>3, <1>5 DEF DaemonInv

(* The loop counts a cycle only when another may begin.                    *)
LEMMA LoopStep ==
    ASSUME LoopInv, Next PROVE LoopInv'
<1>0. clock \in Int /\ {now, lastSuccess, since} \subseteq Int /\ MaxTime \in Nat
    BY DaemonAssumption DEF LoopInv, Time
<1>1. CASE Tick
    <2>1. {fired', due', pace', stopping', drained'} \subseteq BOOLEAN
        BY <1>1, Zenon DEF Tick, LoopInv
    <2>2. clock' \in 0 .. MaxTime /\ clock' = clock + 1
        BY <1>0, <1>1 DEF Tick, LoopInv
    <2> QED
        BY <1>0, <1>1, <2>1, <2>2 DEF Tick, LoopInv, Accepted, Time
<1>2. CASE Signal \/ NextCycle \/ Stop
    BY <1>2 DEF Signal, NextCycle, Stop, past, LoopInv, Accepted, Time
<1>3. ASSUME AfterCycle, phase \in {"cycle", "act"}
      PROVE  /\ cycles' = cycles /\ fired' = fired /\ stopping' = stopping
             /\ n' \in Nat /\ phase' \in {"select", "over"}
             /\ cycles > 0 => n' <= cycles /\ (phase' # "over" => n' < cycles)
    BY <1>3 DEF AfterCycle, Over, LoopInv
<1>4. CASE CycleFails
    BY <1>3, <1>4 DEF CycleFails, AfterFailure, past, LoopInv, Accepted, Time
<1>5. CASE Judge
    <2>1. pace' \in BOOLEAN /\ due' \in BOOLEAN
        BY <1>5 DEF Judge, LoopInv
    <2>2. since' \in Time /\ since' <= now'
        BY <1>0, <1>5 DEF Judge, LoopInv, Time, Unbroken
    <2>3. now' = clock /\ lastSuccess' = lastSuccess /\ clock' = clock
        BY <1>5 DEF Judge
    <2> QED
        BY <1>0, <1>5, <2>1, <2>2, <2>3 DEF Judge, LoopInv, Accepted, Time
<1>6. CASE Act
    <2>1. EndCycle /\ drained' \in BOOLEAN
        BY <1>6 DEF Act, Quiet, DryDrain, DrainNode, DrainFails, LoopInv
    <2> QED
        BY <1>0, <1>3, <2>1 DEF EndCycle, SucceededAt, past, LoopInv, Accepted, Time
<1> QED
    BY <1>1, <1>2, <1>4, <1>5, <1>6 DEF Next

LEMMA NextDaemon ==
    ASSUME DaemonInv, [Next]_vars PROVE DaemonInv'
<1>1. LoopInv /\ EvidenceInv /\ FindingInv
    BY DEF DaemonInv
<1>2. now \in Int
    BY <1>1 DEF LoopInv, Time
<1>3. CASE Judge
    <2>1. Next
        BY <1>3 DEF Next
    <2> QED
        BY <1>1, <1>3, <2>1, JudgeStep, LoopStep DEF DaemonInv
<1>4. CASE Tick \/ Signal \/ NextCycle \/ Stop \/ CycleFails
    <2>1. Next
        BY <1>4 DEF Next
    <2>2. conf' = conf /\ now' = now /\ since' = since /\ finding' = finding /\ st' = st
        BY <1>4 DEF Tick, Signal, NextCycle, Stop, CycleFails, past
    <2> QED
        BY <1>1, <1>2, <2>1, <2>2, RestStep, LoopStep DEF DaemonInv
<1>5. CASE Act
    <2>1. Next
        BY <1>5 DEF Next
    <2>2. /\ conf' = conf /\ now' = now /\ since' = since /\ finding' = finding
          /\ st' = st \/ st' = Confirmed
        BY <1>5 DEF Act, Quiet, DryDrain, DrainNode, DrainFails, EndCycle, past
    <2> QED
        BY <1>1, <1>2, <2>1, <2>2, RestStep, LoopStep DEF DaemonInv
<1>6. CASE UNCHANGED vars
    <2>1. /\ clock' = clock /\ conf' = conf /\ loop' = loop /\ now' = now /\ st' = st
          /\ finding' = finding /\ lastSuccess' = lastSuccess /\ drained' = drained
          /\ past' = past
        BY <1>6 DEF vars
    <2>2. LoopInv'
        BY <1>1, <2>1 DEF loop, past, LoopInv, Accepted, Time
    <2>3. since' = since
        BY <2>1 DEF past
    <2> QED
        BY <1>1, <1>2, <2>1, <2>2, <2>3, RestStep DEF DaemonInv
<1> QED
    BY <1>3, <1>4, <1>5, <1>6 DEF Next

-----------------------------------------------------------------------------
(* The invariant holds under every configuration that Validate accepts,    *)
(* every number of cycles and every bound on the clock.                    *)
THEOREM DaemonInvariant == Spec => []DaemonInv
<1>1. Init => DaemonInv
    BY InitDaemon
<1>2. DaemonInv /\ [Next]_vars => DaemonInv'
    BY NextDaemon
<1> QED
    BY <1>1, <1>2, PTL DEF Spec

(* Every variable keeps its type, and a loop of limited cycles (main's     *)
(* --cycles) never runs one more.                                          *)
THEOREM DaemonTyped == Spec => []TypeOK
<1>1. DaemonInv => TypeOK
    BY DEF DaemonInv, LoopInv, FindingInv, TypeOK, Time
<1> QED
    BY <1>1, DaemonInvariant, PTL

(* No drain or cancel is asked for before the evidence has lasted a window *)
(* without a hole, and no cancel that the operator did not allow (Validate *)
(* on stages and max_sample_gap; newEngine).                               *)
THEOREM DestructionEarned == Spec => []DestructiveEarned
<1>1. DaemonInv => DestructiveEarned
    BY DEF DaemonInv, FindingInv
<1> QED
    BY <1>1, DaemonInvariant, PTL

(* A daemon that is ready looked at the job within three intervals (ready, *)
(* lastSuccess).                                                           *)
THEOREM ReadyHasSeen == Spec => []ReadyMeansSeen
<1>1. DaemonInv => ReadyMeansSeen
    <2> SUFFICES ASSUME DaemonInv, Ready PROVE clock - now <= 3 * conf.interval
        BY DEF ReadyMeansSeen
    <2>1. Accepted /\ clock \in Int /\ {now, lastSuccess} \subseteq Int /\ lastSuccess <= now
        BY DEF DaemonInv, LoopInv, Time
    <2>2. conf.interval \in Nat
        BY <2>1, AcceptedNumbers
    <2> QED
        BY <2>1, <2>2 DEF Ready
<1> QED
    BY <1>1, DaemonInvariant, PTL

-----------------------------------------------------------------------------
(***************************************************************************)
(* An idle job is reported.  Validate multiplies min_samples and interval  *)
(* as time.Durations; where the product is too large for one, SamplesFit   *)
(* compares what is left of it, and min_samples may ask for more cycles    *)
(* than a window has.                                                      *)
(***************************************************************************)
NoOverflow == \A c \in Configs : c.thresholds.minSamples * c.interval <= MaxInt

(* What SamplesFit and the rest of Validate then say.                      *)
LEMMA AcceptedTiming ==
    ASSUME NoOverflow, conf \in Configs, Accepted
    PROVE  /\ conf.interval \in Nat /\ conf.interval > 0
           /\ conf.interval < conf.thresholds.maxSampleGap
           /\ conf.thresholds.minSamples \in Nat /\ conf.thresholds.minSamples >= 1
           /\ conf.thresholds.minSamples * conf.interval <= conf.thresholds.window
           /\ conf.thresholds.utilPct > 0 /\ conf.thresholds.utilPct \in Int
<1> DEFINE i == conf.interval
           k == conf.thresholds.minSamples
           w == conf.thresholds.window
<1>1. /\ i \in Nat /\ i > 0
      /\ i < conf.thresholds.maxSampleGap
      /\ k \in Nat /\ k >= 1 /\ w \in Int
      /\ conf.thresholds.utilPct > 0 /\ conf.thresholds.utilPct \in Int
    BY DEF Accepted, Validate, ThresholdsInRange, GapInBetween, Config
<1>2. k * i <= MaxInt /\ Wrapped(k * i) <= w
    BY DEF NoOverflow, Accepted, Validate, SamplesFit
<1> HIDE DEF i, k, w
<1>3. k * i \in Nat
    BY <1>1
<1>4. ASSUME NEW x \in Nat, x <= MaxInt PROVE Wrapped(x) = x
    <2> DEFINE a == x + MaxInt + 1
               m == 2 * (MaxInt + 1)
    <2>1. a \in Nat /\ m \in Nat /\ a < m
        BY <1>4, MaxIntAssumption
    <2> HIDE DEF a, m
    <2>2. a % m = a
        BY <2>1
    <2>3. Wrapped(x) = a - (MaxInt + 1)
        BY <2>2 DEF Wrapped, a, m
    <2> QED
        BY <2>3, MaxIntAssumption DEF a
<1>5. k * i <= w
    BY <1>2, <1>3, <1>4
<1> QED
    BY <1>1, <1>5 DEF i, k, w

(* Two numbers between the same multiples.                                 *)
LEMMA OneQuotient ==
    ASSUME NEW m \in Nat, m > 0, NEW p \in Int, NEW q \in Int,
           NEW r \in 0 .. (m - 1), NEW s \in 0 .. (m - 1),
           (p * m) + r = (q * m) + s
    PROVE  r = s
<1>1. ASSUME NEW x \in Int, NEW y \in Int, NEW a \in 0 .. (m - 1), NEW b \in 0 .. (m - 1),
             x < y, (x * m) + a = (y * m) + b
      PROVE  FALSE
    <2>1. PICK d \in Nat : y = x + 1 + d
        <3>1. y - x - 1 \in Nat /\ y = x + 1 + (y - x - 1)
            BY <1>1
        <3> QED
            BY <3>1
    <2>2. y * m = (x * m) + m + (d * m)
        BY <2>1
    <2>3. d * m >= 0
        OBVIOUS
    <2> DEFINE xm == x * m
               ym == y * m
               dm == d * m
    <2>4. xm \in Int /\ ym \in Int /\ dm \in Int
        BY <2>1
    <2>5. xm + a = ym + b /\ ym = xm + m + dm /\ dm >= 0
        BY <1>1, <2>2, <2>3
    <2> HIDE DEF xm, ym, dm
    <2> QED
        BY <2>4, <2>5
<1>2. ~(p < q) /\ ~(q < p)
    BY <1>1
<1>3. p = q
    BY <1>2
<1> QED
    BY <1>3

(* The remainder of the next number.                                       *)
LEMMA NextRemainder ==
    ASSUME NEW a \in Nat, NEW m \in Nat, m > 0
    PROVE  /\ a % m \in 0 .. (m - 1)
           /\ (a + 1) % m = IF a % m = m - 1 THEN 0 ELSE (a % m) + 1
<1>1. ASSUME NEW x \in Nat PROVE x % m \in 0 .. (m - 1) /\ x = ((x \div m) * m) + (x % m)
    <2>1. x = (m * (x \div m)) + (x % m)
        OBVIOUS
    <2>2. x \div m \in Int
        OBVIOUS
    <2>3. x % m \in 0 .. (m - 1)
        OBVIOUS
    <2> QED
        BY <2>1, <2>2, <2>3
<1>2. PICK q \in Int, r \in 0 .. (m - 1) : r = a % m /\ a = (q * m) + r
    <2>1. a \div m \in Int
        OBVIOUS
    <2> QED
        BY <1>1, <2>1
<1>3. PICK p \in Int, s \in 0 .. (m - 1) : s = (a + 1) % m /\ a + 1 = (p * m) + s
    <2>1. (a + 1) \div m \in Int /\ a + 1 \in Nat
        OBVIOUS
    <2> QED
        BY <1>1, <2>1
<1>4. CASE r = m - 1
    <2>1. (q + 1) * m = (q * m) + m
        OBVIOUS
    <2>2. 0 \in 0 .. (m - 1) /\ q + 1 \in Int
        OBVIOUS
    <2>3. ((q + 1) * m) + 0 = (p * m) + s
        BY <1>2, <1>3, <1>4, <2>1
    <2>4. 0 = s
        BY <2>2, <2>3, OneQuotient
    <2> QED
        BY <1>2, <1>3, <1>4, <2>4
<1>5. CASE r # m - 1
    <2>1. r + 1 \in 0 .. (m - 1)
        BY <1>5
    <2>2. (q * m) + (r + 1) = (p * m) + s
        BY <1>2, <1>3
    <2>3. r + 1 = s
        BY <2>1, <2>2, OneQuotient
    <2> QED
        BY <1>2, <1>3, <1>5, <2>3
<1> QED
    BY <1>2, <1>4, <1>5

(* When the ticker last fired.                                             *)
LastTick == clock - (clock % conf.interval)

(* While no cycle is late, one judges between any two ticks.               *)
PaceInv ==
    /\ phase = "cycle" => due /\ ~fired
    /\ fired => due
    /\ due => now < LastTick
    /\ ~due => now >= LastTick
    /\ now >= LastTick - conf.interval

(* Its samples are the cycles' own, and after each moment of the window    *)
(* there is one within the gap.                                            *)
CompleteInv ==
    /\ st.startTime # 0 => st.samples = {}
    /\ \A s \in st.samples : s.seen = s.at /\ s.at >= conf.thresholds.warmup
    /\ \A t \in Int :
          /\ t >= conf.thresholds.warmup - 1
          /\ t >= now - conf.thresholds.window - 1
          /\ t < now
          => \E s \in st.samples : t < s.at /\ s.at - t <= conf.thresholds.maxSampleGap

(* The times of the samples from the k-th tick before the last one on.     *)
SampledSince(ss, t) == {u \in {s.at : s \in ss} : u >= t}

(* There is one for each of those ticks, and one for the last once the     *)
(* cycle that it began has judged.                                         *)
CountInv ==
    \A k \in Nat :
        LET t == LastTick - (k * conf.interval)
        IN  /\ t >= conf.thresholds.warmup
            /\ t >= now - conf.thresholds.window
            => Cardinality(SampledSince(st.samples, t)) >= (IF due THEN k ELSE k + 1)

OnTimeInv == pace => PaceInv /\ CompleteInv /\ CountInv

ReportInv == OnTimeInv /\ IdleReported

(* SampledSince is finite: its members are times the clock has shown.      *)
LEMMA SampledFinite ==
    ASSUME LoopInv, EvidenceInv, NEW t
    PROVE  /\ IsFiniteSet(SampledSince(st.samples, t))
           /\ Cardinality(SampledSince(st.samples, t)) \in Nat
<1>1. clock \in Int /\ now \in Int /\ now <= clock
    BY DaemonAssumption DEF LoopInv, Time
<1>2. \A s \in st.samples : s.at \in Nat /\ s.at <= clock
    BY <1>1 DEF EvidenceInv, StateType, Samples
<1>3. SampledSince(st.samples, t) \subseteq 0 .. clock
    BY <1>1, <1>2 DEF SampledSince
<1>4. 0 \in Int /\ clock \in Int
    BY <1>1
<1>5. IsFiniteSet(0 .. clock)
    BY <1>4, FS_Interval
<1>6. IsFiniteSet(SampledSince(st.samples, t))
    BY <1>3, <1>5, FS_Subset
<1> QED
    BY <1>6, FS_CardinalityType

(* Time goes on: at a tick of the ticker the last cycle has judged, or the *)
(* pace is lost.                                                           *)
LEMMA OnTimeTick ==
    ASSUME NoOverflow, LoopInv, EvidenceInv, OnTimeInv, Tick
    PROVE  OnTimeInv'
<1> DEFINE i == conf.interval
<1>1. /\ clock \in Nat /\ now \in Int /\ i \in Nat /\ i > 0
      /\ {due, pace, fired} \subseteq BOOLEAN
    BY AcceptedTiming, DaemonAssumption DEF LoopInv, Time
<1>2. clock' = clock + 1 /\ conf' = conf /\ phase' = phase /\ now' = now /\ st' = st
    BY DEF Tick
<1> DEFINE x == clock % i
           y == (clock + 1) % i
<1>3. /\ x \in 0 .. (i - 1)
      /\ y = IF x = i - 1 THEN 0 ELSE x + 1
    BY <1>1, NextRemainder
<1>4. LastTick = clock - x /\ LastTick' = (clock + 1) - y
    BY <1>2 DEF LastTick
<1>5. CASE y = 0
    <2> SUFFICES ASSUME pace' PROVE (PaceInv /\ CompleteInv /\ CountInv)'
        BY DEF OnTimeInv
    <2>1. fired' = TRUE /\ due' = TRUE /\ pace' = (pace /\ ~due /\ phase = "select")
        BY <1>2, <1>5 DEF Tick
    <2>2. pace /\ ~due /\ phase = "select"
        BY <2>1, Zenon
    <2>3. PaceInv /\ CompleteInv /\ CountInv
        BY <2>2, Zenon DEF OnTimeInv
    <2>4. LastTick \in Int /\ LastTick' = LastTick + i /\ now >= LastTick /\ now < LastTick'
        <3>1. now >= LastTick
            BY <2>2, <2>3, Zenon DEF PaceInv
        <3>2. now <= clock
            BY DEF LoopInv
        <3>3. x \in Int /\ x = i - 1
            BY <1>1, <1>3, <1>5
        <3> HIDE DEF x, y
        <3> QED
            BY <1>1, <1>4, <1>5, <3>1, <3>2, <3>3
    <2>5. PaceInv'
        <3>1. phase' # "cycle"
            BY <1>2, <2>2
        <3>2. now' < LastTick' /\ now' >= LastTick' - conf'.interval
            BY <1>1, <1>2, <2>4
        <3> QED
            BY <2>1, <3>1, <3>2, Zenon DEF PaceInv
    <2>6. CompleteInv'
        BY <1>2, <2>3 DEF CompleteInv
    <2>7. ASSUME NEW k \in Nat,
                 LET t == LastTick' - (k * i)
                 IN  /\ t >= conf.thresholds.warmup
                     /\ t >= now - conf.thresholds.window
          PROVE  Cardinality(SampledSince(st.samples, LastTick' - (k * i))) >= k
        <3> DEFINE card(t) == Cardinality(SampledSince(st.samples, t))
        <3>1. card(LastTick' - (k * i)) \in Nat
            BY SampledFinite
        <3>2. CASE k = 0
            BY <3>1, <3>2
        <3>3. CASE k # 0
            <4>1. PICK j \in Nat : k = j + 1
                <5>1. k - 1 \in Nat /\ k = (k - 1) + 1
                    BY <3>3
                <5> QED
                    BY <5>1
            <4>2. k * i = (j * i) + i /\ j * i \in Int
                BY <1>1, <4>1
            <4>3. LastTick' - (k * i) = LastTick - (j * i)
                BY <1>1, <2>4, <4>2
            <4>4. card(LastTick - (j * i)) >= j + 1
                BY <2>2, <2>3, <2>7, <4>3 DEF CountInv
            <4> QED
                BY <4>1, <4>3, <4>4
        <3> QED
            BY <3>2, <3>3
    <2>8. CountInv'
        BY <1>2, <2>1, <2>7 DEF CountInv
    <2> QED
        BY <2>5, <2>6, <2>8
<1>6. CASE y # 0
    <2>1. fired' = fired /\ due' = due /\ pace' = pace
        BY <1>2, <1>6 DEF Tick
    <2>2. LastTick' = LastTick
        BY <1>1, <1>3, <1>4, <1>6
    <2>3. PaceInv => PaceInv'
        BY <1>2, <2>1, <2>2 DEF PaceInv
    <2>4. (CompleteInv => CompleteInv') /\ (CountInv => CountInv')
        BY <1>2, <2>1, <2>2 DEF CompleteInv, CountInv
    <2> QED
        BY <2>1, <2>3, <2>4 DEF OnTimeInv
<1> QED
    BY <1>5, <1>6

(* The samples once a cycle has judged.                                    *)
LEMMA JudgedSamples ==
    ASSUME LoopInv, EvidenceInv, Judge, st.startTime # 0 => st.samples = {}
    PROVE  LET late == {x \in st.samples : x.at >= clock - conf.thresholds.window}
               new == {x \in {Reading} : clock >= conf.thresholds.warmup}
               o == E!Observe(st, Job, {Reading}, clock)
           IN  /\ o \in StateType /\ o.startTime = 0 /\ o.samples = late \cup new
               /\ st'.startTime = 0 /\ st'.samples = late \cup new
               /\ finding' = E!Evaluate(o, Job, clock).finding
<1> DEFINE late == {x \in st.samples : x.at >= clock - conf.thresholds.window}
           new == {x \in {Reading} : clock >= conf.thresholds.warmup}
           o == E!Observe(st, Job, {Reading}, clock)
           r == E!Evaluate(o, Job, clock)
<1>1. Accepted /\ clock \in Nat /\ st \in StateType
    BY DEF LoopInv, EvidenceInv
<1>2. st' = r.state /\ finding' = r.finding
    BY DEF Judge
<1>3. o \in StateType /\ o.startTime = 0
    BY <1>1, Observed
<1>4. o.samples = late \cup new
    <2>1. CASE st.startTime = 0
        <3>1. E!StateOf(st, Job) = st
            BY <2>1 DEF E!StateOf, Job
        <3>2. E!Admitted(Job, {Reading}) = new
            BY <1>1, AcceptedNumbers DEF E!Admitted, Job, Reading
        <3>3. o = [st EXCEPT !.samples =
                      {x \in st.samples \cup new : x.at >= clock - conf.thresholds.window}]
            BY <3>1, <3>2, Zenon DEF E!Observe, E!InWindow
        <3>4. o.samples = {x \in st.samples \cup new : x.at >= clock - conf.thresholds.window}
            BY <1>1, <3>3 DEF StateType
        <3>5. \A x \in new : x.at >= clock - conf.thresholds.window
            BY <1>1, AcceptedNumbers DEF Reading
        <3> HIDE DEF o, new
        <3> QED
            BY <3>4, <3>5
    <2>2. CASE st.startTime # 0
        <3>1. st.samples = {} /\ late = {}
            BY <2>2
        <3>2. o.samples = late \cup new \/ o.samples = new
            BY <1>1, Observed
        <3> HIDE DEF o, new, late
        <3> QED
            BY <3>1, <3>2
    <2> QED
        BY <2>1, <2>2
<1> HIDE DEF o
<1>5. r.state.samples = o.samples /\ r.state.startTime = 0
    BY <1>1, <1>3, Concluded
<1> HIDE DEF r, late, new
<1> QED
    BY <1>2, <1>3, <1>4, <1>5 DEF o, r, late, new

(* A cycle that judges in time keeps them.                                 *)
LEMMA OnTimeJudge ==
    ASSUME NoOverflow, LoopInv, EvidenceInv, OnTimeInv, Judge
    PROVE  OnTimeInv'
<1> SUFFICES ASSUME pace' PROVE (PaceInv /\ CompleteInv /\ CountInv)'
    BY DEF OnTimeInv
<1> DEFINE i == conf.interval
           gap == conf.thresholds.maxSampleGap
           w == conf.thresholds.window
           u == conf.thresholds.warmup
           late == {x \in st.samples : x.at >= clock - w}
           new == {x \in {Reading} : clock >= u}
           r == Reading
<1>1. /\ clock \in Nat /\ now \in Int /\ i \in Nat /\ i > 0
      /\ gap \in Nat /\ w \in Nat /\ u \in Nat
    BY AcceptedTiming, AcceptedNumbers, DaemonAssumption DEF LoopInv, Time
<1>2. /\ pace /\ clock % i <= gap - i
      /\ phase = "cycle"
      /\ due' = FALSE /\ phase' = "act" /\ fired' = fired
      /\ clock' = clock /\ conf' = conf /\ now' = clock
    BY DEF Judge
<1>3. PaceInv /\ CompleteInv /\ CountInv
    BY <1>2, Zenon DEF OnTimeInv
<1>4. due /\ ~fired /\ now < LastTick /\ now >= LastTick - i
    BY <1>2, <1>3 DEF PaceInv
<1> DEFINE x == clock % i
<1>5. x \in 0 .. (i - 1)
    BY <1>1, NextRemainder
<1>6. LastTick = clock - x /\ LastTick' = LastTick
    BY <1>2 DEF LastTick
<1> HIDE DEF x
<1>7. clock - now <= gap /\ now < clock /\ LastTick <= clock
    BY <1>1, <1>2, <1>4, <1>5, <1>6 DEF x
<1>8. st'.samples = late \cup new /\ st'.startTime = 0
    BY <1>3, JudgedSamples DEF CompleteInv
<1>9. r.at = clock /\ r.seen = clock
    BY DEF Reading
<1>10. \A s \in st.samples : s.at \in Nat
    BY DEF EvidenceInv, StateType, Samples
<1> HIDE DEF r
<1>11. \A s \in st'.samples : s \in st.samples \/ (s = r /\ clock >= u)
    BY <1>8 DEF r
<1>12. /\ clock >= u => r \in st'.samples
       /\ \A s \in st.samples : s.at >= clock - w => s \in st'.samples
    BY <1>8 DEF r
<1>13. PaceInv'
    <2>1. now' >= LastTick' /\ now' >= LastTick' - conf'.interval
        BY <1>1, <1>2, <1>5, <1>6, <1>7 DEF x
    <2>2. ~due' /\ ~fired' /\ phase' # "cycle"
        BY <1>2, <1>4
    <2> QED
        BY <2>1, <2>2, Zenon DEF PaceInv
<1>14. CompleteInv'
    <2>1. \A s \in st'.samples : s.seen = s.at /\ s.at >= u
        BY <1>3, <1>9, <1>11 DEF CompleteInv
    <2>2. ASSUME NEW t \in Int, t >= u - 1, t >= clock - w - 1, t < clock
          PROVE  \E s \in st'.samples : t < s.at /\ s.at - t <= gap
        <3>1. CASE t >= now
            <4>1. clock >= u /\ t < r.at /\ r.at - t <= gap
                BY <1>1, <1>7, <1>9, <2>2, <3>1
            <4> QED
                BY <1>12, <4>1
        <3>2. CASE t < now
            <4>1. t >= now - w - 1
                BY <1>1, <1>7, <2>2
            <4>2. PICK s \in st.samples : t < s.at /\ s.at - t <= gap
                BY <1>3, <2>2, <3>2, <4>1 DEF CompleteInv
            <4>3. s.at >= clock - w
                BY <1>1, <1>10, <2>2, <4>2
            <4> QED
                BY <1>12, <4>2, <4>3
        <3> QED
            BY <1>1, <3>1, <3>2
    <2> QED
        BY <1>2, <1>8, <2>1, <2>2 DEF CompleteInv
<1>15. CountInv'
    <2>1. ASSUME NEW k \in Nat, NEW t \in Int, t = LastTick - (k * i), t >= u, t >= clock - w
          PROVE  Cardinality(SampledSince(st'.samples, t)) >= k + 1
        <3> DEFINE old == SampledSince(st.samples, t)
        <3>1. IsFiniteSet(old) /\ Cardinality(old) \in Nat
            BY SampledFinite
        <3>2. Cardinality(old) >= k
            <4>1. t >= now - w
                BY <1>1, <1>7, <2>1
            <4> QED
                BY <1>3, <1>4, <2>1, <4>1 DEF CountInv
        <3>3. k * i >= 0 /\ k * i \in Int
            BY <1>1
        <3>4. clock >= t /\ clock >= u
            BY <1>1, <1>5, <1>6, <2>1, <3>3 DEF x
        <3>5. clock \notin old
            BY <1>1, <1>7, <1>10 DEF SampledSince, EvidenceInv
        <3>6. SampledSince(st'.samples, t) = old \cup {clock}
            <4>1. ASSUME NEW s \in st.samples, s.at >= t PROVE s \in st'.samples
                BY <1>1, <1>10, <1>12, <2>1, <4>1
            <4>2. r \in st'.samples
                BY <1>12, <3>4
            <4> QED
                BY <1>9, <1>11, <3>4, <4>1, <4>2 DEF SampledSince
        <3> HIDE DEF old
        <3>7. Cardinality(old \cup {clock}) = Cardinality(old) + 1
            BY <3>1, <3>5, FS_AddElement
        <3> QED
            BY <3>1, <3>2, <3>6, <3>7
    <2>2. LastTick \in Int
        BY <1>1, <1>5, <1>6 DEF x
    <2>3. \A k \in Nat : LastTick - (k * i) \in Int
        BY <1>1, <2>2
    <2>4. \A k \in Nat : LET t == LastTick - (k * i)
                         IN  /\ t >= u /\ t >= clock - w
                             => Cardinality(SampledSince(st'.samples, t)) >= k + 1
        BY <2>1, <2>3
    <2> QED
        BY <1>2, <1>6, <2>4 DEF CountInv
<1> QED
    BY <1>13, <1>14, <1>15

(* Nothing else touches the cycles' times or samples.                      *)
LEMMA OnTimeRest ==
    ASSUME OnTimeInv, LoopInv, EvidenceInv,
           clock' = clock /\ conf' = conf /\ now' = now /\ past' = past,
           st' = st \/ st' = Confirmed,
           phase' # "cycle" \/ (phase' = phase /\ fired' = fired)
                            \/ (phase' = "cycle" /\ fired /\ ~fired'),
           fired' => fired
    PROVE  OnTimeInv'
<1> SUFFICES ASSUME pace PROVE (PaceInv /\ CompleteInv /\ CountInv)'
    BY DEF OnTimeInv, past
<1>1. PaceInv /\ CompleteInv /\ CountInv
    BY DEF OnTimeInv
<1>2. due' = due
    BY DEF past
<1>3. LastTick' = LastTick
    BY DEF LastTick
<1>4. st'.samples = st.samples /\ st'.startTime = st.startTime
    <2>1. Confirmed = st \/ Confirmed = [st EXCEPT !.drainConfirmedAt = now]
        BY Zenon DEF Confirmed, E!ConfirmDrain
    <2>2. st \in StateType /\ now \in Int
        BY DEF EvidenceInv, LoopInv, Time
    <2> DEFINE new == [st EXCEPT !.drainConfirmedAt = now]
    <2>3. new.samples = st.samples /\ new.startTime = st.startTime
        BY <2>2, Assigned
    <2>4. st' = st \/ st' = new
        BY <2>1
    <2> HIDE DEF new
    <2> QED
        BY <2>3, <2>4
<1>5. PaceInv'
    <2>1. /\ due' => now' < LastTick'
          /\ ~due' => now' >= LastTick'
          /\ now' >= LastTick' - conf'.interval
        BY <1>1, <1>2, <1>3 DEF PaceInv
    <2>2. /\ phase' = "cycle" => due' /\ ~fired'
          /\ fired' => due'
        BY <1>1, <1>2, Zenon DEF PaceInv
    <2> QED
        BY <2>1, <2>2, Zenon DEF PaceInv
<1>6. CompleteInv' /\ CountInv'
    BY <1>1, <1>2, <1>3, <1>4 DEF CompleteInv, CountInv
<1> QED
    BY <1>5, <1>6

(* What a cycle sees covers the window, and no sample shows work.          *)
LEMMA IdleCovered ==
    ASSUME NoOverflow, LoopInv, (EvidenceInv /\ OnTimeInv)', Judge, pace',
           NEW ss \in SUBSET Samples, ss = st'.samples, Reading \in ss,
           \A s \in ss : s.at >= clock - conf.thresholds.window /\ s.at <= clock,
           clock >= conf.thresholds.warmup + conf.thresholds.window + (2 * conf.interval)
    PROVE  E!Covered(ss, {"node"}, 1, clock) /\ ~E!Alive(ss)
<1> DEFINE i == conf.interval
           gap == conf.thresholds.maxSampleGap
           w == conf.thresholds.window
           u == conf.thresholds.warmup
           m == conf.thresholds.minSamples
           T == {s.at : s \in ss}
<1>1. /\ clock \in Nat /\ i \in Nat /\ i > 0
      /\ gap \in Nat /\ w \in Nat /\ u \in Nat
      /\ m \in Nat /\ m >= 1 /\ m * i <= w
      /\ conf.thresholds.utilPct > 0 /\ conf.thresholds.utilPct \in Int
    BY AcceptedTiming, AcceptedNumbers, DaemonAssumption DEF LoopInv
<1>2. /\ clock' = clock /\ conf' = conf /\ now' = clock /\ due' = FALSE
    BY DEF Judge
<1>3. (PaceInv /\ CompleteInv /\ CountInv)'
    BY DEF OnTimeInv
<1>4. \A s \in ss : /\ s.at \in Nat /\ s.node = "node" /\ s.gpu = 0 /\ s.read = Idle
                    /\ s.seen = s.at /\ s.at >= u
    BY <1>2, <1>3 DEF Samples, CompleteInv
<1>5. \A t \in Int : t >= u - 1 /\ t >= clock - w - 1 /\ t < clock
                     => \E s \in ss : t < s.at /\ s.at - t <= gap
    BY <1>2, <1>3 DEF CompleteInv
<1>6. \A s \in ss : s.at >= clock - w /\ s.at <= clock
    OBVIOUS
<1>7. clock >= u + w + (2 * i)
    OBVIOUS
<1>8. E!OfNode(ss, "node") = ss /\ E!Times(ss, "node") = T
    BY <1>4 DEF E!OfNode, E!Times
<1>9. Reading.at = clock /\ clock \in T
    BY DEF Reading
<1>10. \A S : E!Cardinality(S) = Cardinality(S)
    BY DEF E!Cardinality, Cardinality
<1>11. E!AllJudgeable(ss)
    BY <1>4 DEF E!AllJudgeable, E!Judgeable, Idle, E!Unknown
<1>12. E!SteadyGPUs(ss, "node")
    <2>1. \A s, v \in ss : s.at = v.at => s = v
        BY <1>4 DEF Samples
    <2>2. ASSUME NEW t \in T PROVE E!CountAt(ss, "node", t) = 1
        <3>1. PICK s \in ss : s.at = t
            OBVIOUS
        <3>2. {v \in ss : v.at = t} = {s}
            BY <2>1, <3>1
        <3>3. E!CountAt(ss, "node", t) = Cardinality({s})
            BY <1>8, <1>10, <3>2 DEF E!CountAt
        <3> QED
            BY <3>3, FS_Singleton
    <2> HIDE DEF T
    <2> QED
        BY <1>8, <2>2 DEF E!SteadyGPUs
<1>13. E!EnoughObservations(ss, "node")
    <2> DEFINE x == clock % i
               t == LastTick - ((m - 1) * i)
               mi == m * i
               seen == SampledSince(ss, t)
    <2>1. x \in 0 .. (i - 1) /\ LastTick = clock - x /\ LastTick' = LastTick
        BY <1>1, <1>2, NextRemainder DEF LastTick
    <2>2. (m - 1) * i = mi - i /\ mi \in Int /\ mi <= w
        BY <1>1
    <2> HIDE DEF x, mi
    <2>3. t = (clock - x) - (mi - i)
        BY <2>1, <2>2
    <2>4. t \in Int /\ t >= u /\ t >= clock - w
        BY <1>1, <1>7, <2>1, <2>2, <2>3
    <2>5. m - 1 \in Nat /\ (m - 1) + 1 = m
        BY <1>1
    <2>6. Cardinality(seen) >= m
        BY <1>2, <1>3, <2>1, <2>4, <2>5 DEF CountInv
    <2>7. IsFiniteSet(T) /\ Cardinality(T) \in Nat
        <3>1. T \subseteq 0 .. clock
            BY <1>1, <1>4
        <3>2. 0 \in Int /\ clock \in Int
            BY <1>1
        <3>3. IsFiniteSet(0 .. clock)
            BY <3>2, FS_Interval
        <3> QED
            BY <3>1, <3>3, FS_Subset, FS_CardinalityType
    <2>8. seen \subseteq T
        BY DEF SampledSince
    <2> HIDE DEF seen, T
    <2>9. IsFiniteSet(seen) /\ Cardinality(seen) <= Cardinality(T)
        BY <2>7, <2>8, FS_Subset
    <2>10. Cardinality(seen) \in Nat
        BY <2>9, FS_CardinalityType
    <2>11. Cardinality(T) >= m
        BY <1>1, <2>6, <2>7, <2>9, <2>10
    <2> QED
        BY <1>8, <1>10, <2>11 DEF E!EnoughObservations
<1>14. E!Fresh(ss, "node", clock)
    BY <1>1, <1>8, <1>9 DEF E!Fresh
<1>15. E!ReachesBack(ss, "node", clock)
    <2> DEFINE t == clock - w - 1
    <2>1. t \in Int /\ t >= u - 1 /\ t >= clock - w - 1 /\ t < clock
        BY <1>1, <1>7
    <2>2. PICK s \in ss : t < s.at /\ s.at - t <= gap
        BY <1>5, <2>1
    <2>3. s.at <= clock - w + gap /\ s.at \in T
        BY <1>1, <1>4, <2>2
    <2> QED
        BY <1>8, <2>3 DEF E!ReachesBack
<1>16. E!NoHole(ss, "node")
    <2>1. ASSUME NEW s \in ss, NEW v \in ss, s.at < v.at
          PROVE  \E x \in T : s.at < x /\ x - s.at <= gap
        <3>1. s.at \in Int /\ s.at >= u - 1 /\ s.at >= clock - w - 1 /\ s.at < clock
            BY <1>1, <1>4, <1>6, <2>1
        <3> QED
            BY <1>5, <3>1
    <2>2. \A t, v \in T : t < v => \E x \in T : t < x /\ x - t <= gap
        BY <2>1
    <2> HIDE DEF T
    <2> QED
        BY <1>8, <2>2 DEF E!NoHole
<1>17. E!Cardinality(E!GPUsSeen(ss)) >= 1
    <2>1. E!GPUsSeen(ss) = {<<"node", 0>>}
        BY <1>4 DEF E!GPUsSeen
    <2>2. Cardinality({<<"node", 0>>}) = 1
        BY FS_Singleton
    <2> QED
        BY <1>10, <2>1, <2>2
<1>18. E!Covered(ss, {"node"}, 1, clock)
    <2>1. E!OfNode(ss, "node") # {}
        BY <1>8
    <2> QED
        BY <1>11, <1>12, <1>13, <1>14, <1>15, <1>16, <1>17, <2>1 DEF E!Covered
<1>19. ~E!Alive(ss)
    BY <1>1, <1>4 DEF E!Alive, E!AtWork, Idle
<1> QED
    BY <1>18, <1>19

(* A cycle in time reports a job that was idle long enough.                *)
LEMMA JudgedIdle ==
    ASSUME NoOverflow, LoopInv, EvidenceInv, EvidenceInv', OnTimeInv, OnTimeInv', Judge
    PROVE  IdleReported'
<1> DEFINE w == conf.thresholds.window
           u == conf.thresholds.warmup
           late == {x \in st.samples : x.at >= clock - w}
           new == {x \in {Reading} : clock >= u}
           o == E!Observe(st, Job, {Reading}, clock)
           ss == o.samples
<1>1. now' = clock /\ conf' = conf
    BY DEF Judge
<1> SUFFICES ASSUME pace', clock >= u + w + (2 * conf.interval)
             PROVE  finding'.verdict >= Watching
    BY <1>1 DEF IdleReported
<1>2. /\ Accepted /\ clock \in Nat /\ now \in Int /\ now <= clock
      /\ w \in Nat /\ u \in Nat /\ conf.interval \in Nat
    BY AcceptedNumbers, DaemonAssumption DEF LoopInv, Time
<1>3. pace /\ CompleteInv
    BY DEF Judge, OnTimeInv
<1>4. /\ o \in StateType /\ o.startTime = 0 /\ ss = late \cup new
      /\ st'.samples = late \cup new
      /\ finding' = E!Evaluate(o, Job, clock).finding
    BY <1>3, JudgedSamples DEF CompleteInv
<1>5. Reading.at = clock /\ clock >= u
    BY <1>2 DEF Reading
<1>6. \A s \in st.samples : s.at \in Nat /\ s.at <= now
    BY DEF EvidenceInv, StateType, Samples
<1> HIDE DEF o
<1>7. /\ ss \in SUBSET Samples /\ ss = st'.samples /\ Reading \in ss
      /\ \A s \in ss : s.at >= clock - w /\ s.at <= clock
    BY <1>2, <1>4, <1>5, <1>6 DEF StateType
<1> HIDE DEF ss
<1>8. E!Covered(ss, {"node"}, 1, clock) /\ ~E!Alive(ss) /\ ss # {}
    BY <1>7, IdleCovered
<1>9. E!Evaluate(o, Job, clock) = E!Breach(o, Job, clock)
    <2>1. /\ Job.gpuCount = 1 /\ Job.exempt = FALSE
          /\ Job.start = 0 /\ Job.nodes = {"node"}
        BY DEF Job
    <2>2. /\ ~(Job.gpuCount = 0 \/ Job.exempt)
          /\ Job.start # None
          /\ ~(clock - Job.start < u)
          /\ ~(o.startTime # Job.start \/ o.samples = {})
        BY <1>2, <1>4, <1>5, <1>8, <2>1 DEF ss
    <2> QED
        BY <1>8, <2>1, <2>2, Zenon DEF E!Evaluate, ss
<1>10. clock - E!BreachStart(o) \in Int
    <2>1. \A s \in o.samples : s.at \in Nat
        BY <1>4 DEF StateType, Samples
    <2>2. E!First(o.samples) \in {s.at : s \in o.samples}
        BY <1>8, <2>1, FirstIsEarliest DEF ss
    <2>3. E!First(o.samples) \in Int
        BY <2>1, <2>2
    <2>4. E!BreachStart(o) \in Int
        BY <1>4, <2>3 DEF E!BreachStart, StateType
    <2> QED
        BY <1>2, <2>4
<1>11. E!BreachVerdict(o, clock) \in Watching .. Cancel
    BY <1>2, <1>10, VerdictEarned
<1>12. finding'.verdict = E!BreachVerdict(o, clock)
    BY <1>4, <1>9 DEF E!Breach, E!Result
<1> QED
    BY <1>11, <1>12

LEMMA InitReport == ASSUME Init PROVE ReportInv
<1>1. /\ clock = 0 /\ now = None /\ phase = "cycle" /\ fired = FALSE /\ due = TRUE
      /\ conf \in Configs /\ Accepted
    BY DaemonAssumption DEF Init, Accepted
<1>2. /\ conf.interval \in Nat /\ conf.interval > 0
      /\ conf.thresholds.warmup \in Nat /\ conf.thresholds.window \in Nat
    BY <1>1 DEF Accepted, Validate, ThresholdsInRange, Config
<1>3. LastTick = 0
    <2>1. 0 % conf.interval = 0
        BY <1>2
    <2> QED
        BY <1>1, <2>1 DEF LastTick
<1>4. st.samples = {}
    BY DEF Init, E!NoState, E!FreshState
<1>5. PaceInv
    BY <1>1, <1>2, <1>3 DEF PaceInv
<1>6. CompleteInv
    BY <1>1, <1>2, <1>4 DEF CompleteInv
<1>7. CountInv
    <2>1. ASSUME NEW k \in Nat, LastTick - (k * conf.interval) >= conf.thresholds.warmup
          PROVE  Cardinality(SampledSince(st.samples, LastTick - (k * conf.interval))) >= k
        <3>1. CASE k = 0
            <4>1. SampledSince(st.samples, LastTick - (k * conf.interval)) = {}
                BY <1>4 DEF SampledSince
            <4> QED
                BY <3>1, <4>1, FS_EmptySet
        <3>2. CASE k # 0
            <4>1. k * conf.interval > 0
                BY <1>2, <3>2
            <4> QED
                BY <1>2, <1>3, <2>1, <4>1
        <3> QED
            BY <3>1, <3>2
    <2> QED
        BY <1>1, <2>1 DEF CountInv
<1>8. IdleReported
    BY <1>1, <1>2 DEF IdleReported
<1> QED
    BY <1>5, <1>6, <1>7, <1>8 DEF ReportInv, OnTimeInv

LEMMA NextReport ==
    ASSUME NoOverflow, DaemonInv, DaemonInv', ReportInv, [Next]_vars
    PROVE  ReportInv'
<1>1. /\ LoopInv /\ EvidenceInv /\ EvidenceInv'
      /\ OnTimeInv /\ IdleReported
    BY DEF DaemonInv, ReportInv
<1>2. ASSUME now' = now, conf' = conf, finding' = finding, pace' => pace
      PROVE  IdleReported'
    BY <1>1, <1>2 DEF IdleReported
<1>3. CASE Judge
    <2>1. OnTimeInv'
        BY <1>1, <1>3, OnTimeJudge
    <2> QED
        BY <1>1, <1>3, <2>1, JudgedIdle DEF ReportInv
<1>4. CASE Tick
    <2>1. OnTimeInv'
        BY <1>1, <1>4, OnTimeTick
    <2>2. /\ now' = now /\ conf' = conf /\ finding' = finding
          /\ pace' => pace
        BY <1>4, Zenon DEF Tick
    <2> QED
        BY <1>2, <2>1, <2>2 DEF ReportInv
<1>5. CASE Signal \/ NextCycle \/ Stop \/ CycleFails \/ Act \/ UNCHANGED vars
    <2>1. clock' = clock /\ conf' = conf /\ now' = now /\ past' = past /\ finding' = finding
        BY <1>5 DEF Signal, NextCycle, Stop, CycleFails, Act, Quiet, DryDrain, DrainNode,
                    DrainFails, EndCycle, vars
    <2>2. st' = st \/ st' = Confirmed
        BY <1>5 DEF Signal, NextCycle, Stop, CycleFails, Act, Quiet, DryDrain, DrainNode,
                    DrainFails, EndCycle, vars
    <2>3. /\ \/ phase' # "cycle"
             \/ phase' = phase /\ fired' = fired
             \/ phase' = "cycle" /\ fired /\ ~fired'
          /\ fired' => fired
        <3>1. AfterCycle => phase' # "cycle" /\ fired' = fired
            BY DEF AfterCycle
        <3>2. CASE Signal \/ UNCHANGED vars
            BY <3>2 DEF Signal, vars, loop
        <3>3. CASE NextCycle \/ Stop
            BY <3>3 DEF NextCycle, Stop
        <3>4. CASE CycleFails \/ Act
            BY <3>1, <3>4 DEF CycleFails, AfterFailure, Act, Quiet, DryDrain, DrainNode,
                              DrainFails, EndCycle
        <3> QED
            BY <1>5, <3>2, <3>3, <3>4
    <2>4. OnTimeInv'
        BY <1>1, <2>1, <2>2, <2>3, OnTimeRest
    <2>5. pace' = pace
        BY <2>1 DEF past
    <2> QED
        BY <1>2, <2>1, <2>4, <2>5 DEF ReportInv
<1> QED
    BY <1>3, <1>4, <1>5 DEF Next

(* Whatever configuration is accepted, a job that was idle for the warmup, *)
(* a window and two intervals is reported by every cycle that is not late  *)
(* (Validate on interval, max_sample_gap and min_samples), as long as the  *)
(* product in Validate's rule on min_samples does not overflow.            *)
THEOREM IdleIsReported ==
    ASSUME NoOverflow PROVE Spec => []IdleReported
<1>1. Init => ReportInv
    BY InitReport
<1>2. DaemonInv /\ DaemonInv' /\ ReportInv /\ [Next]_vars => ReportInv'
    BY NextReport
<1>3. ReportInv => IdleReported
    BY DEF ReportInv
<1> QED
    BY <1>1, <1>2, <1>3, DaemonInvariant, PTL DEF Spec

=============================================================================
