-------------------------- MODULE TelemetryProofs --------------------------
(***************************************************************************)
(* Theorems about Telemetry: whatever page an exporter serves, in whatever *)
(* order its series are read, and whatever nvidia-smi prints.              *)
(***************************************************************************)
EXTENDS Telemetry, FiniteSetTheorems, TLAPS

(* The two ways of saying that a series counts.                            *)
LEMMA UsableBelievable ==
    ASSUME NEW s \in Series PROVE Usable(s) <=> Believable(s)
<1>1. s.value \in Int /\ s.metric \in Metrics /\ s.at \in Nat \cup {None}
  BY TelemetryAssumption
<1>2. ScrapedAt \in Nat /\ MaxAge \in Int
  BY TelemetryAssumption
<1>3. s.at # None => s.at \in Nat
  BY <1>1
<1>. QED
  BY <1>1, <1>2, <1>3 DEF Usable, Believable, Stale, None, NoNumber

(* A GPU of which nothing was read.                                        *)
LEMMA NewStands == StandsFor(NewGPU, {})
  BY DEF StandsFor, NewGPU, GPUStates, None, OfMetric

(* A series more.                                                          *)
LEMMA SeriesStands ==
    ASSUME NEW R \in SUBSET Series, NEW s \in Series, NEW g, StandsFor(g, R)
    PROVE  StandsFor(WithSeries(g, s), R \cup {s})
<1> DEFINE h == WithSeries(g, s)
           Q == R \cup {s}
<1>1. s.metric \in Metrics /\ s.value \in Int /\ s.job \in STRING /\ s.mig \in BOOLEAN
  BY TelemetryAssumption
<1>2. s.at \in Nat \cup {None} /\ ScrapedAt \in Nat
  BY TelemetryAssumption
<1>3. Stamp(s) \in Int /\ Value(s) \in Int
  BY <1>1, <1>2 DEF Stamp, Value
<1>4. g \in GPUStates
  BY DEF StandsFor
<1>5. h = [values |-> [g.values EXCEPT ![s.metric] = @ \cup {Value(s)}],
           valid  |-> [g.valid EXCEPT ![s.metric] = Valid(@, s)],
           newest |-> Newest(g.newest, s),
           mig    |-> g.mig \/ s.mig,
           jobs   |-> IF s.job = "" THEN g.jobs ELSE g.jobs \cup {s.job}]
  BY DEF WithSeries
<1> HIDE DEF h
<1>6. Usable(s) <=> Believable(s)
  BY UsableBelievable
<1>7. Newest(g.newest, s) \in Int /\ Stamp(s) <= Newest(g.newest, s) /\ g.newest <= Newest(g.newest, s)
  BY <1>3, <1>4 DEF Newest, GPUStates
<1>8. Usable(s) \in BOOLEAN
  BY DEF Usable
<1>9. h \in GPUStates
  <2>1. [g.values EXCEPT ![s.metric] = @ \cup {Value(s)}] \in [Metrics -> SUBSET Int]
    BY <1>1, <1>3, <1>4 DEF GPUStates
  <2>2. [g.valid EXCEPT ![s.metric] = Valid(@, s)] \in [Metrics -> BOOLEAN]
    BY <1>1, <1>4, <1>8 DEF GPUStates, Valid
  <2>3. (IF s.job = "" THEN g.jobs ELSE g.jobs \cup {s.job}) \in SUBSET STRING
    BY <1>1, <1>4 DEF GPUStates
  <2>4. (g.mig \/ s.mig) \in BOOLEAN
    OBVIOUS
  <2>. QED
    BY <1>5, <1>7, <2>1, <2>2, <2>3, <2>4 DEF GPUStates
<1>10. ASSUME NEW m \in Metrics
       PROVE  h.values[m] = {Value(r) : r \in OfMetric(Q, m)}
  <2>1. g.values[m] = {Value(r) : r \in OfMetric(R, m)}
    BY DEF StandsFor
  <2>2. h.values[m] = IF m = s.metric THEN g.values[m] \cup {Value(s)} ELSE g.values[m]
    BY <1>1, <1>4, <1>5 DEF GPUStates
  <2>3. OfMetric(Q, m) = IF m = s.metric THEN OfMetric(R, m) \cup {s} ELSE OfMetric(R, m)
    BY DEF OfMetric
  <2>. QED
    BY <2>1, <2>2, <2>3
<1>11. ASSUME NEW m \in Metrics
       PROVE  h.valid[m] <=> \A r \in Q : r.metric = m => Believable(r)
  <2>1. g.valid[m] <=> \A r \in R : r.metric = m => Believable(r)
    BY DEF StandsFor
  <2>2. h.valid[m] = IF m = s.metric THEN (g.valid[m] /\ Usable(s)) ELSE g.valid[m]
    BY <1>1, <1>4, <1>5 DEF GPUStates, Valid
  <2>3. CASE m = s.metric
    BY <2>1, <2>2, <2>3, <1>6
  <2>4. CASE m # s.metric
    BY <2>1, <2>2, <2>4
  <2>. QED
    BY <2>3, <2>4
<1>12. h.mig <=> \E r \in Q : r.mig
  BY <1>5 DEF StandsFor
<1>13. h.jobs = {r.job : r \in Q} \ {""}
  BY <1>5 DEF StandsFor
<1>14. \A r \in Q : Stamp(r) <= h.newest
  <2> SUFFICES ASSUME NEW r \in Q PROVE Stamp(r) <= Newest(g.newest, s)
    BY <1>5
  <2>1. CASE r \in R
    <3>1. Stamp(r) <= g.newest
      BY <2>1 DEF StandsFor
    <3>2. Stamp(r) \in Int
      BY <2>1, TelemetryAssumption DEF Stamp
    <3>. QED
      BY <3>1, <3>2, <1>4, <1>7 DEF GPUStates
  <2>2. CASE r = s
    BY <2>2, <1>7
  <2>. QED
    BY <2>1, <2>2
<1> HIDE DEF Q
<1>15. \A m \in Metrics :
          /\ h.values[m] = {Value(r) : r \in OfMetric(Q, m)}
          /\ h.valid[m] <=> \A r \in Q : r.metric = m => Believable(r)
  BY <1>10, <1>11, Zenon
<1>16. StandsFor(h, Q)
  BY <1>9, <1>12, <1>13, <1>14, <1>15, Zenon DEF StandsFor
<1>. QED
  BY <1>16 DEF h, Q

-----------------------------------------------------------------------------
LEMMA PageInit == Init => PageInv
<1> SUFFICES ASSUME Init PROVE PageInv
  OBVIOUS
<1>1. TypeOK
  BY DEF Init, TypeOK
<1>2. DOMAIN gpus = {}
  BY DEF Init
<1>. QED
  BY <1>1, <1>2 DEF Init, PageInv

LEMMA PageNext == PageInv /\ [Next]_vars => PageInv'
<1> SUFFICES ASSUME PageInv, [Next]_vars PROVE PageInv'
  OBVIOUS
<1> USE DEF PageInv
<1>0. UNCHANGED <<backend, raw, gpus, listed, pidsKnown>> => Collected' = Collected
  <2> SUFFICES ASSUME UNCHANGED <<backend, raw, gpus, listed, pidsKnown>>
               PROVE  Collected' = Collected
    OBVIOUS
  <2>1. \A i : SampleOf(i)' = SampleOf(i)
    BY DEF SampleOf
  <2>2. \A r : SampleOfRow(r)' = SampleOfRow(r)
    BY DEF SampleOfRow, Residents
  <2>. QED
    BY <2>1, <2>2 DEF Collected
<1>1. ASSUME NEW s \in Series, ReadSeries(s) PROVE PageInv'
  <2> USE DEF ReadSeries
  <2>1. TypeOK'
    BY <1>1 DEF TypeOK
  <2>2. CASE s.gpu = NoGPU
    BY <1>1, <2>1, <2>2
  <2>3. CASE s.gpu # NoGPU
    <3>1. raw \subseteq Series
      BY <1>1 DEF TypeOK
    <3>2. DOMAIN gpus' = {r.gpu : r \in raw'}
      BY <1>1, <2>3
    <3>3. ASSUME NEW i \in DOMAIN gpus'
          PROVE  StandsFor(gpus'[i], {r \in raw' : r.gpu = i})
      <4> DEFINE R == {r \in raw : r.gpu = i}
      <4>1. CASE i # s.gpu
        <5>1. {r \in raw' : r.gpu = i} = R
          BY <1>1, <4>1
        <5>2. i \in DOMAIN gpus /\ gpus'[i] = gpus[i]
          BY <1>1, <2>3, <3>3, <4>1
        <5>3. StandsFor(gpus[i], R)
          BY <1>1, <5>2
        <5>. QED
          BY <5>1, <5>2, <5>3
      <4>2. CASE i = s.gpu
        <5> DEFINE g == IF i \in DOMAIN gpus THEN gpus[i] ELSE NewGPU
        <5>1. {r \in raw' : r.gpu = i} = R \cup {s}
          BY <1>1, <4>2
        <5>2. gpus'[i] = WithSeries(g, s)
          BY <1>1, <2>3, <3>3, <4>2
        <5>3. StandsFor(g, R)
          <6>1. CASE i \in DOMAIN gpus
            BY <1>1, <6>1
          <6>2. CASE i \notin DOMAIN gpus
            <7>1. R = {}
              BY <1>1, <6>2
            <7>. QED
              BY <7>1, <6>2, NewStands
          <6>. QED
            BY <6>1, <6>2
        <5>4. R \in SUBSET Series
          BY <3>1
        <5> HIDE DEF R, g
        <5>5. StandsFor(WithSeries(g, s), R \cup {s})
          BY <5>3, <5>4, SeriesStands
        <5>. QED
          BY <5>1, <5>2, <5>5
      <4>. QED
        BY <4>1, <4>2
    <3>. QED
      BY <1>1, <2>1, <2>3, <3>2, <3>3
  <2>. QED
    BY <2>2, <2>3
<1>2. ASSUME EndPage PROVE PageInv'
  <2>1. samples' = Collected /\ Collected' = Collected
    BY <1>0, <1>2 DEF EndPage, Collected
  <2>. QED
    BY <1>2, <2>1 DEF EndPage, TypeOK
<1>3. ASSUME NEW r \in Rows, ReadRow(r) PROVE PageInv'
  BY <1>3 DEF ReadRow, TypeOK
<1>4. ASSUME QueryFails PROVE PageInv'
  BY <1>4 DEF QueryFails, TypeOK
<1>5. ASSUME ListProcesses PROVE PageInv'
  BY <1>5 DEF ListProcesses, TypeOK, EveryLineParses
<1>6. ASSUME ParseRows PROVE PageInv'
  <2>1. phase' = "done" => samples' = Collected /\ Collected' = Collected
    BY <1>0, <1>6 DEF ParseRows, Collected
  <2>2. phase' # "done" => samples' = {}
    BY <1>6 DEF ParseRows
  <2>. QED
    BY <1>6, <2>1, <2>2 DEF ParseRows, TypeOK
<1>7. CASE UNCHANGED vars
  BY <1>0, <1>7 DEF vars, TypeOK
<1>. QED
  BY <1>1, <1>2, <1>3, <1>4, <1>5, <1>6, <1>7 DEF Next

(* What ParseDCGM keeps of a GPU stands for all series read of it.         *)
THEOREM PageCorrect == Spec => []PageInv
  BY PageInit, PageNext, PTL DEF Spec

-----------------------------------------------------------------------------
(* What is known of a GPU's metric, from what was kept of it.              *)
LEMMA GoodMeasured ==
    ASSUME TypeOK, backend = "dcgm", NEW i, NEW g, NEW m \in Metrics,
           StandsFor(g, {s \in raw : s.gpu = i}), Good(g, m)
    PROVE  /\ Measured(i, {m}) /\ Present(g, m)
           /\ Got(g, m) \in Int
           /\ \A s \in OnPage(i, {m}) : s.value = Got(g, m)
<1> DEFINE R == {s \in raw : s.gpu = i}
<1>1. g.values[m] = {Value(s) : s \in OfMetric(R, m)}
  BY DEF StandsFor
<1>2. \A s \in R : s.metric = m => Believable(s)
  BY DEF StandsFor, Good
<1>3. OnPage(i, {m}) = OfMetric(R, m)
  BY DEF OnPage, OfMetric
<1>4. PICK v \in g.values[m] : g.values[m] = {v}
  BY DEF Good
<1>5. Got(g, m) = v /\ v \in Int
  BY <1>4 DEF Got, StandsFor, GPUStates
<1>6. OfMetric(R, m) # {}
  BY <1>1, <1>4
<1>7. \A s \in OfMetric(R, m) : Believable(s) /\ Value(s) = v
  BY <1>1, <1>2, <1>4 DEF OfMetric
<1>8. \A s \in OfMetric(R, m) : s.value = v
  BY <1>7 DEF Value, Believable
<1>. QED
  BY <1>3, <1>4, <1>5, <1>6, <1>7, <1>8 DEF Measured, Undisputed, Present

(* A metric that is absent has no series.                                  *)
LEMMA AbsentUnread ==
    ASSUME NEW i, NEW g, NEW m \in Metrics,
           StandsFor(g, {s \in raw : s.gpu = i}), ~Present(g, m)
    PROVE  OnPage(i, {m}) = {}
<1> DEFINE R == {s \in raw : s.gpu = i}
<1>1. {Value(s) : s \in OfMetric(R, m)} = {}
  BY DEF StandsFor, Present
<1>2. OnPage(i, {m}) = OfMetric(R, m)
  BY DEF OnPage, OfMetric
<1>. QED
  BY <1>1, <1>2

(* A known utilization rests on believable readings, and is the largest.   *)
LEMMA UtilMeasured ==
    ASSUME TypeOK, backend = "dcgm", NEW i, NEW g,
           StandsFor(g, {s \in raw : s.gpu = i}), Util(g) # Unknown
    PROVE  /\ Measured(i, Activity)
           /\ \A s \in OnPage(i, Activity) : s.value <= Util(g)
<1> DEFINE got == {Got(g, m) : m \in {a \in Activity : Good(g, a)}}
<1>1. ActivityUsable(g) /\ Util(g) = CHOOSE v \in got : \A u \in got : u <= v
  BY DEF Util
<1>2. \A m \in Activity : m \in Metrics /\ (Present(g, m) => Good(g, m))
  BY <1>1 DEF ActivityUsable, Metrics
<1>3. PICK a \in Activity : Present(g, a) /\ Good(g, a)
  BY <1>1, <1>2 DEF ActivityUsable
<1>4. \A m \in Activity : Good(g, m) => Got(g, m) \in Int
  BY <1>2, GoodMeasured
<1>5. \E m \in {b \in Activity : Good(g, b)} :
         \A n \in {b \in Activity : Good(g, b)} : Got(g, n) <= Got(g, m)
  <2> DEFINE x == "GPU_UTIL"
             y == "GR_ENGINE_ACTIVE"
             z == "SM_ACTIVE"
  <2>1. Activity = {x, y, z}
    BY DEF Activity
  <2> HIDE DEF x, y, z
  <2>. QED
    BY <1>3, <1>4, <2>1
<1>6. \E v \in got : \A u \in got : u <= v
  BY <1>5
<1>7. \A u \in got : u <= Util(g)
  BY <1>1, <1>6
<1>8. ASSUME NEW s \in OnPage(i, Activity)
      PROVE  /\ Believable(s) /\ s.value <= Util(g)
             /\ s.value = Got(g, s.metric)
  <2>1. s.metric \in Activity /\ s \in OnPage(i, {s.metric})
    BY DEF OnPage
  <2>2. Good(g, s.metric)
    BY <2>1, <1>2, AbsentUnread
  <2>3. Believable(s) /\ s.value = Got(g, s.metric)
    BY <1>2, <2>1, <2>2, GoodMeasured DEF Measured, Undisputed
  <2>4. Got(g, s.metric) \in got
    BY <2>1, <2>2
  <2>. QED
    BY <1>7, <2>3, <2>4
<1>9. OnPage(i, Activity) # {}
  <2>1. OnPage(i, {a}) # {}
    BY <1>2, <1>3, GoodMeasured DEF Measured
  <2>. QED
    BY <2>1 DEF OnPage
<1>. QED
  BY <1>8, <1>9 DEF Measured, Undisputed

(* A known memory occupancy rests on believable readings.                  *)
LEMMA MemMeasured ==
    ASSUME TypeOK, backend = "dcgm", NEW i, NEW g,
           StandsFor(g, {s \in raw : s.gpu = i}), Mem(g) # Unknown
    PROVE  /\ Measured(i, {"FB_USED"}) /\ Measured(i, {"FB_FREE"})
           /\ Undisputed(i, {"FB_RESERVED"})
<1>1. /\ Good(g, "FB_USED") /\ Good(g, "FB_FREE")
      /\ Present(g, "FB_RESERVED") => Good(g, "FB_RESERVED")
  BY DEF Mem
<1>2. {"FB_USED", "FB_FREE", "FB_RESERVED"} \subseteq Metrics
  BY DEF Metrics
<1>3. Measured(i, {"FB_USED"}) /\ Measured(i, {"FB_FREE"})
  BY <1>1, <1>2, GoodMeasured
<1>4. CASE Present(g, "FB_RESERVED")
  BY <1>1, <1>2, <1>3, <1>4, GoodMeasured DEF Measured
<1>5. CASE ~Present(g, "FB_RESERVED")
  BY <1>2, <1>3, <1>5, AbsentUnread DEF Undisputed
<1>. QED
  BY <1>4, <1>5

(* The samples of a page, by what was kept of their GPUs.                  *)
LEMMA SampleOfPage ==
    ASSUME PageInv, backend = "dcgm", NEW x \in samples
    PROVE  /\ x.gpu \in DOMAIN gpus
           /\ StandsFor(gpus[x.gpu], {s \in raw : s.gpu = x.gpu})
           /\ x.at = gpus[x.gpu].newest
           /\ x.jobs = gpus[x.gpu].jobs
           /\ x.read.util = Util(gpus[x.gpu]) /\ x.read.mem = Mem(gpus[x.gpu])
           /\ x.read.power = Power(gpus[x.gpu]) /\ x.read.pids = Unknown
<1>1. phase = "done" /\ samples = {SampleOf(i) : i \in DOMAIN gpus}
  BY DEF PageInv, Collected
<1>2. PICK i \in DOMAIN gpus : x = SampleOf(i)
  BY <1>1
<1>. QED
  BY <1>1, <1>2 DEF PageInv, SampleOf

LEMMA Known == PageInv => KnownIsMeasured
<1> SUFFICES ASSUME PageInv, NEW x \in samples
             PROVE  KnownIsMeasured!(x)
  BY DEF KnownIsMeasured
<1>1. CASE backend = "dcgm"
  <2> DEFINE g == gpus[x.gpu]
  <2>1. StandsFor(g, {s \in raw : s.gpu = x.gpu}) /\ TypeOK
    BY <1>1, SampleOfPage DEF PageInv
  <2>2. /\ x.read.util = Util(g) /\ x.read.mem = Mem(g)
        /\ x.read.power = Power(g) /\ x.read.pids = Unknown
    BY <1>1, SampleOfPage
  <2> HIDE DEF g
  <2>3. x.read.util # Unknown => Measured(x.gpu, Activity)
    BY <1>1, <2>1, <2>2, UtilMeasured
  <2>4. x.read.mem # Unknown =>
           /\ Measured(x.gpu, {"FB_USED"}) /\ Measured(x.gpu, {"FB_FREE"})
           /\ Undisputed(x.gpu, {"FB_RESERVED"})
    BY <1>1, <2>1, <2>2, MemMeasured
  <2>5. x.read.power # Unknown => Measured(x.gpu, {"POWER_USAGE"})
    <3>1. "POWER_USAGE" \in Metrics
      BY DEF Metrics
    <3>2. x.read.power # Unknown => Good(g, "POWER_USAGE")
      BY <2>2 DEF Power
    <3>. QED
      BY <1>1, <2>1, <3>1, <3>2, GoodMeasured
  <2>. QED
    BY <1>1, <2>2, <2>3, <2>4, <2>5
<1>2. CASE backend # "dcgm"
  <2>1. PICK r \in raw : x = SampleOfRow(r)
    BY <1>2 DEF PageInv, Collected
  <2>2. x.gpu = r.gpu /\ x.read.util = Reading(r.util, 100)
        /\ x.read.power = Reading(r.power, 100000) /\ x.read.mem = RowMem(r)
    BY <2>1 DEF SampleOfRow
  <2>3. x.read.util \in {Unknown, r.util} /\ x.read.power \in {Unknown, r.power}
    BY <2>2 DEF Reading
  <2>4. x.read.mem # Unknown => 0 <= r.used /\ r.used <= r.total /\ 0 < r.total
    <3>1. r.used \in Int /\ r.total \in Int
      BY <1>2, TelemetryAssumption DEF PageInv, TypeOK
    <3>2. SUFFICES ASSUME x.read.mem # Unknown PROVE 0 <= r.used /\ r.used <= r.total /\ 0 < r.total
      OBVIOUS
    <3>3. Reading(r.used, MaxUint32) # Unknown /\ r.total > 0 /\ r.used <= r.total
      BY <2>2, <3>2 DEF RowMem
    <3>. QED
      BY <3>1, <3>3 DEF Reading
  <2>5. \E q \in raw :
           /\ q.gpu = x.gpu
           /\ x.read.util \in {Unknown, q.util} /\ x.read.power \in {Unknown, q.power}
           /\ x.read.mem # Unknown => 0 <= q.used /\ q.used <= q.total /\ 0 < q.total
    <3>1. r.gpu = x.gpu
      BY <2>2
    <3>. WITNESS r \in raw
    <3>. QED
      BY <3>1, <2>3, <2>4
  <2>. QED
    BY <1>2, <2>5
<1>. QED
  BY <1>1, <1>2

LEMMA Nothing == PageInv => NothingHidden
<1> SUFFICES ASSUME PageInv, phase = "done", NEW line \in raw
             PROVE  NothingHidden!2!(line)
  BY DEF NothingHidden
<1>1. CASE backend = "dcgm"
  <2> DEFINE x == SampleOf(line.gpu)
  <2>1. line.gpu \in DOMAIN gpus /\ x \in samples
    BY <1>1 DEF PageInv, Collected
  <2>2. x.gpu = line.gpu
    BY DEF SampleOf
  <2> DEFINE g == gpus[line.gpu]
             R == {s \in raw : s.gpu = line.gpu}
  <2>3. StandsFor(g, R) /\ TypeOK
    BY <1>1, <2>1 DEF PageInv
  <2>4. line \in R /\ x.read.util = Util(g) /\ x.read.mig = g.mig /\ x.jobs = g.jobs
    BY DEF SampleOf
  <2> HIDE DEF x, g
  <2>5. line.mig => x.read.mig
    BY <2>3, <2>4 DEF StandsFor
  <2>6. line.job # "" => line.job \in x.jobs
    BY <2>3, <2>4 DEF StandsFor
  <2>7. line.metric \in Activity => x.read.util = Unknown \/ x.read.util >= line.value
    <3>1. SUFFICES ASSUME line.metric \in Activity, Util(g) # Unknown
                   PROVE  Util(g) >= line.value
      BY <2>4
    <3>2. line \in OnPage(line.gpu, Activity)
      BY <3>1 DEF OnPage
    <3>3. line.value <= Util(g)
      BY <1>1, <2>3, <3>1, <3>2, UtilMeasured
    <3>. QED
      BY <3>3
  <2>. QED
    BY <1>1, <2>1, <2>2, <2>5, <2>6, <2>7
<1>2. CASE backend # "dcgm"
  <2>1. SampleOfRow(line) \in samples
    BY <1>2 DEF PageInv, Collected
  <2>2. /\ SampleOfRow(line).gpu = line.gpu
        /\ SampleOfRow(line).read.mig = (line.mig \notin {"Disabled", "N/A"})
    BY DEF SampleOfRow
  <2>. QED
    BY <1>2, <2>1, <2>2
<1>. QED
  BY <1>1, <1>2

LEMMA Judgeable == PageInv => JudgeableIsFresh
<1> SUFFICES ASSUME PageInv, NEW x \in samples, x.read.util # Unknown, MaxAge > 0
             PROVE  x.at >= ScrapedAt - MaxAge
  BY DEF JudgeableIsFresh
<1>1. ScrapedAt \in Nat /\ MaxAge \in Int
  BY TelemetryAssumption
<1>2. CASE backend = "dcgm"
  <2> DEFINE g == gpus[x.gpu]
             R == {s \in raw : s.gpu = x.gpu}
  <2>1. StandsFor(g, R) /\ TypeOK /\ x.at = g.newest
    BY <1>2, SampleOfPage DEF PageInv
  <2>2. Util(g) # Unknown
    BY <1>2, SampleOfPage
  <2>3. PICK s \in OnPage(x.gpu, Activity) : Believable(s)
    BY <1>2, <2>1, <2>2, UtilMeasured DEF Measured, Undisputed
  <2>4. s \in R /\ s \in Series
    BY <1>2, <2>1, <2>3 DEF OnPage, TypeOK
  <2>5. Stamp(s) <= g.newest /\ g.newest \in Int
    BY <2>1, <2>4 DEF StandsFor, GPUStates
  <2>6. s.at \in Nat \cup {None}
    BY <2>4, TelemetryAssumption
  <2>7. Stamp(s) \in Int /\ Stamp(s) >= ScrapedAt - MaxAge
    BY <1>1, <2>3, <2>6 DEF Stamp, Believable, None
  <2>. QED
    BY <1>1, <2>1, <2>5, <2>7
<1>3. CASE backend # "dcgm"
  <2>1. PICK r \in raw : x = SampleOfRow(r)
    BY <1>3 DEF PageInv, Collected
  <2>2. x.at = ScrapedAt
    BY <2>1 DEF SampleOfRow
  <2>. QED
    BY <1>1, <2>2
<1>. QED
  BY <1>2, <1>3

(* Unknown is never zero.                                                  *)
THEOREM UnknownIsNeverZero == Spec => []KnownIsMeasured
  BY PageCorrect, Known, PTL

(* No GPU of the page is dropped or shown less busy than any series says.  *)
THEOREM BusyIsSeen == Spec => []NothingHidden
  BY PageCorrect, Nothing, PTL

(* What may be judged is no older than max_age.                            *)
THEOREM FreshOnly == Spec => []JudgeableIsFresh
  BY PageCorrect, Judgeable, PTL

-----------------------------------------------------------------------------
(***************************************************************************)
(* The process list of nvidia-smi.                                         *)
(***************************************************************************)
(* A GPU has one row, and a list that is known was read to its end.        *)
ListInv ==
    /\ backend # "dcgm" => \A q, r \in raw : q.gpu = r.gpu => q = r
    /\ IsFiniteSet(listed)
    /\ pidsKnown => EveryLineParses(listed)

LEMMA ListInit == Init => ListInv
  BY FS_EmptySet DEF Init, ListInv

LEMMA ListNext == ListInv /\ [Next]_vars => ListInv'
<1> SUFFICES ASSUME ListInv, [Next]_vars PROVE ListInv'
  OBVIOUS
<1>1. ASSUME NEW s \in Series, ReadSeries(s) PROVE ListInv'
  BY <1>1 DEF ReadSeries, ListInv, EveryLineParses
<1>2. ASSUME NEW r \in Rows, ReadRow(r) PROVE ListInv'
  <2>1. /\ raw' = raw \cup {r} /\ \A q \in raw : q.gpu # r.gpu
        /\ backend # "dcgm" /\ backend' = backend
        /\ listed' = listed /\ pidsKnown' = pidsKnown
    BY <1>2 DEF ReadRow
  <2>2. \A p, q \in raw' : p.gpu = q.gpu => p = q
    BY <2>1 DEF ListInv
  <2>. QED
    BY <2>1, <2>2 DEF ListInv, EveryLineParses
<1>3. ASSUME ListProcesses PROVE ListInv'
  BY <1>3 DEF ListProcesses, ListInv
<1>4. ASSUME EndPage \/ QueryFails \/ ParseRows \/ UNCHANGED vars PROVE ListInv'
  <2>1. /\ backend' = backend /\ raw' = raw
        /\ listed' = listed /\ pidsKnown' = pidsKnown
    BY <1>4 DEF EndPage, QueryFails, ParseRows, vars
  <2>. QED
    BY <2>1 DEF ListInv, EveryLineParses
<1>. QED
  BY <1>1, <1>2, <1>3, <1>4 DEF Next

LEMMA Unlisted == PageInv /\ ListInv => NoProcessMeansNone
<1> SUFFICES ASSUME PageInv, ListInv, NEW x \in samples, NEW r \in raw,
                    x.read.pids = 0, r.gpu = x.gpu, NEW p \in listed
             PROVE  p.pid > 0 /\ p.uuid # r.uuid
  BY DEF NoProcessMeansNone
<1>1. backend # "dcgm"
  <2>1. backend = "dcgm" => x.read.pids = Unknown
    BY SampleOfPage
  <2>. QED
    BY <2>1 DEF Unknown
<1>2. PICK q \in raw : x = SampleOfRow(q)
  BY <1>1 DEF PageInv, Collected
<1>3. /\ q.gpu = x.gpu
      /\ x.read.pids = IF pidsKnown THEN Cardinality(Residents(q.uuid)) ELSE Unknown
  BY <1>2 DEF SampleOfRow
<1>4. q = r
  BY <1>1, <1>3 DEF ListInv
<1>5. pidsKnown /\ Cardinality(Residents(r.uuid)) = 0
  BY <1>3, <1>4 DEF Unknown
<1>6. Residents(r.uuid) = {}
  <2>1. IsFiniteSet(Residents(r.uuid))
    BY FS_Subset DEF Residents, ListInv
  <2>. QED
    BY <1>5, <2>1, FS_EmptySet
<1>7. p.pid > 0
  BY <1>5 DEF ListInv, EveryLineParses
<1>. QED
  BY <1>6, <1>7 DEF Residents

(* A GPU counts as one without processes only if a list that was read to   *)
(* its end does not name it (computePIDs).                                 *)
THEOREM EmptyIsRead == Spec => []NoProcessMeansNone
<1>1. PageInv /\ ListInv => NoProcessMeansNone
  BY Unlisted
<1>2. Init => ListInv
  BY ListInit
<1>3. ListInv /\ [Next]_vars => ListInv'
  BY ListNext
<1>4. Spec => []PageInv
  BY PageCorrect
<1>. QED
  BY <1>1, <1>2, <1>3, <1>4, PTL DEF Spec

=============================================================================
