------------------------------ MODULE Telemetry ------------------------------
(***************************************************************************)
(* What one collection makes of the text a GPU backend printed: the page   *)
(* of a dcgm-exporter (src/internal/gpu/dcgm.go: ParseDCGM, sample) or the *)
(* rows and the process list of nvidia-smi (src/internal/gpu/sources.go:   *)
(* Sample, parseSMI, computePIDs, parseComputeApps).  The lines are read   *)
(* one by one, in any order; the samples come at the end, or not at all.   *)
(*                                                                         *)
(* A series of a page is [metric, gpu, value, at, mig, job], a row is      *)
(* [gpu, uuid, util, used, total, power, mig], a line of the process list  *)
(* [uuid, pid].  Ratios are in hundredths, so that a value of any activity *)
(* metric is in percent.  Text that is no number is NoNumber, a gpu label  *)
(* or index that is none NoGPU.  UUIDs of a page and pods are for the log  *)
(* only and left out.  The read of a sample is that of module Evidence.    *)
(***************************************************************************)
EXTENDS Integers, FiniteSets

CONSTANTS
    Series,      \* the series that a page may hold
    Rows,        \* the rows that nvidia-smi may print
    Processes,   \* the lines that its process list may have
    ScrapedAt,   \* the time of this collection
    MaxAge,      \* DCGMSource.MaxAge; 0 turns the check off
    MaxUint32,   \* the largest memory size nvidia-smi is believed, in MiB
    MaxLines     \* bound on the lines read

None     == -1
NoNumber == -1
NoGPU    == -1
Unknown  == -1

Activity == {"GPU_UTIL", "GR_ENGINE_ACTIVE", "SM_ACTIVE"}
Metrics  == Activity \cup {"FB_USED", "FB_FREE", "FB_RESERVED", "POWER_USAGE"}

ASSUME TelemetryAssumption ==
    /\ Series \subseteq [metric : Metrics, gpu : Nat \cup {NoGPU}, value : Int,
                         at : Nat \cup {None}, mig : BOOLEAN, job : STRING]
    /\ Rows \subseteq [gpu : Nat \cup {NoGPU}, uuid : STRING, util : Int, used : Int,
                       total : Int, power : Int, mig : STRING]
    /\ Processes \subseteq [uuid : STRING, pid : Int]
    /\ ScrapedAt \in Nat
    /\ MaxAge \in Int
    /\ MaxUint32 \in Nat
    /\ MaxLines \in Nat

VARIABLES
    backend,
    phase,       \* "reading", "listing" its processes, "done" or "failed"
    raw,         \* the series or rows read
    gpus,        \* what ParseDCGM keeps of each GPU
    listed,      \* the lines of the process list
    pidsKnown,   \* whether all of it was read
    samples      \* what the collection returns

vars == <<backend, phase, raw, gpus, listed, pidsKnown, samples>>

Init ==
    /\ backend \in {"dcgm", "nvidia-smi"}
    /\ phase = "reading"
    /\ raw = {}
    /\ gpus = <<>>
    /\ listed = {}
    /\ pidsKnown = FALSE
    /\ samples = {}

-----------------------------------------------------------------------------
(***************************************************************************)
(* dcgm-exporter: what becomes of a series, several of which may clone one *)
(* metric of one GPU.                                                      *)
(***************************************************************************)
Largest(metric) ==
    CASE metric \in Activity                          -> 100
      [] metric \in {"FB_USED", "FB_FREE", "FB_RESERVED"} -> 16777215
      [] metric = "POWER_USAGE"                       -> 99999

InRange(metric, v) == 0 <= v /\ v <= Largest(metric)

Stale(s) ==
    /\ s.at # None
    /\ MaxAge > 0
    /\ ScrapedAt - s.at > MaxAge \/ s.at - ScrapedAt > MaxAge

(* metricValue gives 0 for what is no number.                              *)
Value(s) == IF s.value = NoNumber THEN 0 ELSE s.value

Usable(s) == s.value # NoNumber /\ ~Stale(s) /\ InRange(s.metric, s.value)

Stamp(s) == IF s.at = None THEN ScrapedAt ELSE s.at

NewGPU == [values |-> [m \in Metrics |-> {}], valid |-> [m \in Metrics |-> TRUE],
           newest |-> None, mig |-> FALSE, jobs |-> {}]

(* Variant for the checks: the last clone of a series decides. *)
ValidLast(was, s) == Usable(s)

Valid(was, s) == was /\ Usable(s)

(* Variant for the checks: a GPU is as old as its oldest series. *)
Older(was, s) == IF was = None \/ Stamp(s) < was THEN Stamp(s) ELSE was

Newest(was, s) == IF Stamp(s) > was THEN Stamp(s) ELSE was

WithSeries(g, s) ==
    [values |-> [g.values EXCEPT ![s.metric] = @ \cup {Value(s)}],
     valid  |-> [g.valid EXCEPT ![s.metric] = Valid(@, s)],
     newest |-> Newest(g.newest, s),
     mig    |-> g.mig \/ s.mig,
     jobs   |-> IF s.job = "" THEN g.jobs ELSE g.jobs \cup {s.job}]

(* A series without a usable gpu label fails the page.                     *)
ReadSeries(s) ==
    /\ backend = "dcgm" /\ phase = "reading"
    /\ s \notin raw /\ Cardinality(raw) < MaxLines
    /\ raw' = raw \cup {s}
    /\ IF s.gpu = NoGPU
       THEN phase' = "failed" /\ gpus' = gpus
       ELSE /\ phase' = phase
            /\ gpus' = [i \in DOMAIN gpus \cup {s.gpu} |->
                           IF i # s.gpu THEN gpus[i]
                           ELSE WithSeries(IF i \in DOMAIN gpus THEN gpus[i] ELSE NewGPU, s)]
    /\ UNCHANGED <<backend, listed, pidsKnown, samples>>

(* get: a metric counts if all its series are usable and agree.            *)
Present(g, m) == g.values[m] # {}
Good(g, m)    == g.valid[m] /\ \E v \in g.values[m] : g.values[m] = {v}
Got(g, m)     == CHOOSE v \in g.values[m] : TRUE

(* Variant for the checks: an unusable activity reading is passed over. *)
NotAllBroken(g) == \E m \in Activity : Good(g, m)

ActivityUsable(g) ==
    /\ \E m \in Activity : Present(g, m)
    /\ \A m \in Activity : Present(g, m) => Good(g, m)

Util(g) ==
    IF ActivityUsable(g)
    THEN LET got == {Got(g, m) : m \in {a \in Activity : Good(g, a)}}
         IN  CHOOSE v \in got : \A u \in got : u <= v
    ELSE Unknown

MemTotal(g) == Got(g, "FB_USED") + Got(g, "FB_FREE")
               + (IF Present(g, "FB_RESERVED") THEN Got(g, "FB_RESERVED") ELSE 0)

Mem(g) ==
    IF /\ Good(g, "FB_USED") /\ Good(g, "FB_FREE")
       /\ Present(g, "FB_RESERVED") => Good(g, "FB_RESERVED")
       /\ MemTotal(g) > 0
    THEN (100 * Got(g, "FB_USED")) \div MemTotal(g)
    ELSE Unknown

Power(g) == IF Good(g, "POWER_USAGE") THEN Got(g, "POWER_USAGE") ELSE Unknown

SampleOf(i) ==
    LET g == gpus[i]
    IN  [gpu |-> i, at |-> g.newest, jobs |-> g.jobs,
         read |-> [util |-> Util(g), mem |-> Mem(g), power |-> Power(g),
                   pids |-> Unknown, mig |-> g.mig]]

EndPage ==
    /\ backend = "dcgm" /\ phase = "reading"
    /\ phase' = "done"
    /\ samples' = {SampleOf(i) : i \in DOMAIN gpus}
    /\ UNCHANGED <<backend, raw, gpus, listed, pidsKnown>>

-----------------------------------------------------------------------------
(***************************************************************************)
(* nvidia-smi: a query for the rows, one for the processes, which may      *)
(* fail by itself, and then the parsing of both.                           *)
(***************************************************************************)
ReadRow(r) ==
    /\ backend = "nvidia-smi" /\ phase = "reading"
    /\ Cardinality(raw) < MaxLines
    /\ \A q \in raw : q.gpu # r.gpu
    /\ raw' = raw \cup {r}
    /\ UNCHANGED <<backend, phase, gpus, listed, pidsKnown, samples>>

QueryFails ==
    /\ backend = "nvidia-smi" /\ phase = "reading"
    /\ phase' = "failed"
    /\ UNCHANGED <<backend, raw, gpus, listed, pidsKnown, samples>>

(* Variant for the checks: leaves a line that it cannot parse out. *)
LinesThatParse(lines) == TRUE

EveryLineParses(lines) == \A p \in lines : p.pid > 0

(* A list that was not printed, or does not parse to its end, is no list.  *)
ListProcesses ==
    /\ backend = "nvidia-smi" /\ phase = "reading"
    /\ phase' = "listing"
    /\ listed' \in SUBSET Processes /\ IsFiniteSet(listed')
    /\ \E answered \in BOOLEAN : pidsKnown' = (answered /\ EveryLineParses(listed'))
    /\ UNCHANGED <<backend, raw, gpus, samples>>

(* Variant for the checks: what cannot be read is 0, as ParseFloat has it. *)
ReadingOrZero(v, hi) == IF 0 <= v /\ v <= hi THEN v ELSE 0

(* parseReading: a finite number in the range, or nothing.                 *)
Reading(v, hi) == IF 0 <= v /\ v <= hi THEN v ELSE Unknown

RowMem(r) ==
    IF Reading(r.used, MaxUint32) # Unknown /\ Reading(r.total, MaxUint32) # Unknown
       /\ r.total > 0 /\ r.used <= r.total
    THEN (100 * r.used) \div r.total
    ELSE Unknown

Residents(uuid) == {p \in listed : p.uuid = uuid /\ p.pid > 0}

SampleOfRow(r) ==
    [gpu |-> r.gpu, at |-> ScrapedAt, jobs |-> {},
     read |-> [util  |-> Reading(r.util, 100), mem |-> RowMem(r),
               power |-> Reading(r.power, 100000),
               pids  |-> IF pidsKnown THEN Cardinality(Residents(r.uuid)) ELSE Unknown,
               mig   |-> r.mig \notin {"Disabled", "N/A"}]]

(* A row that is malformed fails the call.                                 *)
ParseRows ==
    /\ backend = "nvidia-smi" /\ phase = "listing"
    /\ IF \E r \in raw : r.gpu = NoGPU
       THEN phase' = "failed" /\ samples' = samples
       ELSE phase' = "done" /\ samples' = {SampleOfRow(r) : r \in raw}
    /\ UNCHANGED <<backend, raw, gpus, listed, pidsKnown>>

Next ==
    \/ \E s \in Series : ReadSeries(s)
    \/ EndPage
    \/ \E r \in Rows : ReadRow(r)
    \/ QueryFails
    \/ ListProcesses
    \/ ParseRows

Spec == Init /\ [][Next]_vars

-----------------------------------------------------------------------------
(***************************************************************************)
(* What must hold.                                                         *)
(***************************************************************************)
OnPage(i, metrics) == {s \in raw : s.gpu = i /\ s.metric \in metrics}

Believable(s) ==
    /\ s.value # NoNumber /\ InRange(s.metric, s.value)
    /\ s.at # None /\ MaxAge > 0 => s.at \in (ScrapedAt - MaxAge) .. (ScrapedAt + MaxAge)

(* Each series is believable, and the clones of one say the same.          *)
Undisputed(i, metrics) ==
    /\ \A s \in OnPage(i, metrics) : Believable(s)
    /\ \A s, t \in OnPage(i, metrics) : s.metric = t.metric => s.value = t.value

Measured(i, metrics) == OnPage(i, metrics) # {} /\ Undisputed(i, metrics)

(* Unknown is never zero, whatever the order of the lines: a page's value  *)
(* is known only if every series it comes from is a number, in range and   *)
(* fresh, and no clone of one disagrees; a row's only if it is what the row*)
(* says (the rule of gpu.go; get).                                         *)
KnownIsMeasured ==
    \A x \in samples :
        IF backend = "dcgm"
        THEN /\ x.read.util # Unknown => Measured(x.gpu, Activity)
             /\ x.read.mem # Unknown =>
                   /\ Measured(x.gpu, {"FB_USED"}) /\ Measured(x.gpu, {"FB_FREE"})
                   /\ Undisputed(x.gpu, {"FB_RESERVED"})
             /\ x.read.power # Unknown => Measured(x.gpu, {"POWER_USAGE"})
             /\ x.read.pids = Unknown
        ELSE \E r \in raw :
                /\ r.gpu = x.gpu
                /\ x.read.util \in {Unknown, r.util} /\ x.read.power \in {Unknown, r.power}
                /\ x.read.mem # Unknown => 0 <= r.used /\ r.used <= r.total /\ 0 < r.total

(* Every GPU that was named has its sample, which is at least as busy as   *)
(* any of its series, and is in MIG mode, or some job's, if one of them    *)
(* says so (ParseDCGM: "a half-read page could drop the busy GPU").        *)
NothingHidden ==
    phase = "done" =>
        \A line \in raw :
            \E x \in samples :
                /\ x.gpu = line.gpu
                /\ backend = "dcgm" =>
                      /\ line.mig => x.read.mig
                      /\ line.job # "" => line.job \in x.jobs
                      /\ line.metric \in Activity => x.read.util = Unknown \/ x.read.util >= line.value
                /\ backend # "dcgm" /\ line.mig \notin {"Disabled", "N/A"} => x.read.mig

(* A sample that a job may be judged by is no older than max_age, though   *)
(* one stamp dates readings of several ages (newest).                      *)
JudgeableIsFresh ==
    \A x \in samples :
        x.read.util # Unknown /\ x.read.mem # Unknown /\ MaxAge > 0 => x.at >= ScrapedAt - MaxAge

(* A GPU without processes is one that a list, read to its end, does not   *)
(* name (computePIDs): no other sample may count for an idle job.          *)
NoProcessMeansNone ==
    \A x \in samples, r \in raw :
        x.read.pids = 0 /\ r.gpu = x.gpu =>
            \A p \in listed : p.pid > 0 /\ p.uuid # r.uuid

-----------------------------------------------------------------------------
(***************************************************************************)
(* Why it holds of a page: what is kept of a GPU stands for its series.    *)
(***************************************************************************)
TypeOK ==
    /\ backend \in {"dcgm", "nvidia-smi"}
    /\ phase \in {"reading", "listing", "done", "failed"}
    /\ raw \subseteq (IF backend = "dcgm" THEN Series ELSE Rows)
    /\ listed \subseteq Processes
    /\ pidsKnown \in BOOLEAN

GPUStates ==
    [values : [Metrics -> SUBSET Int], valid : [Metrics -> BOOLEAN],
     newest : Int, mig : BOOLEAN, jobs : SUBSET STRING]

OfMetric(read, m) == {s \in read : s.metric = m}

StandsFor(g, read) ==
    /\ g \in GPUStates
    /\ \A m \in Metrics :
          /\ g.values[m] = {Value(s) : s \in OfMetric(read, m)}
          /\ g.valid[m] <=> \A s \in read : s.metric = m => Believable(s)
    /\ g.mig <=> \E s \in read : s.mig
    /\ g.jobs = {s.job : s \in read} \ {""}
    /\ \A s \in read : Stamp(s) <= g.newest

Collected ==
    IF backend = "dcgm" THEN {SampleOf(i) : i \in DOMAIN gpus} ELSE {SampleOfRow(r) : r \in raw}

(* The type of every variable, and what ParseDCGM has accumulated.         *)
PageInv ==
    /\ TypeOK
    /\ backend = "dcgm" /\ phase # "failed" =>
          /\ DOMAIN gpus = {s.gpu : s \in raw}
          /\ \A i \in DOMAIN gpus : StandsFor(gpus[i], {s \in raw : s.gpu = i})
    /\ phase = "done" => samples = Collected
    /\ phase # "done" => samples = {}

=============================================================================
