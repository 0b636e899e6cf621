-------------------------------- MODULE Reaper --------------------------------
(***************************************************************************)
(* The daemon: its cycle over several jobs that share nodes, with the      *)
(* cluster changing between any two calls the cycle makes                  *)
(* (src/cmd/gpu-reaper/main.go: reaper.cycle; src/internal/action:         *)
(* ClusterActor; src/internal/slurm: CLIController).                       *)
(*                                                                         *)
(* A cycle lists the jobs, samples their nodes, judges every job at once   *)
(* (nothing outside is called meanwhile), then handles the findings one    *)
(* call after the other.  Slurm may start, end and requeue jobs, calls may *)
(* fail and the daemon may be restarted between any two of these steps.    *)
(*                                                                         *)
(* Every node has one GPU here; a job holds the GPUs of its nodes, and     *)
(* CPU-only jobs, which the cycle ignores, are left out.  Module JobWatch  *)
(* has the readings, the views and the stale stamps.                       *)
(***************************************************************************)
EXTENDS Engine

CONSTANTS
    JobIDs,
    AllNodes,
    Placements,  \* the sets of nodes Slurm may give to a job
    LocalNode,
    Sites,       \* the deployments: see SiteType
    MaxTime      \* bound on the clock

VARIABLES
    site,      \* the deployment
    clock,
    cluster,   \* Slurm: the last start of each JobID, and the nodes it holds
    drained,   \* Slurm: the nodes marked DRAIN, which nobody resumes
    phase,     \* where the cycle is
    began,     \* when the last cycle began
    now,       \* the cycle's time, read after sampling
    listing,   \* the jobs the cycle listed
    memory,    \* the engine's state of each JobID
    queue,     \* the findings of the cycle that were not handled yet
    draining,  \* the finding that is being drained, and its nodes left
    tenants,   \* history: how many jobs each node had at the listing
    reads,     \* history: what was read of each node within the last Window
    done       \* history: cycle time of the last drain of a job's node

env    == <<cluster, drained, done>>
daemon == <<phase, began, now, listing, memory, queue, draining, tenants, reads>>
vars   == <<site, clock, env, daemon>>

(* A deployment: which jobs are ever run, whether the daemon reads the     *)
(* GPUs of LocalNode only, whether samples carry the JobIDs of their GPU   *)
(* (hpc_job), whether it enforces, what a sample may say of a GPU, and     *)
(* what may go wrong.                                                      *)
SiteType(readings) ==
    [jobs : SUBSET JobIDs, perNode : BOOLEAN, labels : BOOLEAN, enforce : BOOLEAN,
     readings : {readings},
     faults : SUBSET {"list", "reject", "sample", "node", "drain", "crash"}]

ASSUME ReaperAssumption ==
    /\ IsFiniteSet(JobIDs) /\ IsFiniteSet(AllNodes)
    /\ Placements \subseteq SUBSET AllNodes /\ {} \notin Placements
    /\ LocalNode \in AllNodes
    /\ \A s \in Sites : s \in SiteType(s.readings)

Nobody   == [start |-> None, nodes |-> {}]
Nowhere  == [n \in AllNodes |-> None]
NoDrain  == [job |-> [id |-> None], left |-> {}]

Running  == {id \in JobIDs : cluster[id].nodes # {}}
On(n)    == {id \in JobIDs : n \in cluster[id].nodes}

Init ==
    /\ site \in Sites
    /\ clock = 0
    /\ cluster = [id \in JobIDs |-> Nobody]
    /\ drained = {}
    /\ phase = "wait"
    /\ began = None
    /\ now = None
    /\ listing = {}
    /\ memory = [id \in JobIDs |-> NoState]
    /\ queue = {}
    /\ draining = NoDrain
    /\ tenants = Nowhere
    /\ reads = [n \in AllNodes |-> {}]
    /\ done = [id \in JobIDs |-> Nowhere]

-----------------------------------------------------------------------------
(***************************************************************************)
(* Slurm and its users.                                                    *)
(***************************************************************************)
Tick ==
    /\ clock < MaxTime
    /\ clock' = clock + 1
    /\ UNCHANGED <<site, env, daemon>>

(* A job starts, or starts again under its JobID; no node marked DRAIN is  *)
(* given to it.                                                            *)
JobStarts(id, where) ==
    /\ id \notin Running
    /\ cluster[id].start < clock
    /\ where \cap drained = {}
    /\ cluster' = [cluster EXCEPT ![id] = [start |-> clock, nodes |-> where]]
    /\ done' = [done EXCEPT ![id] = Nowhere]
    /\ UNCHANGED <<site, clock, drained, daemon>>

JobEnds(id) ==
    /\ id \in Running
    /\ cluster' = [cluster EXCEPT ![id].nodes = {}]
    /\ UNCHANGED <<site, clock, drained, done, daemon>>

-----------------------------------------------------------------------------
(***************************************************************************)
(* The cycle: the listing and the samples.                                 *)
(***************************************************************************)
Listed(id) ==
    [id       |-> id,
     start    |-> cluster[id].start,
     nodes    |-> cluster[id].nodes,
     gpuCount |-> Cardinality(cluster[id].nodes),
     exempt   |-> FALSE]

(* RunningJobs, without the records it refused; the engine forgets every   *)
(* job that was not listed.  No two cycles have the same time.             *)
List ==
    /\ phase = "wait"
    /\ began < clock /\ now < clock
    /\ began' = clock
    /\ phase' = "listed"
    /\ \E refused \in IF "reject" \in site.faults THEN SUBSET Running ELSE {{}} :
          /\ listing' = {Listed(id) : id \in Running \ refused}
          /\ memory' = [id \in JobIDs |->
                           IF id \in Running \ refused THEN memory[id] ELSE NoState]
    /\ tenants' = [n \in AllNodes |-> Cardinality(On(n))]
    /\ UNCHANGED <<site, clock, env, now, queue, draining, reads>>

(* A cycle whose listing fails ends at once, and forgets nothing.          *)
ListFails ==
    /\ "list" \in site.faults
    /\ phase = "wait"
    /\ began < clock
    /\ began' = clock
    /\ UNCHANGED <<site, clock, env, phase, now, listing, memory, queue, draining, tenants, reads>>

(* What the cycle has listed does not outlive it.                          *)
EndCycle ==
    /\ phase' = "wait"
    /\ listing' = {}
    /\ tenants' = Nowhere

InScope == {j \in listing : site.perNode => LocalNode \in j.nodes}

Targets == IF site.perNode THEN {LocalNode} ELSE UNION {j.nodes : j \in InScope}

Shared(j) == \E n \in j.nodes : Cardinality({k \in listing : n \in k.nodes}) > 1

Missing(j, answered) == ~(j.nodes \subseteq answered)

(* Variant for the checks: labels are not looked at. *)
NoConflict(j, label) == FALSE

(* attributionConflict: a GPU of the job is labelled, and not with its ID. *)
Conflict(j, label) ==
    \E n \in j.nodes \cap DOMAIN label : label[n] # {} /\ j.id \notin label[n]

(* Variant for the checks: a skipped job keeps its history. *)
KeptWhenSkipped(st) == st

(* Drop *)
Dropped(st) == NoState

(***************************************************************************)
(* The judgement of one job: the engine's state and the finding.  "read"   *)
(* and "label" tell of every node that answered.                           *)
(***************************************************************************)
Judged(j, read, label) ==
    LET answered == DOMAIN read
        samples  == {[seen |-> clock, at |-> clock, node |-> n, gpu |-> 0,
                      read |-> read[n]] : n \in j.nodes \cap answered}
    IN  IF Shared(j) \/ Missing(j, answered) \/ Conflict(j, label)
        THEN Result(Dropped(memory[j.id]), Nothing(j))
        ELSE Evaluate(Observe(memory[j.id], j, samples, clock), j, clock)

ToHandle(j, finding) ==
    [id |-> j.id, start |-> j.start, nodes |-> j.nodes,
     verdict |-> finding.verdict, drainConfirmed |-> finding.drainConfirmed]

Recent(rs) == {r \in rs : r.at >= clock - Window}

Sample(answered, read) ==
    LET label   == [n \in answered |-> IF site.labels THEN On(n) ELSE {}]
        result  == [j \in InScope |-> Judged(j, read, label)]
        ofID(id) == {j \in InScope : j.id = id}
        seen(n) == [at |-> clock, work |-> ~Judgeable(read[n]) \/ AtWork(read[n]),
                    by |-> On(n), tenants |-> tenants[n]]
    IN  /\ now' = clock
        /\ memory' = [id \in JobIDs |->
                         IF ofID(id) = {} THEN memory[id]
                         ELSE result[CHOOSE j \in ofID(id) : TRUE].state]
        /\ queue' = {f \in {ToHandle(j, result[j].finding) : j \in InScope} :
                        f.verdict >= Alert}
        /\ reads' = [n \in AllNodes |->
                        Recent(reads[n] \cup (IF n \in answered THEN {seen(n)} ELSE {}))]

(* Nodes may be silent one by one: a scrape failed, or named no GPU.       *)
SampleNodes ==
    /\ phase = "listed"
    /\ phase' = "acting"
    /\ \E silent \in IF "node" \in site.faults THEN SUBSET Targets ELSE {{}} :
          \E read \in [Targets \ silent -> site.readings] :
             Sample(Targets \ silent, read)
    /\ UNCHANGED <<site, clock, env, began, listing, draining, tenants>>

(* Collection fails as a whole: the cycle ends, and no job is observed.    *)
SampleFails ==
    /\ "sample" \in site.faults
    /\ phase = "listed"
    /\ EndCycle
    /\ UNCHANGED <<site, clock, env, began, now, memory, queue, draining, reads>>

-----------------------------------------------------------------------------
(***************************************************************************)
(* The cycle: the findings, handled one after the other in the order of    *)
(* the listing, which is Slurm's.                                          *)
(***************************************************************************)
Handles(f) ==
    /\ phase = "acting"
    /\ draining.left = {}
    /\ f \in queue
    /\ queue' = queue \ {f}

(* Notified only, or drained already for this breach.                      *)
Notify(f) ==
    /\ Handles(f)
    /\ f.verdict = Alert \/ (f.verdict = Drain /\ f.drainConfirmed)
    /\ UNCHANGED <<site, clock, env, phase, began, now, listing, memory, draining, tenants, reads>>

Confirm(f) == [memory EXCEPT ![f.id] = ConfirmDrain(@, f.start, now)]

(* In observe mode a drain is a line in the log, and confirmed as one.     *)
DryDrain(f) ==
    /\ ~site.enforce
    /\ Handles(f)
    /\ f.verdict = Drain /\ ~f.drainConfirmed
    /\ memory' = Confirm(f)
    /\ UNCHANGED <<site, clock, env, phase, began, now, listing, draining, tenants, reads>>

BeginDrain(f) ==
    /\ site.enforce
    /\ Handles(f)
    /\ f.verdict = Drain /\ ~f.drainConfirmed
    /\ draining' = [job |-> f, left |-> f.nodes]
    /\ UNCHANGED <<site, clock, env, phase, began, now, listing, memory, tenants, reads>>

(* Variant for the checks: confirms with the first node drained. *)
ConfirmedEarly(f, left) == Confirm(f)

ConfirmedAfter(f, left) == IF left = {} THEN Confirm(f) ELSE memory

DrainNode(n) ==
    /\ n \in draining.left
    /\ LET f    == draining.job
           left == draining.left \ {n}
       IN  /\ drained' = drained \cup {n}
           /\ done' = IF cluster[f.id].start = f.start
                      THEN [done EXCEPT ![f.id][n] = now] ELSE done
           /\ memory' = ConfirmedAfter(f, left)
           /\ draining' = IF left = {} THEN NoDrain ELSE [draining EXCEPT !.left = left]
    /\ UNCHANGED <<site, clock, cluster, phase, began, now, listing, queue, tenants, reads>>

(* Variant for the checks: a failed drain is retried in the same cycle. *)
RetriedNow == queue \cup {draining.job}

(* A failed drain is left to the next cycle. *)
LeftToHandle == queue

(* scontrol fails, or is killed when its time is over, with or without     *)
(* effect; the other nodes are not tried, and nothing is confirmed.        *)
DrainFails(n) ==
    /\ "drain" \in site.faults
    /\ n \in draining.left
    /\ drained' \in {drained, drained \cup {n}}
    /\ draining' = NoDrain
    /\ queue' = LeftToHandle
    /\ UNCHANGED <<site, clock, cluster, done, phase, began, now, listing, memory, tenants, reads>>

(* scancel names the JobID.  A job that is cancelled ends in its own time, *)
(* and one that is not, or that the observe mode spares, is found again.   *)
CancelJob(f) ==
    /\ Handles(f)
    /\ f.verdict = Cancel
    /\ UNCHANGED <<site, clock, env, phase, began, now, listing, memory, draining, tenants, reads>>

Finish ==
    /\ phase = "acting"
    /\ queue = {}
    /\ draining.left = {}
    /\ EndCycle
    /\ UNCHANGED <<site, clock, env, began, now, memory, queue, draining, reads>>

(* The daemon is restarted, wherever its cycle is.                         *)
Restart ==
    /\ "crash" \in site.faults
    /\ EndCycle
    /\ memory' = [id \in JobIDs |-> NoState]
    /\ queue' = {}
    /\ draining' = NoDrain
    /\ UNCHANGED <<site, clock, env, began, now, reads>>

-----------------------------------------------------------------------------
Act ==
    \/ \E f \in queue : Notify(f) \/ DryDrain(f) \/ BeginDrain(f) \/ CancelJob(f)
    \/ \E n \in draining.left : DrainNode(n) \/ DrainFails(n)
    \/ Finish

Next ==
    \/ Tick
    \/ \E id \in site.jobs : JobEnds(id) \/ \E where \in Placements : JobStarts(id, where)
    \/ List
    \/ ListFails
    \/ SampleNodes
    \/ SampleFails
    \/ Act
    \/ Restart

Spec == Init /\ [][Next]_vars

(* Every call of a cycle has a time limit, so that a cycle goes on.        *)
FairSpec == Spec /\ WF_vars(SampleNodes \/ SampleFails) /\ WF_vars(Act)

-----------------------------------------------------------------------------
(***************************************************************************)
(* What must hold.                                                         *)
(***************************************************************************)
Time == Nat \cup {None}

(* The findings whose handling is not over.                                *)
Unhandled == queue \cup {f \in {draining.job} : draining.left # {}}

(* Every variable has its type; nothing is handled outside a cycle.        *)
TypeOK ==
    /\ {clock, began, now} \subseteq Time
    /\ cluster \in [JobIDs -> [start : Time, nodes : SUBSET AllNodes]]
    /\ drained \subseteq AllNodes
    /\ phase \in {"wait", "listed", "acting"}
    /\ \A j \in listing : j.id \in JobIDs /\ j.start \in Time /\ j.nodes \subseteq AllNodes
    /\ \A id \in JobIDs : memory[id].startTime \in Time /\ memory[id].lastVerdict \in Verdicts
    /\ \A f \in Unhandled :
          /\ f.id \in JobIDs /\ f.start \in Time /\ f.nodes \subseteq AllNodes
          /\ f.verdict \in Alert .. Cancel
    /\ draining.left \subseteq AllNodes
    /\ phase # "acting" => Unhandled = {}

(* The stretch of time a finding surely speaks of.                         *)
Evidenced(f, t) == t >= f.start + Warmup /\ t >= now - Window + MaxSampleGap

(* Whatever was read of a node of the job while the job's breach lasted    *)
(* showed no work: also what was read in a cycle that did not judge the    *)
(* job, since that cycle drops its history (cycle's Drop calls).           *)
NothingOverlooked ==
    \A f \in queue : \A n \in f.nodes : \A r \in reads[n] : Evidenced(f, r.at) => ~r.work

(* A finding rests on readings taken while its nodes had no other GPU job, *)
(* as of the listing of their cycle (the shared-node rule, README).  Only  *)
(* where every record is read: a job whose record the listing refuses is   *)
(* not counted on its nodes (cycle's gpuJobsPerNode).                      *)
NeverShared ==
    "reject" \notin site.faults =>
        \A f \in queue : \A n \in f.nodes : \A r \in reads[n] : Evidenced(f, r.at) => r.tenants = 1

(* With labels, no reading counts that was taken when the node had been    *)
(* given to another job after the listing (attributionConflict).           *)
OwnReadings ==
    site.labels =>
        \A f \in queue : \A n \in f.nodes : \A r \in reads[n] :
            Evidenced(f, r.at) => r.by = {} \/ f.id \in r.by

(* A drain that the engine believes in was carried out on every node of    *)
(* the job, whatever failed and whenever the daemon was interrupted        *)
(* (ClusterActor.drain, cycle's ConfirmDrain).                             *)
ConfirmedIsDrained ==
    \A id \in JobIDs :
        /\ site.enforce
        /\ memory[id].drainConfirmedAt # None
        /\ memory[id].startTime = cluster[id].start
        => cluster[id].nodes \subseteq drained

(* A cancel that is about to be made follows a drain of all the job's      *)
(* nodes, made in one cycle for this very incarnation and a Window ago.    *)
CancelFollowsDrain ==
    site.enforce =>
        \A f \in queue :
            f.verdict = Cancel /\ f.start = cluster[f.id].start =>
                \E c \in 0 .. (now - Window) : \A n \in f.nodes : done[f.id][n] = c

(* A cycle that has samples ends, however many of its actions fail: no     *)
(* finding keeps the others, or the next cycle, waiting (cycle's loop).    *)
CycleEnds == phase = "acting" ~> phase = "wait"

(* Of a finding that asks for a drain, the time of its cycle.              *)
Asked(id) ==
    IF \E f \in Unhandled : f.id = id /\ f.verdict = Drain /\ ~f.drainConfirmed
    THEN now ELSE None

L(id) == INSTANCE Ladder WITH
            Wait      <- Window,
            rung      <- memory[id].lastVerdict,
            asked     <- Asked(id),
            drainedAt <- memory[id].drainConfirmedAt

(* Every job climbs the ladder of module Ladder, whatever of the cycle     *)
(* fails and wherever it is interrupted: between a finding and its         *)
(* handling nothing may be confirmed that was not asked for, or twice      *)
(* (reaper.cycle's handling of findings, ConfirmDrain).                    *)
ClimbsLadder ==
    /\ \A id \in JobIDs : L(id)!Init
    /\ [][\A id \in JobIDs : L(id)!Next \/ UNCHANGED L(id)!vars]_vars

-----------------------------------------------------------------------------
(* What the documentation says and the code does not keep.                 *)

(* "A job that keeps its JobID but has a new StartTime is a new job with   *)
(* no history" (README): a cancel ends the incarnation it was found for.   *)
CancelHitsJudged ==
    [][\A f \in queue : site.enforce /\ CancelJob(f) /\ f.id \in Running =>
          cluster[f.id].start = f.start]_vars

=============================================================================
