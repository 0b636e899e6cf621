---------------------------- MODULE ReaperProofs ----------------------------
(***************************************************************************)
(* For any number of jobs and nodes, any deployment and any thresholds:    *)
(*   - what a confirmed drain and a cancel follow (ConfirmedIsDrained,     *)
(*     CancelFollowsDrain);                                                *)
(*   - types, and that each job climbs the ladder (ClimbsLadder);          *)
(*   - what the readings a breach rests on were taken of                   *)
(*     (NothingOverlooked, NeverShared, OwnReadings).                      *)
(*                                                                         *)
(* None is inductive.  The daemon acts on what it listed and judged        *)
(* earlier in its cycle, while Slurm goes on; DrainsInv says what ties     *)
(* these views together: a view with the start that Slurm still runs names *)
(* all the nodes the job has (ListingInv), every finding is of one listed  *)
(* job and of another than the rest (FindingsInv), and the nodes of a view *)
(* of a job whose drain is confirmed were drained in one cycle.            *)
(* TenancyInv does the same for the readings: from its oldest sample of a  *)
(* node onwards the engine keeps all that was read there (SightInv).       *)
(***************************************************************************)
EXTENDS Reaper, EngineProofs

ClusterInv ==
    /\ site.jobs \subseteq JobIDs
    /\ clock \in Nat
    /\ now \in Nat \cup {None} /\ (phase = "acting" => now \in Nat)
    /\ cluster \in [JobIDs -> [start : Nat \cup {None}, nodes : SUBSET AllNodes]]
    /\ done \in [JobIDs -> [AllNodes -> Nat \cup {None}]]

MemoryInv ==
    /\ memory = [id \in JobIDs |-> memory[id]]
    /\ \A id \in JobIDs :
          /\ IsState(memory[id])
          /\ memory[id].startTime \in Nat \cup {None}
          /\ memory[id].startTime <= cluster[id].start
          /\ memory[id].lastVerdict \in Verdicts
          /\ memory[id].drainConfirmedAt \in Nat \cup {None}

(* What a listing says of a job is about its running start or an older one. *)
ListingInv ==
    /\ \A j \in listing :
          /\ j.id \in JobIDs
          /\ j.start \in Nat \cup {None}
          /\ j.nodes \subseteq AllNodes
          /\ j.start <= cluster[j.id].start
          /\ j.start = cluster[j.id].start => cluster[j.id].nodes \subseteq j.nodes
    /\ \A j, k \in listing : j.id = k.id => j = k

FindingsInv ==
    /\ phase # "acting" => queue = {} /\ draining.left = {}
    /\ draining = [job |-> draining.job, left |-> draining.left]
    /\ \A f \in Unhandled :
          /\ \E j \in listing : f.id = j.id /\ f.start = j.start /\ f.nodes = j.nodes
          /\ f.verdict = Drain /\ ~f.drainConfirmed => memory[f.id].drainConfirmedAt = None
    /\ \A f, g \in Unhandled : f.id = g.id => f = g
    /\ draining.left # {} =>
          /\ draining.job \notin queue
          /\ draining.job.verdict = Drain /\ ~draining.job.drainConfirmed
          /\ draining.left \subseteq draining.job.nodes

(* The nodes of the running start: Slurm's, and those of the listing.      *)
Held(id) ==
    cluster[id].nodes \cup
    UNION {j.nodes : j \in {k \in listing : k.id = id /\ k.start = cluster[id].start}}

(* A drain that is under way was carried out on the nodes that are not     *)
(* left, in this cycle.                                                    *)
UnderWay ==
    site.enforce /\ draining.left # {} =>
        \A n \in draining.job.nodes \ draining.left :
            /\ n \in drained
            /\ draining.job.start = cluster[draining.job.id].start =>
                  done[draining.job.id][n] = now

(* A confirmed drain was carried out on every node, in one cycle.          *)
Confirmed ==
    site.enforce =>
        \A id \in JobIDs :
            memory[id].drainConfirmedAt # None /\ memory[id].startTime = cluster[id].start =>
                \A n \in Held(id) :
                    n \in drained /\ done[id][n] = memory[id].drainConfirmedAt

DrainsInv ==
    /\ ClusterInv
    /\ MemoryInv
    /\ ListingInv
    /\ FindingsInv
    /\ UnderWay
    /\ Confirmed
    /\ CancelFollowsDrain

-----------------------------------------------------------------------------
(***************************************************************************)
(* The initial state, Slurm and the clock.                                 *)
(***************************************************************************)
LEMMA NoStateForgets ==
    /\ IsState(NoState)
    /\ NoState.startTime = None
    /\ NoState.lastVerdict \in Verdicts
    /\ OffLadder(NoState)
    /\ NoState.drainConfirmedAt = None
BY FreshIsState DEF NoState, OffLadder, Verdicts, Healthy, Cancel

LEMMA InitDrains == Init => DrainsInv
<1> SUFFICES ASSUME Init PROVE DrainsInv
    OBVIOUS
<1> USE DEF Init
<1>1. ClusterInv
    BY ReaperAssumption DEF ClusterInv, SiteType, Nobody, Nowhere, None
<1>2. MemoryInv
    BY NoStateForgets DEF MemoryInv, Nobody, None
<1>3. ListingInv
    BY DEF ListingInv
<1>4. FindingsInv
    BY DEF FindingsInv, Unhandled, NoDrain
<1>5. UnderWay
    BY DEF UnderWay, NoDrain
<1>6. Confirmed
    BY NoStateForgets DEF Confirmed
<1>7. CancelFollowsDrain
    BY DEF CancelFollowsDrain
<1> QED
    BY <1>1, <1>2, <1>3, <1>4, <1>5, <1>6, <1>7 DEF DrainsInv

LEMMA TickDrains == DrainsInv /\ Tick => DrainsInv'
<1> SUFFICES ASSUME DrainsInv, Tick PROVE DrainsInv'
    OBVIOUS
<1> USE DEF DrainsInv, Tick, env, daemon
<1>1. ClusterInv'
    BY DEF ClusterInv
<1>2. MemoryInv' /\ ListingInv' /\ FindingsInv'
    BY DEF MemoryInv, ListingInv, FindingsInv, Unhandled
<1>3. UnderWay' /\ Confirmed' /\ CancelFollowsDrain'
    BY DEF UnderWay, Confirmed, Held, CancelFollowsDrain
<1> QED
    BY <1>1, <1>2, <1>3

LEMMA StutterDrains == DrainsInv /\ UNCHANGED vars => DrainsInv'
BY DEF DrainsInv, vars, env, daemon, ClusterInv, MemoryInv, ListingInv, FindingsInv,
       Unhandled, UnderWay, Confirmed, Held, CancelFollowsDrain

(* A new start is later than every view of the job.                        *)
LEMMA JobStartsDrains ==
    ASSUME DrainsInv, NEW id \in JobIDs, NEW where \in Placements, JobStarts(id, where)
    PROVE  DrainsInv'
<1> USE DEF DrainsInv
<1>1. /\ cluster' = [cluster EXCEPT ![id] = [start |-> clock, nodes |-> where]]
      /\ done' = [done EXCEPT ![id] = Nowhere]
      /\ UNCHANGED <<site, clock, drained, daemon>>
      /\ cluster[id].start < clock
    BY DEF JobStarts
<1>2. ClusterInv'
    <2>1. where \subseteq AllNodes
        BY ReaperAssumption
    <2> QED
        BY <1>1, <2>1 DEF ClusterInv, Nowhere, daemon
<1>3. \A k \in JobIDs :
        /\ k # id => cluster'[k] = cluster[k] /\ done'[k] = done[k]
        /\ k = id => cluster'[k].start = clock
    BY <1>1 DEF ClusterInv
<1>4. \A k \in JobIDs : cluster[k].start \in Int /\ cluster'[k].start >= cluster[k].start
    BY <1>1, <1>3 DEF ClusterInv, None
<1>5. MemoryInv'
    BY <1>1, <1>2, <1>4 DEF MemoryInv, ClusterInv, daemon, None
<1>6. ListingInv'
    BY <1>1, <1>3, <1>4 DEF ListingInv, ClusterInv, daemon, None
<1>7. FindingsInv'
    BY <1>1 DEF FindingsInv, Unhandled, daemon
<1>8. \A f \in Unhandled : /\ f.id \in JobIDs /\ f.start \in Int
                           /\ f.start <= cluster[f.id].start
    BY DEF FindingsInv, ListingInv, None
<1>9. UnderWay'
    BY <1>1, <1>3, <1>4, <1>8 DEF UnderWay, Unhandled, ClusterInv, daemon
<1>10. Confirmed'
    <2> SUFFICES ASSUME NEW k \in JobIDs, site.enforce,
                        memory[k].drainConfirmedAt # None,
                        memory[k].startTime = cluster'[k].start
                 PROVE  \A n \in Held(k)' :
                           n \in drained /\ done'[k][n] = memory[k].drainConfirmedAt
        BY <1>1 DEF Confirmed, daemon
    <2>1. k # id
        BY <1>1, <1>3 DEF MemoryInv, ClusterInv, None
    <2>2. Held(k)' = Held(k)
        BY <1>1, <1>3, <2>1 DEF Held, daemon
    <2> QED
        BY <1>3, <2>1, <2>2 DEF Confirmed
<1>11. CancelFollowsDrain'
    BY <1>1, <1>3, <1>4, <1>8 DEF CancelFollowsDrain, Unhandled, ClusterInv, daemon
<1> QED
    BY <1>2, <1>5, <1>6, <1>7, <1>9, <1>10, <1>11

LEMMA JobEndsDrains ==
    ASSUME DrainsInv, NEW id \in JobIDs, JobEnds(id)
    PROVE  DrainsInv'
<1> USE DEF DrainsInv
<1>1. /\ cluster' = [cluster EXCEPT ![id].nodes = {}]
      /\ UNCHANGED <<site, clock, drained, done, daemon>>
    BY DEF JobEnds
<1>2. ClusterInv'
    BY <1>1 DEF ClusterInv, daemon
<1>3. \A k \in JobIDs : /\ cluster'[k].start = cluster[k].start
                        /\ cluster'[k].nodes \subseteq cluster[k].nodes
    BY <1>1 DEF ClusterInv
<1>4. MemoryInv' /\ ListingInv' /\ FindingsInv'
    BY <1>1, <1>3 DEF MemoryInv, ListingInv, FindingsInv, Unhandled, daemon
<1>5. \A f \in Unhandled : f.id \in JobIDs
    BY DEF FindingsInv, ListingInv
<1>6. UnderWay' /\ CancelFollowsDrain'
    BY <1>1, <1>3, <1>5 DEF UnderWay, Unhandled, CancelFollowsDrain, daemon
<1>7. \A k \in JobIDs : Held(k)' \subseteq Held(k)
    BY <1>1, <1>3 DEF Held, daemon
<1>8. Confirmed'
    BY <1>1, <1>3, <1>7 DEF Confirmed, daemon
<1> QED
    BY <1>2, <1>4, <1>6, <1>8

-----------------------------------------------------------------------------
(***************************************************************************)
(* The cycle: listing and sampling.                                        *)
(***************************************************************************)
LEMMA ListDrains == DrainsInv /\ List => DrainsInv'
<1> SUFFICES ASSUME DrainsInv, List PROVE DrainsInv'
    OBVIOUS
<1> USE DEF DrainsInv
<1>1. PICK refused :
        /\ listing' = {Listed(id) : id \in Running \ refused}
        /\ memory' = [id \in JobIDs |->
                         IF id \in Running \ refused THEN memory[id] ELSE NoState]
    BY DEF List
<1>2. /\ UNCHANGED <<site, clock, cluster, drained, done, now, queue, draining>>
      /\ phase = "wait" /\ phase' = "listed"
    BY DEF List, env
<1>3. queue = {} /\ draining.left = {}
    BY <1>2 DEF FindingsInv
<1>4. ClusterInv'
    BY <1>2 DEF ClusterInv
<1>5. MemoryInv'
    <2>1. \A id \in JobIDs : memory'[id] = memory[id] \/ memory'[id] = NoState
        BY <1>1
    <2>2. \A id \in JobIDs : None <= cluster[id].start
        BY DEF ClusterInv, None
    <2>3. memory' = [id \in JobIDs |-> memory'[id]]
        BY <1>1
    <2> QED
        BY <1>2, <2>1, <2>2, <2>3, NoStateForgets DEF MemoryInv
<1>6. \A j \in listing' : /\ j.id \in JobIDs
                          /\ j.start = cluster[j.id].start
                          /\ j.nodes = cluster[j.id].nodes
    BY <1>1 DEF Listed, Running
<1>7. \A j, k \in listing' : j.id = k.id => j = k
    <2>1. \A j \in listing' : j = Listed(j.id)
        BY <1>1 DEF Listed
    <2> QED
        BY <2>1
<1>8. ListingInv'
    BY <1>2, <1>6, <1>7 DEF ListingInv, ClusterInv, None
<1>9. FindingsInv'
    BY <1>2, <1>3 DEF FindingsInv, Unhandled
<1>10. UnderWay' /\ CancelFollowsDrain'
    BY <1>2, <1>3 DEF UnderWay, CancelFollowsDrain
<1>11. \A id \in JobIDs : Held(id)' \subseteq Held(id)
    BY <1>2, <1>6 DEF Held
<1>12. \A id \in JobIDs : memory'[id].drainConfirmedAt # None => memory'[id] = memory[id]
    BY <1>1, NoStateForgets
<1>13. Confirmed'
    BY <1>2, <1>11, <1>12 DEF Confirmed
<1> QED
    BY <1>4, <1>5, <1>8, <1>9, <1>10, <1>13

LEMMA ListFailsDrains == DrainsInv /\ ListFails => DrainsInv'
BY DEF DrainsInv, ListFails, env, ClusterInv, MemoryInv, ListingInv, FindingsInv,
       Unhandled, UnderWay, Confirmed, Held, CancelFollowsDrain

(* The end of a cycle, in whichever way: what it listed is gone, and there *)
(* is no finding left.                                                     *)
LEMMA CycleOver ==
    ASSUME DrainsInv, EndCycle, queue' = {}, draining'.left = {},
           draining' = [job |-> draining'.job, left |-> draining'.left],
           UNCHANGED <<site, clock, env, now>>, MemoryInv',
           \A id \in JobIDs : memory'[id].drainConfirmedAt # None => memory'[id] = memory[id]
    PROVE  DrainsInv'
<1> USE DEF DrainsInv
<1>1. listing' = {} /\ phase' = "wait" /\ UNCHANGED <<site, clock, cluster, drained, done, now>>
    BY DEF EndCycle, env
<1>2. ClusterInv'
    BY <1>1 DEF ClusterInv
<1>3. ListingInv'
    BY <1>1 DEF ListingInv
<1>4. FindingsInv'
    BY <1>1 DEF FindingsInv, Unhandled
<1>5. UnderWay' /\ CancelFollowsDrain'
    BY <1>1 DEF UnderWay, CancelFollowsDrain
<1>6. \A id \in JobIDs : Held(id)' \subseteq Held(id)
    BY <1>1 DEF Held
<1>7. Confirmed'
    BY <1>1, <1>6 DEF Confirmed
<1> QED
    BY <1>2, <1>3, <1>4, <1>5, <1>7

LEMMA CycleEndsDrains ==
    DrainsInv /\ (SampleFails \/ Finish \/ Restart) => DrainsInv'
<1> SUFFICES ASSUME DrainsInv, SampleFails \/ Finish \/ Restart PROVE DrainsInv'
    OBVIOUS
<1> USE DEF DrainsInv
<1>1. CASE SampleFails \/ Finish
    <2>1. /\ EndCycle
          /\ UNCHANGED <<site, clock, env, now, memory, queue, draining>>
          /\ queue = {} /\ draining.left = {}
        BY <1>1 DEF SampleFails, Finish, FindingsInv
    <2>2. MemoryInv'
        BY <2>1 DEF MemoryInv, env
    <2>3. draining = [job |-> draining.job, left |-> draining.left]
        BY DEF FindingsInv
    <2> QED
        BY <2>1, <2>2, <2>3, CycleOver
<1>2. CASE Restart
    <2>1. /\ EndCycle
          /\ UNCHANGED <<site, clock, env, now>>
          /\ memory' = [id \in JobIDs |-> NoState]
          /\ queue' = {} /\ draining' = NoDrain
        BY <1>2 DEF Restart
    <2>2. \A id \in JobIDs : None <= cluster[id].start
        BY DEF ClusterInv, None
    <2>3. MemoryInv'
        BY <2>1, <2>2, NoStateForgets DEF MemoryInv, env
    <2>4. \A id \in JobIDs : memory'[id].drainConfirmedAt = None
        BY <2>1, NoStateForgets
    <2>5. draining'.left = {} /\ draining' = [job |-> draining'.job, left |-> draining'.left]
        BY <2>1 DEF NoDrain
    <2> QED
        BY <2>1, <2>3, <2>4, <2>5, CycleOver
<1> QED
    BY <1>1, <1>2

(* What one job's judgement makes of its state and finding (Observe and    *)
(* Evaluate, or Drop): its rung is kept, lost, or climbed from where it    *)
(* stood - or, with another start, from the foot of the ladder.            *)
FirstRungs(j, r) ==
    /\ r.finding.verdict \in {Watching, Alert}
    /\ r.state.lastVerdict = r.finding.verdict
    /\ r.state.drainConfirmedAt = None
    /\ r.state.startTime = j.start

JudgedAs(s, j, r) ==
    /\ IsState(r.state)
    /\ \/ r.finding.verdict = Healthy /\ SameRung(s, r.state)
       \/ /\ r.finding.verdict = Healthy
          /\ OffLadder(r.state)
          /\ r.state.startTime \in {s.startTime, j.start, None}
       \/ Climbed(s, r, clock) /\ s.startTime = j.start
       \/ FirstRungs(j, r)

LEMMA Judges ==
    ASSUME DrainsInv, NEW j \in listing, NEW read, NEW label
    PROVE  JudgedAs(memory[j.id], j, Judged(j, read, label))
<1> DEFINE answered == DOMAIN read
           samples  == {[seen |-> clock, at |-> clock, node |-> n, gpu |-> 0,
                         read |-> read[n]] : n \in j.nodes \cap answered}
           s == memory[j.id]
           o == Observe(s, j, samples, clock)
           r == Judged(j, read, label)
           skipped == Shared(j) \/ Missing(j, answered) \/ Conflict(j, label)
<1>1. IsState(s)
    BY DEF DrainsInv, MemoryInv, ListingInv
<1>2. ASSUME skipped PROVE JudgedAs(s, j, r)
    <2>1. r.state = NoState /\ r.finding.verdict = Healthy
        BY <1>2 DEF Judged, Dropped, Result, Nothing
    <2> HIDE DEF r, s
    <2> QED
        BY <2>1, NoStateForgets DEF JudgedAs
<1>3. ASSUME ~skipped PROVE JudgedAs(s, j, r)
    <2>1. r = Evaluate(o, j, clock)
        BY <1>3 DEF Judged
    <2>2. /\ IsState(o)
          /\ o.startTime = j.start
          /\ s.startTime = j.start => SameRung(s, o)
          /\ s.startTime # j.start => OffLadder(o)
        BY <1>1, ObserveIsState
    <2> HIDE DEF o, r, s
    <2>3. /\ IsState(r.state)
          /\ \/ r.finding.verdict = Healthy /\ r.state = o
             \/ /\ r.finding.verdict = Healthy
                /\ OffLadder(r.state)
                /\ r.state.startTime \in {o.startTime, None}
             \/ Climbed(o, r, clock)
        BY <2>1, <2>2, EvaluateClimbs
    <2>4. CASE s.startTime = j.start
        BY <2>2, <2>3, <2>4 DEF JudgedAs, SameRung, Climbed
    <2>5. CASE s.startTime # j.start
        <3>1. Climbed(o, r, clock) => FirstRungs(j, r)
            BY <2>2, <2>5 DEF Climbed, FirstRungs, OffLadder, Healthy, Watching, Alert, Drain, Cancel
        <3> QED
            BY <2>2, <2>3, <2>5, <3>1 DEF JudgedAs
    <2> QED
        BY <2>4, <2>5
<1> HIDE DEF r
<1>4. JudgedAs(s, j, r)
    BY <1>2, <1>3
<1> QED
    BY <1>4 DEF r

(* What a confirmation and a cancel rest on, after a judgement.            *)
LEMMA JudgedDrains ==
    ASSUME NEW s, NEW j, NEW r, JudgedAs(s, j, r),
           clock \in Nat, s.drainConfirmedAt \in Nat \cup {None}, s.lastVerdict \in Verdicts
    PROVE  /\ r.state.startTime \in {s.startTime, j.start, None}
           /\ r.state.lastVerdict \in Verdicts
           /\ r.state.drainConfirmedAt \in {s.drainConfirmedAt, None}
           /\ r.state.drainConfirmedAt # None => r.state.startTime = s.startTime
           /\ r.finding.verdict = Cancel =>
                 /\ s.startTime = j.start
                 /\ s.drainConfirmedAt # None
                 /\ clock - s.drainConfirmedAt >= Window
           /\ r.finding.verdict = Drain /\ ~r.finding.drainConfirmed =>
                 r.state.drainConfirmedAt = None
<1> USE DEF Verdicts, None, Healthy, Watching, Alert, Drain, Cancel
<1>1. Window \in Nat
    BY ThresholdsAssumption
<1>2. CASE r.finding.verdict = Healthy /\ SameRung(s, r.state)
    BY <1>2 DEF SameRung
<1>3. CASE /\ r.finding.verdict = Healthy
           /\ OffLadder(r.state)
           /\ r.state.startTime \in {s.startTime, j.start, None}
    BY <1>3 DEF OffLadder
<1>4. CASE Climbed(s, r, clock) /\ s.startTime = j.start
    <2>1. r.finding.drainConfirmed = (s.drainConfirmedAt # None)
        BY <1>4 DEF Climbed
    <2>2. ~r.finding.drainConfirmed => s.drainConfirmedAt = None
        BY <2>1, Zenon
    <2>3. /\ r.finding.verdict \in Verdicts
          /\ r.finding.verdict = Cancel =>
                s.drainConfirmedAt # None /\ ~(clock - s.drainConfirmedAt < Window)
          /\ r.state.startTime = s.startTime
          /\ r.state.lastVerdict = r.finding.verdict
          /\ r.state.drainConfirmedAt = s.drainConfirmedAt
        BY <1>4 DEF Climbed
    <2>4. s.drainConfirmedAt # None /\ ~(clock - s.drainConfirmedAt < Window) =>
             clock - s.drainConfirmedAt >= Window
        BY <1>1
    <2> QED
        BY <1>4, <2>2, <2>3, <2>4
<1>5. CASE FirstRungs(j, r)
    BY <1>5 DEF FirstRungs
<1> QED
    BY <1>2, <1>3, <1>4, <1>5 DEF JudgedAs

(* What a cycle's samples are made into: a judgement of each job in scope, *)
(* and a reading of each node that answered.                               *)
Seen(n, read) ==
    [at |-> clock, work |-> ~Judgeable(read[n]) \/ AtWork(read[n]),
     by |-> On(n), tenants |-> tenants[n]]

SampledAs(read, label) ==
    /\ DOMAIN read \subseteq Targets
    /\ DOMAIN label = DOMAIN read
    /\ site.labels => \A n \in DOMAIN label : label[n] = On(n)
    /\ now' = clock
    /\ queue' = {f \in {ToHandle(j, Judged(j, read, label).finding) : j \in InScope} :
                   f.verdict >= Alert}
    /\ memory' = [id \in JobIDs |-> memory'[id]]
    /\ \A j \in InScope : memory'[j.id] = Judged(j, read, label).state
    /\ \A id \in JobIDs : \/ memory'[id] = memory[id]
                           \/ \E j \in InScope : j.id = id
    /\ reads' = [n \in AllNodes |->
                    Recent(reads[n] \cup (IF n \in DOMAIN read THEN {Seen(n, read)} ELSE {}))]

LEMMA SampleEffect ==
    ASSUME DrainsInv, SampleNodes
    PROVE  \E read, label : SampledAs(read, label)
<1> USE DEF DrainsInv
<1>1. PICK silent :
         \E read \in [Targets \ silent -> site.readings] : Sample(Targets \ silent, read)
    BY DEF SampleNodes
<1>2. PICK read \in [Targets \ silent -> site.readings] : Sample(Targets \ silent, read)
    BY <1>1
<1> DEFINE answered == Targets \ silent
           label    == [n \in answered |-> IF site.labels THEN On(n) ELSE {}]
           R(j)     == Judged(j, read, label)
           result   == [j \in InScope |-> R(j)]
           ofID(id) == {j \in InScope : j.id = id}
<1>3. /\ now' = clock
      /\ memory' = [id \in JobIDs |->
                       IF ofID(id) = {} THEN memory[id]
                       ELSE result[CHOOSE j \in ofID(id) : TRUE].state]
      /\ queue' = {f \in {ToHandle(j, result[j].finding) : j \in InScope} : f.verdict >= Alert}
    BY <1>2 DEF Sample
<1>4. InScope \subseteq listing
    BY DEF InScope
<1>5. queue' = {f \in {ToHandle(j, R(j).finding) : j \in InScope} : f.verdict >= Alert}
    BY <1>3
<1>6. \A j \in InScope : memory'[j.id] = R(j).state
    <2> TAKE j \in InScope
    <2>1. j.id \in JobIDs
        BY <1>4 DEF ListingInv
    <2>2. ofID(j.id) = {j}
        BY <1>4 DEF ListingInv
    <2>3. (CHOOSE k \in ofID(j.id) : TRUE) = j
        BY <2>2
    <2> QED
        BY <1>3, <2>1, <2>2, <2>3
<1>7. \A id \in JobIDs : \/ memory'[id] = memory[id]
                         \/ \E j \in InScope : j.id = id
    BY <1>3
<1>8. memory' = [id \in JobIDs |-> memory'[id]]
    BY <1>3
<1> HIDE DEF answered, label, result, ofID
<1>9. reads' = [n \in AllNodes |->
                   Recent(reads[n] \cup (IF n \in DOMAIN read THEN {Seen(n, read)} ELSE {}))]
    <2>1. DOMAIN read = Targets \ silent
        OBVIOUS
    <2> QED
        BY <1>2, <2>1 DEF Sample, Seen
<1>10. /\ DOMAIN read \subseteq Targets
       /\ DOMAIN label = DOMAIN read
       /\ site.labels => \A n \in DOMAIN label : label[n] = On(n)
    BY DEF label, answered
<1>11. SampledAs(read, label)
    BY <1>3, <1>5, <1>6, <1>7, <1>8, <1>9, <1>10 DEF SampledAs
<1> QED
    BY <1>11

(* The findings of a cycle are those of the jobs it listed, one of each.   *)
LEMMA SampleDrains == DrainsInv /\ SampleNodes => DrainsInv'
<1> SUFFICES ASSUME DrainsInv, SampleNodes PROVE DrainsInv'
    OBVIOUS
<1> USE DEF DrainsInv
<1>1. PICK read, label :
        /\ now' = clock
        /\ queue' = {f \in {ToHandle(j, Judged(j, read, label).finding) : j \in InScope} :
                       f.verdict >= Alert}
        /\ memory' = [id \in JobIDs |-> memory'[id]]
        /\ \A j \in InScope : memory'[j.id] = Judged(j, read, label).state
        /\ \A id \in JobIDs : \/ memory'[id] = memory[id]
                               \/ \E j \in InScope : j.id = id
    BY SampleEffect DEF SampledAs
<1>2. /\ UNCHANGED <<site, clock, cluster, drained, done, listing, draining>>
      /\ phase = "listed" /\ phase' = "acting"
    BY DEF SampleNodes, env
<1> DEFINE R(j)     == Judged(j, read, label)
           Found(j) == ToHandle(j, R(j).finding)
<1>4. InScope \subseteq listing
    BY DEF InScope
<1>5. queue' \subseteq {Found(j) : j \in InScope}
    BY <1>1
<1>8. \A j \in InScope :
         LET s == memory[j.id]
         IN  /\ IsState(memory'[j.id])
             /\ memory'[j.id].startTime \in {s.startTime, j.start, None}
             /\ memory'[j.id].lastVerdict \in Verdicts
             /\ memory'[j.id].drainConfirmedAt \in {s.drainConfirmedAt, None}
             /\ memory'[j.id].drainConfirmedAt # None =>
                   memory'[j.id].startTime = s.startTime
             /\ Found(j).verdict = Cancel =>
                   /\ s.startTime = j.start
                   /\ s.drainConfirmedAt # None
                   /\ clock - s.drainConfirmedAt >= Window
             /\ Found(j).verdict = Drain /\ ~Found(j).drainConfirmed =>
                   memory'[j.id].drainConfirmedAt = None
    <2> TAKE j \in InScope
    <2>1. /\ Found(j).verdict = R(j).finding.verdict
          /\ Found(j).drainConfirmed = R(j).finding.drainConfirmed
        BY DEF ToHandle
    <2>2. j \in listing /\ j.id \in JobIDs
        BY <1>4 DEF ListingInv
    <2>3. JudgedAs(memory[j.id], j, R(j))
        BY <2>2, Judges
    <2>4. memory'[j.id] = R(j).state
        BY <1>1
    <2>5. /\ clock \in Nat
          /\ memory[j.id].drainConfirmedAt \in Nat \cup {None}
          /\ memory[j.id].lastVerdict \in Verdicts
        BY <2>2 DEF ClusterInv, MemoryInv
    <2>6. IsState(R(j).state)
        BY <2>3 DEF JudgedAs
    <2> HIDE DEF R, Found
    <2> QED
        BY <2>1, <2>3, <2>4, <2>5, <2>6, JudgedDrains
<1>9. \A j \in InScope : Found(j).id = j.id /\ Found(j).start = j.start /\ Found(j).nodes = j.nodes
    BY DEF ToHandle
<1> HIDE DEF R, Found
<1>10. draining.left = {}
    BY <1>2 DEF FindingsInv
<1>11. Unhandled' = queue'
    BY <1>2, <1>10 DEF Unhandled
<1>12. ClusterInv'
    BY <1>1, <1>2 DEF ClusterInv
<1>13. MemoryInv'
    <2>1. memory' = [id \in JobIDs |-> memory'[id]]
        BY <1>1
    <2> SUFFICES ASSUME NEW id \in JobIDs
                 PROVE  /\ IsState(memory'[id])
                        /\ memory'[id].startTime \in Nat \cup {None}
                        /\ memory'[id].startTime <= cluster[id].start
                        /\ memory'[id].lastVerdict \in Verdicts
                        /\ memory'[id].drainConfirmedAt \in Nat \cup {None}
        BY <1>2, <2>1 DEF MemoryInv
    <2>2. CASE memory'[id] = memory[id]
        BY <2>2 DEF MemoryInv
    <2>3. ASSUME NEW j \in InScope, j.id = id
          PROVE  /\ IsState(memory'[id])
                 /\ memory'[id].startTime \in Nat \cup {None}
                 /\ memory'[id].startTime <= cluster[id].start
                 /\ memory'[id].lastVerdict \in Verdicts
                 /\ memory'[id].drainConfirmedAt \in Nat \cup {None}
        <3>1. /\ j.start \in Nat \cup {None} /\ j.start <= cluster[id].start
              /\ None <= cluster[id].start
            BY <1>4, <2>3 DEF ListingInv, ClusterInv, None
        <3> QED
            BY <1>8, <2>3, <3>1 DEF MemoryInv
    <2> QED
        BY <1>1, <2>2, <2>3
<1>14. ListingInv'
    BY <1>2 DEF ListingInv
<1>15. FindingsInv'
    <2>1. \A f \in queue' :
            /\ \E j \in listing : f.id = j.id /\ f.start = j.start /\ f.nodes = j.nodes
            /\ f.verdict = Drain /\ ~f.drainConfirmed => memory'[f.id].drainConfirmedAt = None
        BY <1>4, <1>5, <1>8, <1>9
    <2>2. \A f, g \in queue' : f.id = g.id => f = g
        BY <1>4, <1>5, <1>9 DEF ListingInv
    <2> QED
        BY <1>2, <1>10, <1>11, <2>1, <2>2 DEF FindingsInv
<1>16. UnderWay'
    BY <1>2, <1>10 DEF UnderWay
<1>17. Confirmed'
    <2>1. \A id \in JobIDs : Held(id)' = Held(id)
        BY <1>2 DEF Held
    <2>2. \A id \in JobIDs :
             memory'[id].drainConfirmedAt # None =>
                /\ memory'[id].drainConfirmedAt = memory[id].drainConfirmedAt
                /\ memory'[id].startTime = memory[id].startTime
        BY <1>1, <1>8
    <2> QED
        BY <1>2, <2>1, <2>2 DEF Confirmed
<1>18. CancelFollowsDrain'
    <2> SUFFICES ASSUME site.enforce, NEW f \in queue', f.verdict = Cancel,
                        f.start = cluster[f.id].start
                 PROVE  \E c \in 0 .. (clock - Window) : \A n \in f.nodes : done[f.id][n] = c
        BY <1>1, <1>2 DEF CancelFollowsDrain
    <2>1. PICK j \in InScope : f = Found(j)
        BY <1>5
    <2> DEFINE c == memory[j.id].drainConfirmedAt
    <2>2. /\ memory[j.id].startTime = cluster[j.id].start
          /\ c # None /\ clock - c >= Window
          /\ f.id = j.id /\ f.nodes = j.nodes /\ j.start = cluster[j.id].start
        BY <1>8, <1>9, <2>1
    <2>3. j \in listing /\ j.id \in JobIDs /\ c \in Nat
        BY <1>4, <2>2 DEF ListingInv, MemoryInv
    <2>4. j.nodes \subseteq Held(j.id)
        BY <2>2, <2>3 DEF Held
    <2>5. \A n \in f.nodes : done[f.id][n] = c
        BY <2>2, <2>3, <2>4 DEF Confirmed
    <2>6. c \in 0 .. (clock - Window)
        BY <2>2, <2>3, ThresholdsAssumption DEF ClusterInv
    <2> QED
        BY <2>5, <2>6
<1> QED
    BY <1>12, <1>13, <1>14, <1>15, <1>16, <1>17, <1>18

-----------------------------------------------------------------------------
(***************************************************************************)
(* The cycle: the findings.                                                *)
(***************************************************************************)
LEMMA NotifyDrains ==
    ASSUME DrainsInv, NEW f \in queue, Notify(f) \/ CancelJob(f)
    PROVE  DrainsInv'
<1> USE DEF DrainsInv
<1>1. /\ queue' = queue \ {f} /\ draining.left = {}
      /\ UNCHANGED <<site, clock, cluster, drained, done, phase, now, listing, memory, draining>>
    BY DEF Notify, CancelJob, Handles, env
<1>2. ClusterInv' /\ MemoryInv' /\ ListingInv'
    BY <1>1 DEF ClusterInv, MemoryInv, ListingInv
<1>3. FindingsInv'
    BY <1>1 DEF FindingsInv, Unhandled
<1>4. UnderWay' /\ Confirmed' /\ CancelFollowsDrain'
    BY <1>1 DEF UnderWay, Confirmed, Held, CancelFollowsDrain
<1> QED
    BY <1>2, <1>3, <1>4

(* What a confirmation changes (ConfirmDrain).                             *)
LEMMA Confirms ==
    ASSUME DrainsInv, phase = "acting", NEW f, f.id \in JobIDs
    PROVE  LET m == Confirm(f)
           IN  /\ m = [id \in JobIDs |-> m[id]]
               /\ \A id \in JobIDs :
                     /\ IsState(m[id])
                     /\ m[id].startTime = memory[id].startTime
                     /\ m[id].samples = memory[id].samples
                     /\ m[id].lastVerdict = memory[id].lastVerdict
                     /\ \/ m[id].drainConfirmedAt = memory[id].drainConfirmedAt
                        \/ /\ id = f.id
                           /\ m[id].startTime = f.start
                           /\ m[id].drainConfirmedAt = now
<1> DEFINE m == Confirm(f)
           new == ConfirmDrain(memory[f.id], f.start, now)
<1>1. memory = [id \in JobIDs |-> memory[id]] /\ \A id \in JobIDs : IsState(memory[id])
    BY DEF DrainsInv, MemoryInv
<1>2. m = [id \in JobIDs |-> IF id = f.id THEN new ELSE memory[id]]
    BY <1>1 DEF Confirm
<1>3. /\ IsState(new)
      /\ new.startTime = memory[f.id].startTime
      /\ new.samples = memory[f.id].samples
      /\ new.lastVerdict = memory[f.id].lastVerdict
      /\ \/ new.drainConfirmedAt = memory[f.id].drainConfirmedAt
         \/ new.startTime = f.start /\ new.drainConfirmedAt = now
    BY <1>1 DEF ConfirmDrain, IsState, Fields
<1> HIDE DEF m, new
<1>4. /\ m = [id \in JobIDs |-> m[id]]
      /\ \A id \in JobIDs :
            /\ IsState(m[id])
            /\ m[id].startTime = memory[id].startTime
            /\ m[id].samples = memory[id].samples
            /\ m[id].lastVerdict = memory[id].lastVerdict
            /\ \/ m[id].drainConfirmedAt = memory[id].drainConfirmedAt
               \/ /\ id = f.id
                  /\ m[id].startTime = f.start
                  /\ m[id].drainConfirmedAt = now
    BY <1>1, <1>2, <1>3
<1> QED
    BY <1>4 DEF m

LEMMA DryDrainDrains ==
    ASSUME DrainsInv, NEW f \in queue, DryDrain(f)
    PROVE  DrainsInv'
<1> USE DEF DrainsInv
<1>1. /\ queue' = queue \ {f} /\ draining.left = {} /\ ~site.enforce /\ phase = "acting"
      /\ memory' = Confirm(f)
      /\ UNCHANGED <<site, clock, cluster, drained, done, phase, now, listing, draining>>
    BY DEF DryDrain, Handles, env
<1>2. f \in Unhandled /\ f.id \in JobIDs
    BY DEF FindingsInv, Unhandled, ListingInv
<1>3. now \in Nat
    BY <1>1 DEF ClusterInv
<1>4. /\ memory' = [id \in JobIDs |-> memory'[id]]
      /\ \A id \in JobIDs :
            /\ IsState(memory'[id])
            /\ memory'[id].startTime = memory[id].startTime
            /\ memory'[id].lastVerdict = memory[id].lastVerdict
            /\ \/ memory'[id].drainConfirmedAt = memory[id].drainConfirmedAt
               \/ id = f.id /\ memory'[id].drainConfirmedAt = now
    BY <1>1, <1>2, Confirms
<1>5. ClusterInv' /\ ListingInv'
    BY <1>1 DEF ClusterInv, ListingInv
<1>6. MemoryInv'
    BY <1>1, <1>3, <1>4 DEF MemoryInv
<1>7. \A g \in queue' : g \in Unhandled /\ g.id # f.id /\ g.id \in JobIDs
    BY <1>1, <1>2 DEF FindingsInv, Unhandled, ListingInv
<1>8. FindingsInv'
    BY <1>1, <1>4, <1>7 DEF FindingsInv, Unhandled
<1>9. UnderWay' /\ Confirmed' /\ CancelFollowsDrain'
    BY <1>1 DEF UnderWay, Confirmed, CancelFollowsDrain
<1> QED
    BY <1>5, <1>6, <1>8, <1>9

LEMMA BeginDrainDrains ==
    ASSUME DrainsInv, NEW f \in queue, BeginDrain(f)
    PROVE  DrainsInv'
<1> USE DEF DrainsInv
<1>1. /\ queue' = queue \ {f} /\ draining.left = {}
      /\ f.verdict = Drain /\ ~f.drainConfirmed
      /\ draining' = [job |-> f, left |-> f.nodes]
      /\ phase = "acting"
      /\ UNCHANGED <<site, clock, cluster, drained, done, phase, now, listing, memory>>
    BY DEF BeginDrain, Handles, env
<1>2. ClusterInv' /\ MemoryInv' /\ ListingInv'
    BY <1>1 DEF ClusterInv, MemoryInv, ListingInv
<1>3. draining'.job = f /\ draining'.left = f.nodes
    BY <1>1
<1>4. Unhandled' \subseteq Unhandled
    BY <1>1, <1>3 DEF Unhandled
<1>5. FindingsInv'
    BY <1>1, <1>3, <1>4 DEF FindingsInv
<1>6. UnderWay'
    BY <1>3 DEF UnderWay
<1>7. Confirmed' /\ CancelFollowsDrain'
    BY <1>1 DEF Confirmed, Held, CancelFollowsDrain
<1> QED
    BY <1>2, <1>5, <1>6, <1>7

LEMMA DrainFailsDrains ==
    ASSUME DrainsInv, NEW n \in draining.left, DrainFails(n)
    PROVE  DrainsInv'
<1> USE DEF DrainsInv
<1>1. /\ drained \subseteq drained' /\ draining' = NoDrain /\ queue' = queue
      /\ UNCHANGED <<site, clock, cluster, done, phase, now, listing, memory>>
    BY DEF DrainFails, LeftToHandle
<1>2. ClusterInv' /\ MemoryInv' /\ ListingInv'
    BY <1>1 DEF ClusterInv, MemoryInv, ListingInv
<1>3. draining'.left = {} /\ draining' = [job |-> draining'.job, left |-> draining'.left]
    BY <1>1 DEF NoDrain
<1>4. Unhandled' \subseteq Unhandled
    BY <1>1, <1>3 DEF Unhandled
<1>5. FindingsInv'
    BY <1>1, <1>3, <1>4 DEF FindingsInv
<1>6. UnderWay' /\ CancelFollowsDrain'
    BY <1>1, <1>3 DEF UnderWay, CancelFollowsDrain
<1>7. Confirmed'
    BY <1>1 DEF Confirmed, Held
<1> QED
    BY <1>2, <1>5, <1>6, <1>7

(* A node is drained; with the last one the drain is confirmed.            *)
LEMMA DrainNodeDrains ==
    ASSUME DrainsInv, NEW n \in draining.left, DrainNode(n)
    PROVE  DrainsInv'
<1> USE DEF DrainsInv
<1> DEFINE f    == draining.job
           left == draining.left \ {n}
<1>1. /\ drained' = drained \cup {n}
      /\ done' = IF cluster[f.id].start = f.start
                 THEN [done EXCEPT ![f.id][n] = now] ELSE done
      /\ memory' = ConfirmedAfter(f, left)
      /\ draining' = IF left = {} THEN NoDrain ELSE [draining EXCEPT !.left = left]
      /\ UNCHANGED <<site, clock, cluster, phase, now, listing, queue>>
    BY DEF DrainNode
<1>2. f \in Unhandled /\ f \notin queue /\ phase = "acting"
    BY DEF FindingsInv, Unhandled
<1>3. PICK j \in listing : f.id = j.id /\ f.start = j.start /\ f.nodes = j.nodes
    BY <1>2 DEF FindingsInv
<1>4. /\ f.id \in JobIDs /\ f.nodes \subseteq AllNodes
      /\ n \in f.nodes
      /\ draining.left \subseteq f.nodes
    BY <1>3 DEF ListingInv, FindingsInv
<1>5. now \in Nat
    BY <1>2 DEF ClusterInv
<1>6. /\ \A id \in JobIDs \ {f.id} : done'[id] = done[id]
      /\ \A k \in AllNodes \ {n} : done'[f.id][k] = done[f.id][k]
      /\ f.start = cluster[f.id].start => done'[f.id][n] = now
    BY <1>1, <1>4 DEF ClusterInv
<1>7. ClusterInv'
    <2>1. [done EXCEPT ![f.id][n] = now] \in [JobIDs -> [AllNodes -> Nat \cup {None}]]
        BY <1>4, <1>5 DEF ClusterInv
    <2> QED
        BY <1>1, <2>1 DEF ClusterInv
<1>8. ListingInv'
    BY <1>1 DEF ListingInv
<1>9. \A g \in queue : g.id # f.id /\ g.id \in JobIDs /\ g \in Unhandled
    BY <1>2 DEF FindingsInv, Unhandled, ListingInv
<1>10. /\ memory' = [id \in JobIDs |-> memory'[id]]
       /\ \A id \in JobIDs :
             /\ IsState(memory'[id])
             /\ memory'[id].startTime = memory[id].startTime
             /\ memory'[id].lastVerdict = memory[id].lastVerdict
             /\ \/ memory'[id].drainConfirmedAt = memory[id].drainConfirmedAt
                \/ /\ left = {}
                   /\ id = f.id
                   /\ memory'[id].startTime = f.start
                   /\ memory'[id].drainConfirmedAt = now
    <2>1. CASE left = {}
        BY <1>1, <1>2, <1>4, <2>1, Confirms DEF ConfirmedAfter
    <2>2. CASE left # {}
        BY <1>1, <2>2 DEF ConfirmedAfter, MemoryInv
    <2> QED
        BY <2>1, <2>2
<1>11. MemoryInv'
    BY <1>1, <1>5, <1>10 DEF MemoryInv
<1>12. /\ left = {} => draining' = NoDrain
       /\ left # {} => draining'.job = f /\ draining'.left = left
       /\ draining' = [job |-> draining'.job, left |-> draining'.left]
    BY <1>1 DEF FindingsInv, NoDrain
<1>13. draining'.left = left
    BY <1>12 DEF NoDrain
<1>14. FindingsInv'
    <2>1. Unhandled' \subseteq Unhandled
        BY <1>1, <1>2, <1>12, <1>13 DEF Unhandled
    <2>2. \A g \in Unhandled' :
             g.verdict = Drain /\ ~g.drainConfirmed => memory'[g.id].drainConfirmedAt = None
        <3> SUFFICES ASSUME NEW g \in Unhandled', g.verdict = Drain, ~g.drainConfirmed
                     PROVE  memory'[g.id].drainConfirmedAt = None
            OBVIOUS
        <3>1. g.id \in JobIDs /\ memory[g.id].drainConfirmedAt = None
            BY <2>1 DEF FindingsInv, ListingInv
        <3>2. CASE left # {}
            BY <1>10, <3>1, <3>2
        <3>3. CASE left = {}
            <4>1. g \in queue
                BY <1>1, <1>13, <3>3 DEF Unhandled
            <4> QED
                BY <1>9, <1>10, <3>1, <4>1
        <3> QED
            BY <3>2, <3>3
    <2> HIDE DEF f, left
    <2>3. left \subseteq draining.left
        BY DEF left
    <2>4. draining'.left # {} => draining'.job = draining.job
        BY <1>12, <1>13 DEF f
    <2> QED
        BY <1>1, <1>2, <1>12, <1>13, <2>1, <2>2, <2>3, <2>4 DEF FindingsInv
<1>15. ASSUME site.enforce, NEW k \in f.nodes, k \notin left
       PROVE  /\ k \in drained'
              /\ f.start = cluster[f.id].start => done'[f.id][k] = now
    <2>1. CASE k = n
        BY <1>1, <1>6, <2>1
    <2>2. CASE k # n
        BY <1>1, <1>4, <1>6, <1>15, <2>2 DEF UnderWay
    <2> QED
        BY <2>1, <2>2
<1>16. UnderWay'
    BY <1>1, <1>12, <1>13, <1>15 DEF UnderWay
<1>17. Confirmed'
    <2>0. \A id \in JobIDs : Held(id)' = Held(id)
        BY <1>1 DEF Held
    <2> SUFFICES ASSUME site.enforce, NEW id \in JobIDs,
                        memory'[id].drainConfirmedAt # None,
                        memory'[id].startTime = cluster[id].start,
                        NEW k \in Held(id)
                 PROVE  k \in drained' /\ done'[id][k] = memory'[id].drainConfirmedAt
        BY <1>1, <2>0 DEF Confirmed
    <2>1. CASE memory'[id].drainConfirmedAt = memory[id].drainConfirmedAt
        <3>1. k \in drained /\ done[id][k] = memory[id].drainConfirmedAt
            BY <1>10, <2>1 DEF Confirmed
        <3>2. id # f.id
            BY <1>2, <2>1 DEF FindingsInv
        <3> QED
            BY <1>1, <1>6, <2>1, <3>1, <3>2
    <2>2. CASE /\ left = {} /\ id = f.id
               /\ memory'[id].startTime = f.start
               /\ memory'[id].drainConfirmedAt = now
        <3>1. k \in f.nodes
            BY <1>3, <2>2 DEF Held, ListingInv
        <3> QED
            BY <1>15, <2>2, <3>1
    <2> QED
        BY <1>10, <2>1, <2>2
<1>18. CancelFollowsDrain'
    BY <1>1, <1>6, <1>9 DEF CancelFollowsDrain
<1> QED
    BY <1>7, <1>8, <1>11, <1>14, <1>16, <1>17, <1>18

-----------------------------------------------------------------------------
LEMMA NextDrains == DrainsInv /\ [Next]_vars => DrainsInv'
<1> SUFFICES ASSUME DrainsInv, [Next]_vars PROVE DrainsInv'
    OBVIOUS
<1>1. CASE Tick
    BY <1>1, TickDrains
<1>2. ASSUME NEW id \in site.jobs, JobEnds(id) PROVE DrainsInv'
    BY <1>2, JobEndsDrains DEF JobEnds, Running
<1>3. ASSUME NEW id \in site.jobs, NEW where \in Placements, JobStarts(id, where)
      PROVE  DrainsInv'
    BY <1>3, JobStartsDrains DEF DrainsInv, ClusterInv
<1>4. CASE List \/ ListFails
    BY <1>4, ListDrains, ListFailsDrains
<1>5. CASE SampleNodes
    BY <1>5, SampleDrains
<1>6. CASE SampleFails \/ Restart
    BY <1>6, CycleEndsDrains
<1>7. CASE Act
    <2>1. ASSUME NEW f \in queue, Notify(f) \/ DryDrain(f) \/ BeginDrain(f) \/ CancelJob(f)
          PROVE  DrainsInv'
        BY <2>1, NotifyDrains, DryDrainDrains, BeginDrainDrains
    <2>2. ASSUME NEW n \in draining.left, DrainNode(n) \/ DrainFails(n) PROVE DrainsInv'
        BY <2>2, DrainNodeDrains, DrainFailsDrains
    <2>3. CASE Finish
        BY <2>3, CycleEndsDrains
    <2> QED
        BY <1>7, <2>1, <2>2, <2>3 DEF Act
<1>8. CASE UNCHANGED vars
    BY <1>8, StutterDrains
<1> QED
    BY <1>1, <1>2, <1>3, <1>4, <1>5, <1>6, <1>7, <1>8 DEF Next

(* Whatever fails, restarts or is requeued: what the daemon believes of    *)
(* its drains is so (ClusterActor.drain, ConfirmDrain, Evaluate).          *)
THEOREM DrainsInvariant == Spec => []DrainsInv
BY InitDrains, NextDrains, PTL DEF Spec

(* A drain that the engine believes in was carried out on every node of    *)
(* the job (ClusterActor.drain, cycle's ConfirmDrain).                     *)
THEOREM ConfirmedCorrect == Spec => []ConfirmedIsDrained
<1>1. DrainsInv => ConfirmedIsDrained
    BY DEF DrainsInv, Confirmed, Held, ConfirmedIsDrained
<1> QED
    BY <1>1, DrainsInvariant, PTL

(* A cancel that is about to be made follows a drain of all the job's      *)
(* nodes, made in one cycle for this very incarnation and a Window ago     *)
(* (Evaluate's ladder, ClusterActor.cancel).                               *)
THEOREM CancelCorrect == Spec => []CancelFollowsDrain
<1>1. DrainsInv => CancelFollowsDrain
    BY DEF DrainsInv
<1> QED
    BY <1>1, DrainsInvariant, PTL

-----------------------------------------------------------------------------
(***************************************************************************)
(* The types of what DrainsInv does not speak of.                          *)
(***************************************************************************)
TypesInv ==
    /\ began \in Time
    /\ drained \subseteq AllNodes
    /\ phase \in {"wait", "listed", "acting"}
    /\ \A f \in Unhandled : f.verdict \in Alert .. Cancel

(* A verdict to act upon is one of the ladder's (Evaluate).                *)
LEMMA FoundVerdict ==
    ASSUME NEW s, NEW j, NEW r, JudgedAs(s, j, r), r.finding.verdict >= Alert
    PROVE  r.finding.verdict \in Alert .. Cancel
BY DEF JudgedAs, Climbed, FirstRungs, Healthy, Watching, Alert, Cancel

LEMMA SampleTypes ==
    ASSUME DrainsInv, SampleNodes PROVE \A f \in Unhandled' : f.verdict \in Alert .. Cancel
<1>1. PICK read, label :
        queue' = {f \in {ToHandle(j, Judged(j, read, label).finding) : j \in InScope} :
                    f.verdict >= Alert}
    BY SampleEffect DEF SampledAs
<1>2. draining'.left = {}
    BY DEF SampleNodes, DrainsInv, FindingsInv
<1>3. ASSUME NEW f \in queue' PROVE f.verdict \in Alert .. Cancel
    <2>1. PICK j \in InScope : f = ToHandle(j, Judged(j, read, label).finding)
        BY <1>1
    <2> DEFINE r == Judged(j, read, label)
    <2>2. JudgedAs(memory[j.id], j, r)
        BY Judges DEF InScope
    <2> HIDE DEF r
    <2>3. f.verdict = r.finding.verdict /\ f.verdict >= Alert
        BY <1>1, <2>1 DEF ToHandle, r
    <2> QED
        BY <2>2, <2>3, FoundVerdict
<1> QED
    BY <1>2, <1>3 DEF Unhandled

LEMMA NextTypes == DrainsInv /\ DrainsInv' /\ TypesInv /\ [Next]_vars => TypesInv'
<1> SUFFICES ASSUME DrainsInv, DrainsInv', TypesInv, [Next]_vars PROVE TypesInv'
    OBVIOUS
<1> USE DEF TypesInv
<1>1. clock \in Nat
    BY DEF DrainsInv, ClusterInv
<1>2. draining.left \subseteq AllNodes
    BY DEF DrainsInv, FindingsInv, ListingInv, Unhandled
<1>3. CASE Tick \/ UNCHANGED vars
    BY <1>3 DEF Tick, vars, env, daemon, Unhandled
<1>4. ASSUME NEW id, JobEnds(id) \/ \E where \in Placements : JobStarts(id, where)
      PROVE  TypesInv'
    BY <1>4 DEF JobEnds, JobStarts, daemon, Unhandled
<1>5. CASE List \/ ListFails
    BY <1>1, <1>5 DEF List, ListFails, env, Time, Unhandled
<1>6. CASE SampleNodes
    BY <1>6, SampleTypes DEF SampleNodes, env
<1>7. CASE SampleFails \/ Finish \/ Restart
    BY <1>7 DEF SampleFails, Finish, Restart, EndCycle, env, Unhandled, NoDrain
<1>8. ASSUME NEW f \in queue, Notify(f) \/ DryDrain(f) \/ CancelJob(f) PROVE TypesInv'
    BY <1>8 DEF Notify, DryDrain, CancelJob, Handles, env, Unhandled
<1>9. ASSUME NEW f \in queue, BeginDrain(f) PROVE TypesInv'
    <2>1. /\ queue' = queue \ {f} /\ draining'.job = f
          /\ UNCHANGED <<began, drained, phase>>
        BY <1>9 DEF BeginDrain, Handles, env
    <2> QED
        BY <2>1 DEF Unhandled
<1>10. ASSUME NEW n \in draining.left, DrainFails(n) PROVE TypesInv'
    BY <1>2, <1>10 DEF DrainFails, LeftToHandle, Unhandled, NoDrain
<1>11. ASSUME NEW n \in draining.left, DrainNode(n) PROVE TypesInv'
    <2>1. draining = [job |-> draining.job, left |-> draining.left]
        BY DEF DrainsInv, FindingsInv
    <2>2. /\ draining'.left = {} \/ draining'.job = draining.job
          /\ drained' = drained \cup {n}
          /\ UNCHANGED <<began, phase, queue>>
        BY <1>11, <2>1 DEF DrainNode, NoDrain
    <2> QED
        BY <1>2, <2>2 DEF Unhandled
<1> QED
    BY <1>3, <1>4, <1>5, <1>6, <1>7, <1>8, <1>9, <1>10, <1>11 DEF Next, Act

(* The daemon and the cluster stay within their types, for any jobs, nodes *)
(* and deployment; what is to be handled is a finding of a job of the      *)
(* cycle's listing, with a verdict to act upon (reaper.cycle).             *)
THEOREM ReaperTypes == Spec => []TypeOK
<1>1. Init => TypesInv
    BY DEF Init, TypesInv, Time, Unhandled, NoDrain
<1>2. DrainsInv /\ TypesInv => TypeOK
    <2> SUFFICES ASSUME DrainsInv, TypesInv PROVE TypeOK
        OBVIOUS
    <2> USE DEF DrainsInv, TypesInv
    <2>1. /\ {clock, began, now} \subseteq Time
          /\ cluster \in [JobIDs -> [start : Time, nodes : SUBSET AllNodes]]
        BY DEF ClusterInv, Time
    <2>2. \A j \in listing : j.id \in JobIDs /\ j.start \in Time /\ j.nodes \subseteq AllNodes
        BY DEF ListingInv, Time
    <2>3. \A id \in JobIDs : memory[id].startTime \in Time /\ memory[id].lastVerdict \in Verdicts
        BY DEF MemoryInv, Time
    <2>4. /\ \A f \in Unhandled : f.id \in JobIDs /\ f.start \in Time /\ f.nodes \subseteq AllNodes
          /\ draining.left \subseteq AllNodes
          /\ phase # "acting" => Unhandled = {}
        BY <2>2 DEF FindingsInv, Unhandled
    <2> QED
        BY <2>1, <2>2, <2>3, <2>4 DEF TypeOK
<1> QED
    BY <1>1, <1>2, DrainsInvariant, NextTypes, PTL DEF Spec

-----------------------------------------------------------------------------
(***************************************************************************)
(* Whose readings a finding rests on: NothingOverlooked, NeverShared and   *)
(* OwnReadings.  They compare findings with everything that was read of a  *)
(* node; what ties the two is that, from the oldest sample of a node that  *)
(* the engine keeps of a job onwards, everything read of this node is kept *)
(* as well (SightInv), since a cycle that cannot keep it drops the job.    *)
(***************************************************************************)
ReadsInv == \A n \in AllNodes : \A r \in reads[n] : r.at \in Nat /\ r.at <= now

(* A reading of a node, and the job's sample that was made of it.          *)
KeptAs(r, id, u) ==
    /\ u.at = r.at
    /\ r.work <=> ~Judgeable(u.read) \/ AtWork(u.read)
    /\ "reject" \notin site.faults => r.tenants = 1
    /\ site.labels => r.by = {} \/ id \in r.by

(* The state is of the job's last start, or of the start that was listed.  *)
Met(id) ==
    \/ memory[id].startTime = cluster[id].start
    \/ \E j \in listing : j.id = id /\ j.start = memory[id].startTime

SightInv ==
    \A id \in JobIDs : Met(id) =>
        \A s \in memory[id].samples : \A r \in reads[s.node] :
            s.at <= r.at => \E u \in OfNode(memory[id].samples, s.node) : KeptAs(r, id, u)

(* Samples come from the nodes of their start, after its warmup.           *)
PlacedInv ==
    \A id \in JobIDs : \A s \in memory[id].samples :
        /\ s.at \in Nat /\ s.at <= clock
        /\ memory[id].startTime # None /\ memory[id].startTime + Warmup <= s.at
        /\ s.node \in AllNodes
        /\ memory[id].startTime = cluster[id].start =>
              cluster[id].nodes = {} \/ s.node \in cluster[id].nodes
        /\ \A j \in listing : j.id = id /\ j.start = memory[id].startTime => s.node \in j.nodes

(* What a listing knows: the nodes of a start, how many jobs each node has *)
(* (unless a record was refused), and every job the engine remembers.      *)
ListedInv ==
    /\ \A j \in listing : j.start = cluster[j.id].start => cluster[j.id].nodes \in {{}, j.nodes}
    /\ phase = "listed" =>
          /\ now < clock
          /\ "reject" \notin site.faults =>
                \A n \in AllNodes : tenants[n] = Cardinality({k \in listing : n \in k.nodes})
          /\ \A id \in JobIDs : memory[id].samples # {} =>
                \E j \in listing : j.id = id /\ memory[id].startTime <= j.start

FoundInv == NothingOverlooked /\ NeverShared /\ OwnReadings

TenancyInv == ReadsInv /\ SightInv /\ PlacedInv /\ ListedInv /\ FoundInv

LEMMA InitTenancy == Init => TenancyInv
<1> SUFFICES ASSUME Init PROVE TenancyInv
    OBVIOUS
<1>1. \A id \in JobIDs : memory[id].samples = {}
    BY DEF Init, NoState, FreshState
<1>2. ReadsInv /\ SightInv /\ PlacedInv
    BY <1>1 DEF Init, ReadsInv, SightInv, PlacedInv
<1>3. ListedInv
    BY DEF Init, ListedInv
<1>4. FoundInv
    BY DEF Init, FoundInv, NothingOverlooked, NeverShared, OwnReadings
<1> QED
    BY <1>2, <1>3, <1>4 DEF TenancyInv

(* What the steps have in common that neither list nor sample: nothing is  *)
(* read, listed or found, and samples are kept or dropped.                 *)
Slurms(id) ==
    \/ cluster'[id] = cluster[id]
    \/ cluster'[id].start = cluster[id].start /\ cluster'[id].nodes = {}
    \/ cluster'[id].start > cluster[id].start /\ cluster'[id].start = clock

Keeps(id) ==
    \/ memory'[id].samples = {}
    \/ memory'[id].samples = memory[id].samples /\ memory'[id].startTime = memory[id].startTime

LEMMA QuietTenancy ==
    ASSUME DrainsInv, TenancyInv,
           UNCHANGED <<site, reads, now>>, clock' \in {clock, clock + 1},
           listing' \subseteq listing, queue' \subseteq queue,
           \A id \in JobIDs : Slurms(id) /\ Keeps(id),
           phase' # "listed" \/ UNCHANGED <<phase, listing, tenants>>
    PROVE  TenancyInv'
<1> USE DEF TenancyInv
<1>1. clock \in Nat
    BY DEF DrainsInv, ClusterInv
<1>2. \A id \in JobIDs : /\ memory[id].startTime \in Int /\ cluster[id].start \in Int
                         /\ memory[id].startTime <= cluster[id].start
    BY DEF DrainsInv, ClusterInv, MemoryInv, None
<1>3. \A j \in listing : j.id \in JobIDs /\ j.start \in Int /\ j.start <= cluster[j.id].start
    BY DEF DrainsInv, ListingInv, None
<1>4. ASSUME NEW id \in JobIDs, memory'[id].samples # {}
      PROVE  /\ memory'[id].samples = memory[id].samples
             /\ memory'[id].startTime = memory[id].startTime
             /\ memory'[id].startTime = cluster'[id].start =>
                   /\ memory[id].startTime = cluster[id].start
                   /\ cluster'[id].nodes \in {{}, cluster[id].nodes}
    BY <1>1, <1>2, <1>4 DEF Slurms, Keeps
<1>5. ReadsInv'
    BY DEF ReadsInv
<1>6. SightInv'
    <2> SUFFICES ASSUME NEW id \in JobIDs, Met(id)', NEW s \in memory'[id].samples,
                        NEW r \in reads[s.node], s.at <= r.at
                 PROVE  \E u \in OfNode(memory'[id].samples, s.node) : KeptAs(r, id, u)'
        BY DEF SightInv
    <2>1. memory'[id].samples = memory[id].samples /\ Met(id)
        BY <1>4 DEF Met
    <2>2. PICK u \in OfNode(memory[id].samples, s.node) : KeptAs(r, id, u)
        BY <2>1 DEF SightInv
    <2> QED
        BY <2>1, <2>2 DEF KeptAs
<1>7. PlacedInv'
    <2> SUFFICES ASSUME NEW id \in JobIDs, NEW s \in memory'[id].samples
                 PROVE  /\ s.at \in Nat /\ s.at <= clock'
                        /\ memory'[id].startTime # None /\ memory'[id].startTime + Warmup <= s.at
                        /\ s.node \in AllNodes
                        /\ memory'[id].startTime = cluster'[id].start =>
                              cluster'[id].nodes = {} \/ s.node \in cluster'[id].nodes
                        /\ \A j \in listing' : j.id = id /\ j.start = memory'[id].startTime =>
                              s.node \in j.nodes
        BY DEF PlacedInv
    <2>1. s \in memory[id].samples /\ memory'[id].startTime = memory[id].startTime
        BY <1>4
    <2>2. /\ s.at \in Nat /\ s.at <= clock
          /\ memory[id].startTime # None /\ memory[id].startTime + Warmup <= s.at
          /\ s.node \in AllNodes
          /\ memory[id].startTime = cluster[id].start =>
                cluster[id].nodes = {} \/ s.node \in cluster[id].nodes
          /\ \A j \in listing : j.id = id /\ j.start = memory[id].startTime => s.node \in j.nodes
        BY <2>1 DEF PlacedInv
    <2>3. memory'[id].startTime = cluster'[id].start =>
             cluster'[id].nodes = {} \/ s.node \in cluster'[id].nodes
        BY <1>4, <2>2
    <2> QED
        BY <1>1, <2>1, <2>2, <2>3
<1>8. ListedInv'
    <2>1. \A j \in listing' : j.start = cluster'[j.id].start => cluster'[j.id].nodes \in {{}, j.nodes}
        <3> SUFFICES ASSUME NEW j \in listing, j.start = cluster'[j.id].start
                     PROVE  cluster'[j.id].nodes \in {{}, j.nodes}
            OBVIOUS
        <3>1. j.start \in Int /\ j.start <= cluster[j.id].start /\ Slurms(j.id)
            BY <1>3
        <3>2. j.start = cluster[j.id].start => cluster[j.id].nodes \in {{}, j.nodes}
            BY DEF ListedInv
        <3>3. cluster[j.id].start \in Int
            BY <1>2, <1>3
        <3> QED
            BY <3>1, <3>2, <3>3 DEF Slurms
    <2>2. CASE phase' # "listed"
        BY <2>1, <2>2 DEF ListedInv
    <2>3. CASE UNCHANGED <<phase, listing, tenants>>
        <3>1. phase = "listed" => now < clock'
            BY <1>1 DEF DrainsInv, ClusterInv, ListedInv, None
        <3>2. \A id \in JobIDs : memory'[id].samples # {} =>
                 memory[id].samples # {} /\ memory'[id].startTime = memory[id].startTime
            BY <1>4
        <3> QED
            BY <2>1, <2>3, <3>1, <3>2 DEF ListedInv
    <2> QED
        BY <2>2, <2>3
<1>9. FoundInv'
    BY DEF FoundInv, NothingOverlooked, NeverShared, OwnReadings, Evidenced
<1> QED
    BY <1>5, <1>6, <1>7, <1>8, <1>9

(* The listing counts the jobs of a node, if it refuses no record.         *)
LEMMA CountedTenants ==
    ASSUME NEW n, NEW told, told = {Listed(id) : id \in Running}
    PROVE  Cardinality(On(n)) = Cardinality({k \in told : n \in k.nodes})
<1> DEFINE T == {k \in told : n \in k.nodes}
           f == [id \in On(n) |-> Listed(id)]
<1>1. \A id \in JobIDs : Listed(id).id = id /\ Listed(id).nodes = cluster[id].nodes
    BY DEF Listed
<1>2. On(n) \subseteq Running /\ Running \subseteq JobIDs
    BY DEF On, Running
<1>3. f \in [On(n) -> T]
    BY <1>1, <1>2 DEF On
<1>4. ASSUME NEW k \in T PROVE \E id \in On(n) : f[id] = k
    <2>1. PICK id \in Running : k = Listed(id)
        OBVIOUS
    <2>2. id \in On(n)
        BY <1>1, <1>2, <2>1 DEF On
    <2> QED
        BY <2>1, <2>2
<1>5. \A id, other \in On(n) : f[id] = f[other] => id = other
    BY <1>1, <1>2
<1> HIDE DEF f
<1>6. f \in Bijection(On(n), T)
    BY <1>3, <1>4, <1>5 DEF Bijection, Injection, Surjection, IsInjective
<1>7. IsFiniteSet(On(n))
    BY <1>2, FS_Subset, ReaperAssumption
<1> QED
    BY <1>6, <1>7, FS_Bijection DEF ExistsBijection

LEMMA ListTenancy ==
    ASSUME DrainsInv, TenancyInv, List PROVE TenancyInv'
<1> USE DEF TenancyInv
<1>1. PICK refused \in IF "reject" \in site.faults THEN SUBSET Running ELSE {{}} :
        /\ listing' = {Listed(id) : id \in Running \ refused}
        /\ memory' = [id \in JobIDs |->
                         IF id \in Running \ refused THEN memory[id] ELSE NoState]
    BY DEF List
<1>2. /\ UNCHANGED <<site, clock, cluster, now, reads, queue>>
      /\ phase' = "listed" /\ queue = {}
      /\ now < clock
      /\ tenants' = [n \in AllNodes |-> Cardinality(On(n))]
    BY DEF List, env, DrainsInv, FindingsInv
<1>3. \A j \in listing' : /\ j.id \in Running /\ j = Listed(j.id)
                          /\ j.start = cluster[j.id].start /\ j.nodes = cluster[j.id].nodes
    BY <1>1 DEF Listed
<1>4. NoState.samples = {}
    BY DEF NoState, FreshState
<1>5. ASSUME NEW id \in JobIDs, memory'[id].samples # {}
      PROVE  /\ memory'[id] = memory[id]
             /\ Listed(id) \in listing' /\ Listed(id).id = id
             /\ Listed(id).start = cluster[id].start
    BY <1>1, <1>4, <1>5 DEF Listed
<1>6. ReadsInv'
    BY <1>2 DEF ReadsInv
<1>7. SightInv'
    <2> SUFFICES ASSUME NEW id \in JobIDs, Met(id)', NEW s \in memory'[id].samples,
                        NEW r \in reads[s.node], s.at <= r.at
                 PROVE  \E u \in OfNode(memory'[id].samples, s.node) : KeptAs(r, id, u)'
        BY <1>2 DEF SightInv
    <2>1. memory'[id] = memory[id] /\ Met(id)
        BY <1>2, <1>3, <1>5 DEF Met
    <2>2. PICK u \in OfNode(memory[id].samples, s.node) : KeptAs(r, id, u)
        BY <2>1 DEF SightInv
    <2> QED
        BY <1>2, <2>1, <2>2 DEF KeptAs
<1>8. PlacedInv'
    <2> SUFFICES ASSUME NEW id \in JobIDs, NEW s \in memory'[id].samples
                 PROVE  /\ s.at \in Nat /\ s.at <= clock
                        /\ memory'[id].startTime # None /\ memory'[id].startTime + Warmup <= s.at
                        /\ s.node \in AllNodes
                        /\ memory'[id].startTime = cluster[id].start =>
                              cluster[id].nodes = {} \/ s.node \in cluster[id].nodes
                        /\ \A j \in listing' : j.id = id /\ j.start = memory'[id].startTime =>
                              s.node \in j.nodes
        BY <1>2 DEF PlacedInv
    <2>1. s \in memory[id].samples /\ memory'[id] = memory[id]
        BY <1>5
    <2> QED
        BY <1>3, <2>1 DEF PlacedInv, Running
<1>9. ListedInv'
    <2>1. \A j \in listing' : cluster'[j.id].nodes = j.nodes
        BY <1>2, <1>3
    <2>2. ASSUME "reject" \notin site.faults, NEW n \in AllNodes
          PROVE  tenants'[n] = Cardinality({k \in listing' : n \in k.nodes})
        BY <1>1, <1>2, <2>2, CountedTenants
    <2>3. ASSUME NEW id \in JobIDs, memory'[id].samples # {}
          PROVE  \E j \in listing' : j.id = id /\ memory'[id].startTime <= j.start
        BY <1>5, <2>3 DEF DrainsInv, MemoryInv
    <2> QED
        BY <1>2, <2>1, <2>2, <2>3 DEF ListedInv
<1>10. FoundInv'
    BY <1>2 DEF FoundInv, NothingOverlooked, NeverShared, OwnReadings
<1> QED
    BY <1>6, <1>7, <1>8, <1>9, <1>10

(* The samples that a judgement of the job is made of.                     *)
Batch(j, read) ==
    {[seen |-> clock, at |-> clock, node |-> n, gpu |-> 0, read |-> read[n]] :
        n \in j.nodes \cap DOMAIN read}

Kept(j, read) == Observe(memory[j.id], j, Batch(j, read), clock).samples

LEMMA KeptSamples ==
    ASSUME DrainsInv, NEW j \in listing, NEW read
    PROVE  Kept(j, read) =
              {s \in (IF memory[j.id].startTime = j.start THEN memory[j.id].samples ELSE {})
                     \cup Admitted(j, Batch(j, read)) : s.at >= clock - Window}
<1>1. IsState(memory[j.id])
    BY DEF DrainsInv, MemoryInv, ListingInv
<1>2. CASE memory[j.id].startTime = j.start
    BY <1>1, <1>2 DEF Kept, Observe, StateOf, InWindow, IsState, Fields
<1>3. CASE memory[j.id].startTime # j.start
    BY <1>3 DEF Kept, Observe, StateOf, FreshState, InWindow
<1> QED
    BY <1>2, <1>3

(* Only a job whose node was not shared, silent or another's is judged.    *)
Usable(j, read, label) == ~Shared(j) /\ ~Missing(j, DOMAIN read) /\ ~Conflict(j, label)

LEMMA JudgedKeeps ==
    ASSUME DrainsInv, NEW j \in listing, NEW read, NEW label
    PROVE  LET r == Judged(j, read, label)
           IN  /\ \/ r.state.samples = {}
                  \/ /\ Usable(j, read, label)
                     /\ r.state.samples = Kept(j, read) /\ r.state.startTime = j.start
               /\ r.finding.verdict >= Watching =>
                     /\ Usable(j, read, label)
                     /\ Covered(Kept(j, read), j.nodes, j.gpuCount, clock)
                     /\ ~Alive(Kept(j, read))
<1> DEFINE r == Judged(j, read, label)
           o == Observe(memory[j.id], j, Batch(j, read), clock)
           Good(x) == /\ \/ x.state.samples = {}
                         \/ /\ Usable(j, read, label)
                            /\ x.state.samples = o.samples /\ x.state.startTime = j.start
                      /\ x.finding.verdict >= Watching =>
                            /\ Usable(j, read, label)
                            /\ Covered(o.samples, j.nodes, j.gpuCount, clock)
                            /\ ~Alive(o.samples)
<1>1. ASSUME ~Usable(j, read, label) PROVE Good(r)
    <2>1. r.state.samples = {} /\ r.finding.verdict = Healthy
        BY <1>1 DEF Usable, Judged, Dropped, Result, Nothing, NoState, FreshState
    <2> HIDE DEF r, o
    <2> QED
        BY <2>1 DEF Healthy, Watching
<1>2. ASSUME Usable(j, read, label) PROVE Good(r)
    <2>1. r = Evaluate(o, j, clock)
        BY <1>2 DEF Usable, Judged, Batch
    <2>2. IsState(o) /\ o.startTime = j.start
        BY ObserveIsState DEF DrainsInv, MemoryInv, ListingInv
    <2> HIDE DEF r, o
    <2> QED
        BY <1>2, <2>1, <2>2, EvaluateKeeps
<1>3. Good(r)
    BY <1>1, <1>2
<1> QED
    BY <1>3 DEF Kept

(* The samples of a judged job come from its nodes, after its warmup.      *)
LEMMA KeptPlaced ==
    ASSUME DrainsInv, TenancyInv, NEW j \in listing, NEW read,
           NEW s \in Kept(j, read)
    PROVE  /\ s.at \in Nat /\ s.at <= clock
           /\ j.start # None /\ j.start + Warmup <= s.at
           /\ s.node \in j.nodes /\ s.node \in AllNodes
           /\ s.at < clock => memory[j.id].startTime = j.start /\ s \in memory[j.id].samples
           /\ s.at >= clock - Window
<1>1. clock \in Nat /\ j.id \in JobIDs /\ j.nodes \subseteq AllNodes
    BY DEF DrainsInv, ClusterInv, ListingInv
<1>2. CASE memory[j.id].startTime = j.start /\ s \in memory[j.id].samples
    BY <1>1, <1>2, KeptSamples DEF TenancyInv, PlacedInv
<1>3. CASE s \in Admitted(j, Batch(j, read))
    <2>1. /\ s.at = clock /\ s.node \in j.nodes
          /\ j.start # None /\ s.at >= j.start + Warmup
        BY <1>3 DEF Admitted, Batch
    <2>2. j.start \in Int /\ Warmup \in Nat /\ Window \in Nat
        BY ThresholdsAssumption DEF DrainsInv, ListingInv, None
    <2> QED
        BY <1>1, <2>1, <2>2
<1> QED
    BY <1>2, <1>3, KeptSamples

LEMMA ListingFinite == ASSUME DrainsInv PROVE IsFiniteSet(listing)
<1> DEFINE f == [j \in listing |-> j.id]
<1>1. f \in Injection(listing, JobIDs)
    BY DEF DrainsInv, ListingInv, Injection, IsInjective
<1> QED
    BY <1>1, FS_Injection, ReaperAssumption

(* The only job of a node, as Shared counts.                               *)
LEMMA Alone ==
    ASSUME DrainsInv, NEW j \in listing, NEW n \in j.nodes,
           ~(Cardinality({k \in listing : n \in k.nodes}) > 1)
    PROVE  Cardinality({k \in listing : n \in k.nodes}) = 1
<1> DEFINE T == {k \in listing : n \in k.nodes}
<1>1. IsFiniteSet(T)
    BY ListingFinite, FS_Subset
<1>2. Cardinality(T) \in Nat /\ Cardinality(T) # 0
    BY <1>1, FS_CardinalityType, FS_EmptySet
<1> QED
    BY <1>2

(* From its oldest sample of a node onwards, everything read of the node   *)
(* is kept as a sample of the judged job.                                  *)
LEMMA KeptSight ==
    ASSUME DrainsInv, TenancyInv, phase = "listed", NEW j \in InScope,
           NEW read, NEW label, SampledAs(read, label), Usable(j, read, label),
           NEW s \in Kept(j, read), NEW r \in reads'[s.node], s.at <= r.at
    PROVE  \E u \in OfNode(Kept(j, read), s.node) : KeptAs(r, j.id, u)
<1> USE DEF TenancyInv
<1> DEFINE n == s.node
<1>0. j \in listing /\ j.id \in JobIDs
    BY DEF InScope, DrainsInv, ListingInv
<1>1. /\ s.at \in Nat /\ s.at <= clock
      /\ j.start # None /\ j.start + Warmup <= s.at
      /\ n \in j.nodes /\ n \in AllNodes
      /\ s.at < clock => memory[j.id].startTime = j.start /\ s \in memory[j.id].samples
    BY <1>0, KeptPlaced
<1>2. clock \in Nat /\ now \in Int /\ now < clock /\ Window \in Nat /\ Warmup \in Nat
    BY ThresholdsAssumption DEF DrainsInv, ClusterInv, ListedInv, None
<1>3. n \in DOMAIN read
    BY <1>1 DEF Usable, Missing
<1>4. r.at >= clock - Window /\ (r \in reads[n] \/ r = Seen(n, read))
    BY <1>1, <1>3 DEF SampledAs, Recent
<1>5. CASE r \in reads[n]
    <2>1. r.at \in Nat /\ r.at <= now
        BY <1>1, <1>5 DEF ReadsInv
    <2>2. memory[j.id].startTime = j.start /\ s \in memory[j.id].samples
        BY <1>1, <1>2, <2>1
    <2>3. PICK u \in OfNode(memory[j.id].samples, n) : KeptAs(r, j.id, u)
        BY <1>0, <1>5, <2>2 DEF SightInv, Met
    <2>4. u \in Kept(j, read)
        BY <1>0, <1>4, <2>2, <2>3, KeptSamples DEF KeptAs, OfNode
    <2> QED
        BY <2>3, <2>4 DEF OfNode
<1>6. CASE r = Seen(n, read)
    <2> DEFINE u == [seen |-> clock, at |-> clock, node |-> n, gpu |-> 0, read |-> read[n]]
    <2>1. u \in Kept(j, read)
        <3>1. u \in Batch(j, read)
            BY <1>1, <1>3 DEF Batch
        <3>2. j.start \in Nat
            BY <1>0, <1>1 DEF DrainsInv, ListingInv
        <3>3. u.at >= j.start + Warmup /\ u.at >= clock - Window
            BY <1>1, <1>2, <3>2
        <3>4. u \in Admitted(j, Batch(j, read))
            BY <1>1, <3>1, <3>3 DEF Admitted
        <3> QED
            BY <1>0, <3>3, <3>4, KeptSamples
    <2>2. r.at = u.at /\ (r.work <=> ~Judgeable(u.read) \/ AtWork(u.read))
        BY <1>6 DEF Seen
    <2>3. "reject" \notin site.faults => r.tenants = 1
        <3>1. ~(Cardinality({k \in listing : n \in k.nodes}) > 1)
            BY <1>1 DEF Usable, Shared
        <3>2. Cardinality({k \in listing : n \in k.nodes}) = 1
            BY <1>0, <1>1, <3>1, Alone
        <3> QED
            BY <1>1, <1>6, <3>2 DEF Seen, ListedInv
    <2>4. site.labels => r.by = {} \/ j.id \in r.by
        <3>1. r.by = On(n)
            BY <1>6 DEF Seen
        <3>2. site.labels => label[n] = On(n)
            BY <1>3 DEF SampledAs
        <3>3. ~(label[n] # {} /\ j.id \notin label[n])
            BY <1>1, <1>3 DEF Usable, Conflict, SampledAs
        <3> QED
            BY <3>1, <3>2, <3>3
    <2>5. KeptAs(r, j.id, u)
        BY <2>2, <2>3, <2>4 DEF KeptAs
    <2> QED
        BY <2>1, <2>5 DEF OfNode
<1> QED
    BY <1>4, <1>5, <1>6

(***************************************************************************)
(* The judgement: the engine keeps what the cycle read, and finds nothing  *)
(* that the readings contradict.                                           *)
(***************************************************************************)
LEMMA SampleMemory ==
    ASSUME DrainsInv, TenancyInv, NEW read, NEW label, SampledAs(read, label),
           NEW id \in JobIDs, memory'[id].samples # {}
    PROVE  \/ \E j \in InScope :
                 /\ j.id = id
                 /\ Usable(j, read, label)
                 /\ memory'[id].samples = Kept(j, read) /\ memory'[id].startTime = j.start
           \/ memory'[id] = memory[id] /\ ~(\E j \in InScope : j.id = id)
<1>1. CASE \E j \in InScope : j.id = id
    <2>1. PICK j \in InScope : j.id = id
        BY <1>1
    <2>2. memory'[id] = Judged(j, read, label).state
        BY <2>1 DEF SampledAs
    <2>3. j \in listing
        BY DEF InScope
    <2> QED
        BY <2>1, <2>2, <2>3, JudgedKeeps
<1>2. CASE ~(\E j \in InScope : j.id = id)
    BY <1>2 DEF SampledAs
<1> QED
    BY <1>1, <1>2

(* A node that only jobs out of scope have is not read.                    *)
LEMMA Unread ==
    ASSUME NEW j \in listing, j \notin InScope, NEW n \in j.nodes
    PROVE  n \notin Targets
BY DEF InScope, Targets

LEMMA SampleSight ==
    ASSUME DrainsInv, TenancyInv, SampleNodes PROVE SightInv'
<1> USE DEF TenancyInv
<1>1. PICK read, label : SampledAs(read, label)
    BY SampleEffect
<1>2. phase = "listed" /\ UNCHANGED <<site, cluster, listing>>
    BY DEF SampleNodes, env
<1> SUFFICES ASSUME NEW id \in JobIDs, Met(id)', NEW s \in memory'[id].samples,
                    NEW r \in reads'[s.node], s.at <= r.at
             PROVE  \E u \in OfNode(memory'[id].samples, s.node) : KeptAs(r, id, u)
    BY <1>2 DEF SightInv, KeptAs
<1>3. ASSUME NEW j \in InScope, j.id = id, Usable(j, read, label),
             memory'[id].samples = Kept(j, read)
      PROVE  \E u \in OfNode(memory'[id].samples, s.node) : KeptAs(r, id, u)
    BY <1>1, <1>2, <1>3, KeptSight
<1>4. ASSUME memory'[id] = memory[id], ~(\E j \in InScope : j.id = id)
      PROVE  \E u \in OfNode(memory'[id].samples, s.node) : KeptAs(r, id, u)
    <2>1. PICK j \in listing : j.id = id /\ memory[id].startTime <= j.start
        BY <1>2, <1>4 DEF ListedInv
    <2>2. Met(id)
        BY <1>2, <1>4 DEF Met
    <2>3. memory[id].startTime = j.start
        <3>1. CASE memory[id].startTime = cluster[id].start
            <4>1. /\ j.start \in Int /\ j.start <= cluster[id].start
                  /\ cluster[id].start \in Int
                BY <2>1 DEF DrainsInv, ListingInv, ClusterInv, None
            <4> QED
                BY <2>1, <3>1, <4>1
        <3>2. CASE \E k \in listing : k.id = id /\ k.start = memory[id].startTime
            BY <2>1, <3>2 DEF DrainsInv, ListingInv
        <3> QED
            BY <2>2, <3>1, <3>2 DEF Met
    <2>4. s.node \in j.nodes /\ s.node \in AllNodes
        BY <1>4, <2>1, <2>3 DEF PlacedInv
    <2>5. s.node \notin DOMAIN read
        BY <1>1, <1>4, <2>1, <2>4, Unread DEF SampledAs
    <2>6. r \in reads[s.node]
        BY <1>1, <2>4, <2>5 DEF SampledAs, Recent
    <2> QED
        BY <1>4, <2>2, <2>6 DEF SightInv
<1> QED
    BY <1>1, <1>3, <1>4, SampleMemory

LEMMA SamplePlaced ==
    ASSUME DrainsInv, TenancyInv, SampleNodes PROVE PlacedInv'
<1> USE DEF TenancyInv
<1>1. PICK read, label : SampledAs(read, label)
    BY SampleEffect
<1>2. UNCHANGED <<clock, cluster, listing>>
    BY DEF SampleNodes, env
<1> SUFFICES ASSUME NEW id \in JobIDs, NEW s \in memory'[id].samples
             PROVE  /\ s.at \in Nat /\ s.at <= clock
                    /\ memory'[id].startTime # None /\ memory'[id].startTime + Warmup <= s.at
                    /\ s.node \in AllNodes
                    /\ memory'[id].startTime = cluster[id].start =>
                          cluster[id].nodes = {} \/ s.node \in cluster[id].nodes
                    /\ \A j \in listing : j.id = id /\ j.start = memory'[id].startTime =>
                          s.node \in j.nodes
    BY <1>2 DEF PlacedInv
<1>3. ASSUME NEW j \in InScope, j.id = id, s \in Kept(j, read), memory'[id].startTime = j.start
      PROVE  /\ s.at \in Nat /\ s.at <= clock
             /\ memory'[id].startTime # None /\ memory'[id].startTime + Warmup <= s.at
             /\ s.node \in AllNodes
             /\ memory'[id].startTime = cluster[id].start =>
                   cluster[id].nodes = {} \/ s.node \in cluster[id].nodes
             /\ \A k \in listing : k.id = id /\ k.start = memory'[id].startTime =>
                   s.node \in k.nodes
    <2>1. j \in listing
        BY DEF InScope
    <2>2. /\ s.at \in Nat /\ s.at <= clock
          /\ j.start # None /\ j.start + Warmup <= s.at
          /\ s.node \in j.nodes /\ s.node \in AllNodes
        BY <1>3, <2>1, KeptPlaced
    <2>3. j.start = cluster[id].start => cluster[id].nodes \in {{}, j.nodes}
        BY <1>3, <2>1 DEF ListedInv
    <2>4. \A k \in listing : k.id = id => k = j
        BY <1>3, <2>1 DEF DrainsInv, ListingInv
    <2> QED
        BY <1>3, <2>2, <2>3, <2>4
<1>4. CASE memory'[id] = memory[id]
    BY <1>4 DEF PlacedInv
<1> QED
    BY <1>1, <1>3, <1>4, SampleMemory

LEMMA SampleFound ==
    ASSUME DrainsInv, TenancyInv, SampleNodes PROVE FoundInv'
<1> USE DEF TenancyInv
<1>1. PICK read, label : SampledAs(read, label)
    BY SampleEffect
<1>2. phase = "listed" /\ UNCHANGED site /\ now' = clock
    BY <1>1 DEF SampleNodes, SampledAs
<1>3. ASSUME NEW f \in queue', NEW n \in f.nodes, NEW r \in reads'[n], Evidenced(f, r.at)'
      PROVE  /\ ~r.work
             /\ "reject" \notin site.faults => r.tenants = 1
             /\ site.labels => r.by = {} \/ f.id \in r.by
    <2>1. PICK j \in InScope : f = ToHandle(j, Judged(j, read, label).finding)
        BY <1>1 DEF SampledAs
    <2>2. j \in listing /\ f.id = j.id /\ f.nodes = j.nodes
        BY <2>1 DEF ToHandle, InScope
    <2> DEFINE e == Judged(j, read, label)
    <2>3. e.finding.verdict >= Watching
        <3>1. JudgedAs(memory[j.id], j, e)
            BY <2>2, Judges
        <3>2. e.finding.verdict >= Alert
            BY <1>1, <2>1 DEF SampledAs, ToHandle
        <3> HIDE DEF e
        <3>3. e.finding.verdict \in Alert .. Cancel
            BY <3>1, <3>2, FoundVerdict
        <3> QED
            BY <3>3 DEF Alert, Cancel, Watching
    <2>4. /\ Usable(j, read, label)
          /\ Covered(Kept(j, read), j.nodes, j.gpuCount, clock)
          /\ ~Alive(Kept(j, read))
        BY <2>2, <2>3, JudgedKeeps
    <2>5. PICK s \in Kept(j, read) : s.node = n /\ s.at <= clock - Window + MaxSampleGap
        <3>1. ReachesBack(Kept(j, read), n, clock)
            BY <2>2, <2>4 DEF Covered
        <3> QED
            BY <3>1 DEF ReachesBack, Times, OfNode
    <2>6. s.at <= r.at
        <3>1. s.at \in Nat /\ clock \in Nat /\ n \in AllNodes
            BY <2>2, <2>5, KeptPlaced DEF DrainsInv, ClusterInv
        <3>2. r.at \in Nat
            BY <1>1, <3>1 DEF SampledAs, Recent, Seen, ReadsInv
        <3> QED
            BY <1>2, <1>3, <2>5, <3>1, <3>2, ThresholdsAssumption DEF Evidenced
    <2>7. PICK u \in OfNode(Kept(j, read), n) : KeptAs(r, j.id, u)
        BY <1>1, <1>2, <2>4, <2>5, <2>6, KeptSight
    <2>8. Judgeable(u.read) /\ ~AtWork(u.read)
        BY <2>4, <2>7 DEF Covered, AllJudgeable, Alive, OfNode
    <2> QED
        BY <2>2, <2>7, <2>8 DEF KeptAs
<1> QED
    BY <1>2, <1>3 DEF FoundInv, NothingOverlooked, NeverShared, OwnReadings

LEMMA SampleTenancy ==
    ASSUME DrainsInv, TenancyInv, SampleNodes PROVE TenancyInv'
<1>1. PICK read, label : SampledAs(read, label)
    BY SampleEffect
<1>2. /\ phase = "listed" /\ phase' = "acting" /\ now' = clock
      /\ UNCHANGED <<cluster, listing>>
    BY <1>1 DEF SampleNodes, SampledAs, env
<1>3. clock \in Nat /\ now \in Int /\ now < clock
    BY <1>2 DEF TenancyInv, ListedInv, DrainsInv, ClusterInv, None
<1>4. ReadsInv'
    BY <1>1, <1>2, <1>3 DEF TenancyInv, ReadsInv, SampledAs, Recent, Seen
<1>5. ListedInv'
    BY <1>2 DEF TenancyInv, ListedInv
<1> QED
    BY <1>4, <1>5, SampleSight, SamplePlaced, SampleFound DEF TenancyInv

-----------------------------------------------------------------------------
(* The other steps: each is one of the quiet ones, or lists.               *)
LEMMA NextTenancy == DrainsInv /\ TenancyInv /\ [Next]_vars => TenancyInv'
<1> SUFFICES ASSUME DrainsInv, TenancyInv, [Next]_vars PROVE TenancyInv'
    OBVIOUS
<1>1. CASE Tick \/ ListFails \/ UNCHANGED vars
    <2>1. /\ UNCHANGED <<site, cluster, phase, now, listing, memory, queue, tenants, reads>>
          /\ clock' \in {clock, clock + 1}
        BY <1>1 DEF Tick, ListFails, vars, env, daemon
    <2>2. \A id \in JobIDs : Slurms(id) /\ Keeps(id)
        BY <2>1 DEF Slurms, Keeps
    <2> QED
        BY <2>1, <2>2, QuietTenancy
<1>2. ASSUME NEW k \in site.jobs, JobEnds(k) \/ \E where \in Placements : JobStarts(k, where)
      PROVE  TenancyInv'
    <2>1. UNCHANGED <<site, clock, phase, now, listing, memory, queue, tenants, reads>>
        BY <1>2 DEF JobEnds, JobStarts, daemon
    <2>2. \A id \in JobIDs : Slurms(id)
        BY <1>2 DEF JobEnds, JobStarts, Slurms, DrainsInv, ClusterInv, None
    <2>3. \A id \in JobIDs : Keeps(id)
        BY <2>1 DEF Keeps
    <2> QED
        BY <2>1, <2>2, <2>3, QuietTenancy
<1>3. CASE List
    BY <1>3, ListTenancy
<1>4. CASE SampleNodes
    BY <1>4, SampleTenancy
<1>5. CASE SampleFails \/ Finish \/ Restart
    <2>1. /\ UNCHANGED <<site, clock, cluster, now, reads>>
          /\ listing' = {} /\ phase' = "wait" /\ queue' \subseteq queue
        BY <1>5 DEF SampleFails, Finish, Restart, EndCycle, env
    <2>2. \A id \in JobIDs : Slurms(id) /\ Keeps(id)
        BY <1>5, <2>1 DEF SampleFails, Finish, Restart, Slurms, Keeps, NoState, FreshState
    <2> QED
        BY <2>1, <2>2, QuietTenancy
<1>6. ASSUME /\ UNCHANGED <<site, clock, cluster, phase, now, listing, tenants, reads>>
             /\ queue' \subseteq queue
             /\ \/ memory' = memory
                \/ \E f \in Unhandled : phase = "acting" /\ memory' = Confirm(f)
      PROVE  TenancyInv'
    <2>1. \A f \in Unhandled : f.id \in JobIDs
        BY DEF DrainsInv, FindingsInv, ListingInv
    <2>2. \A id \in JobIDs : Slurms(id) /\ Keeps(id)
        BY <1>6, <2>1, Confirms DEF Slurms, Keeps
    <2> QED
        BY <1>6, <2>2, QuietTenancy
<1>7. ASSUME NEW f \in queue, Notify(f) \/ DryDrain(f) \/ BeginDrain(f) \/ CancelJob(f)
      PROVE  TenancyInv'
    <2>1. f \in Unhandled
        BY DEF Unhandled
    <2> QED
        BY <1>6, <1>7, <2>1 DEF Notify, DryDrain, BeginDrain, CancelJob, Handles, env
<1>8. ASSUME NEW n \in draining.left, DrainNode(n) \/ DrainFails(n) PROVE TenancyInv'
    <2>1. draining.job \in Unhandled /\ phase = "acting"
        BY DEF Unhandled, DrainsInv, FindingsInv
    <2> QED
        BY <1>6, <1>8, <2>1 DEF DrainNode, DrainFails, ConfirmedAfter, LeftToHandle
<1> QED
    BY <1>1, <1>2, <1>3, <1>4, <1>5, <1>7, <1>8 DEF Next, Act

THEOREM TenancyInvariant == Spec => []TenancyInv
BY InitTenancy, NextTenancy, DrainsInvariant, PTL DEF Spec

(* Whatever was read of a node while the breach lasted showed no work,     *)
(* also in cycles that did not judge the job (cycle's Drop calls).         *)
THEOREM NothingMissed == Spec => []NothingOverlooked
BY TenancyInvariant, PTL DEF TenancyInv, FoundInv

(* A finding rests on readings taken while its nodes had no other GPU job, *)
(* for any number of jobs and nodes (cycle's gpuJobsPerNode).              *)
THEOREM NoNeighbours == Spec => []NeverShared
BY TenancyInvariant, PTL DEF TenancyInv, FoundInv

(* With labels, no reading counts that is another job's                    *)
(* (attributionConflict).                                                  *)
THEOREM OnlyOwnReadings == Spec => []OwnReadings
BY TenancyInvariant, PTL DEF TenancyInv, FoundInv

-----------------------------------------------------------------------------
(***************************************************************************)
(* Reaper implements Ladder for each of its jobs.                          *)
(***************************************************************************)
Climbs(id) == L(id)!Next \/ UNCHANGED L(id)!vars

Opens(f) == f.verdict = Drain /\ ~f.drainConfirmed

LEMMA AskedWhen ==
    ASSUME NEW id
    PROVE  /\ (\E f \in Unhandled : f.id = id /\ Opens(f)) => Asked(id) = now
           /\ ~(\E f \in Unhandled : f.id = id /\ Opens(f)) => Asked(id) = None
BY Zenon DEF Asked, Opens

LEMMA AskedThen ==
    ASSUME NEW id
    PROVE  /\ (\E f \in Unhandled' : f.id = id /\ Opens(f)) => Asked(id)' = now'
           /\ ~(\E f \in Unhandled' : f.id = id /\ Opens(f)) => Asked(id)' = None
BY Zenon DEF Asked, Opens

(* Handling a finding, in whichever way, asks for nothing.                 *)
LEMMA AskedShrinks ==
    ASSUME Unhandled' \subseteq Unhandled, now' = now, NEW id
    PROVE  Asked(id)' \in {Asked(id), None}
BY AskedWhen, AskedThen

LEMMA KeptMaps ==
    ASSUME NEW id, clock' = clock, Asked(id)' \in {Asked(id), None},
           memory'[id].lastVerdict = memory[id].lastVerdict,
           memory'[id].drainConfirmedAt = memory[id].drainConfirmedAt
    PROVE  Climbs(id)
<1>1. CASE Asked(id)' = None
    <2>1. L(id)!Forgone
        BY <1>1 DEF L!Forgone, L!None, None
    <2> QED
        BY <2>1 DEF L!Next, Climbs
<1>2. CASE Asked(id)' = Asked(id)
    BY <1>2 DEF L!vars, Climbs
<1> QED
    BY <1>1, <1>2

LEMMA OverMaps ==
    ASSUME NEW id, clock' = clock, Asked(id)' = None,
           memory'[id].lastVerdict \in {Healthy, Watching, Alert},
           memory'[id].drainConfirmedAt = None
    PROVE  Climbs(id)
<1>1. L(id)!Over
    BY DEF L!Over, L!None, L!Healthy, L!Watching, L!Alert, None, Healthy, Watching, Alert
<1> QED
    BY <1>1 DEF L!Next, Climbs

(* The breach of a listed job goes on.                                     *)
LEMMA BreachMaps ==
    ASSUME NEW id, NEW v \in Watching .. Cancel, clock \in Nat, clock' = clock,
           memory[id].lastVerdict \in Verdicts,
           memory[id].drainConfirmedAt \in Nat \cup {None},
           memory'[id].lastVerdict = v,
           memory'[id].drainConfirmedAt = memory[id].drainConfirmedAt,
           Asked(id)' = IF v = Drain /\ memory[id].drainConfirmedAt = None
                        THEN clock ELSE None,
           v = Drain => ~(memory[id].lastVerdict < Alert),
           v = Cancel => /\ ~(memory[id].lastVerdict < Drain)
                         /\ memory[id].drainConfirmedAt # None
                         /\ ~(clock - memory[id].drainConfirmedAt < Window)
    PROVE  Climbs(id)
<1> USE DEF L!None, L!Healthy, L!Watching, L!Alert, L!Drain, L!Cancel,
            None, Healthy, Watching, Alert, Drain, Cancel, Verdicts
<1>1. CASE v \in {Watching, Alert}
    <2>1. L(id)!Warn
        BY <1>1 DEF L!Warn
    <2> QED
        BY <2>1 DEF L!Next, Climbs
<1>2. CASE v = Drain
    <2>1. L(id)!AskDrain
        BY <1>2 DEF L!AskDrain
    <2> QED
        BY <2>1 DEF L!Next, Climbs
<1>3. CASE v = Cancel
    <2>1. L(id)!AskCancel
        BY <1>3, ThresholdsAssumption DEF L!AskCancel
    <2> QED
        BY <2>1 DEF L!Next, Climbs
<1> QED
    BY <1>1, <1>2, <1>3

(* A drain whose outcome is open is confirmed, or is not.                  *)
LEMMA DrainedMaps ==
    ASSUME NEW id, clock' = clock, Asked(id)' = None, Asked(id) = now, now # None,
           memory'[id].lastVerdict = memory[id].lastVerdict,
           memory'[id].drainConfirmedAt \in {memory[id].drainConfirmedAt, now}
    PROVE  Climbs(id)
<1>1. CASE memory'[id].drainConfirmedAt = now
    <2>1. L(id)!Drained
        BY <1>1 DEF L!Drained, L!None, None
    <2> QED
        BY <2>1 DEF L!Next, Climbs
<1>2. CASE memory'[id].drainConfirmedAt = memory[id].drainConfirmedAt
    BY <1>2, KeptMaps
<1> QED
    BY <1>1, <1>2

-----------------------------------------------------------------------------
(* Slurm's steps, and those of the cycle that judge nothing.               *)
LEMMA TickMaps == ASSUME Tick, NEW id PROVE Climbs(id)
<1>1. UNCHANGED <<memory, now, queue, draining>> /\ clock' = clock + 1
    BY DEF Tick, daemon
<1>2. Unhandled' = Unhandled
    BY <1>1 DEF Unhandled
<1>3. Asked(id)' = Asked(id)
    BY <1>1, <1>2, Zenon DEF Asked
<1>4. L(id)!Tick
    BY <1>1, <1>3 DEF L!Tick
<1> QED
    BY <1>4 DEF L!Next, Climbs

LEMMA IdleMaps ==
    ASSUME UNCHANGED <<clock, memory, now>>, Unhandled' \subseteq Unhandled, NEW id
    PROVE  Climbs(id)
BY AskedShrinks, KeptMaps

LEMMA ForgetMaps ==
    ASSUME clock' = clock, queue' = {}, draining'.left = {}, NEW id,
           memory'[id] = NoState \/ memory'[id] = memory[id]
    PROVE  Climbs(id)
<1>1. Asked(id)' = None
    <2>1. Unhandled' = {}
        BY DEF Unhandled
    <2> QED
        BY <2>1, AskedThen
<1> QED
    BY <1>1, KeptMaps, OverMaps, NoStateForgets DEF OffLadder

(* The last step of a drain, or all of a dry one.                          *)
LEMMA HandledMaps ==
    ASSUME DrainsInv, phase = "acting", UNCHANGED <<clock, now>>,
           NEW f \in Unhandled, Opens(f), memory' = Confirm(f), Unhandled' = Unhandled \ {f},
           NEW id \in JobIDs
    PROVE  Climbs(id)
<1>1. now \in Nat /\ f.id \in JobIDs
    BY DEF DrainsInv, ClusterInv, FindingsInv, ListingInv
<1>2. /\ memory'[id].lastVerdict = memory[id].lastVerdict
      /\ \/ memory'[id].drainConfirmedAt = memory[id].drainConfirmedAt
         \/ id = f.id /\ memory'[id].drainConfirmedAt = now
    BY <1>1, Confirms
<1>3. CASE id = f.id
    <2>1. Asked(id) = now
        BY <1>3, AskedWhen
    <2>2. Asked(id)' = None
        <3>1. \A g \in Unhandled' : g.id # f.id
            BY DEF DrainsInv, FindingsInv
        <3> QED
            BY <1>3, <3>1, AskedThen
    <2>3. now # None
        BY <1>1 DEF None
    <2> QED
        BY <1>2, <2>1, <2>2, <2>3, DrainedMaps
<1>4. CASE id # f.id
    BY <1>2, <1>4, AskedShrinks, KeptMaps
<1> QED
    BY <1>3, <1>4

(* The judgement of the jobs in scope, and of the others none.             *)
LEMMA SampleMaps ==
    ASSUME DrainsInv, SampleNodes, NEW id \in JobIDs
    PROVE  Climbs(id)
<1> USE DEF DrainsInv
<1>1. PICK read, label :
        /\ now' = clock
        /\ queue' = {f \in {ToHandle(j, Judged(j, read, label).finding) : j \in InScope} :
                       f.verdict >= Alert}
        /\ \A j \in InScope : memory'[j.id] = Judged(j, read, label).state
        /\ \A k \in JobIDs : \/ memory'[k] = memory[k]
                             \/ \E j \in InScope : j.id = k
    BY SampleEffect DEF SampledAs
<1> DEFINE R(j)     == Judged(j, read, label)
           Found(j) == ToHandle(j, R(j).finding)
<1>2. /\ clock' = clock /\ clock \in Nat
      /\ Unhandled' = {f \in {Found(j) : j \in InScope} : f.verdict >= Alert}
    BY <1>1 DEF SampleNodes, ClusterInv, FindingsInv, Unhandled
<1>3. \A j \in InScope : /\ Found(j).id = j.id
                         /\ Found(j).verdict = R(j).finding.verdict
                         /\ Found(j).drainConfirmed = R(j).finding.drainConfirmed
    BY DEF ToHandle
<1>4. \A j \in InScope : JudgedAs(memory[j.id], j, R(j))
    BY Judges DEF InScope
<1>5. \A j, k \in InScope : j.id = k.id => j = k
    BY DEF InScope, ListingInv
<1>6. \A j \in InScope : memory'[j.id] = R(j).state
    BY <1>1
<1> HIDE DEF R, Found
<1>7. CASE \A j \in InScope : j.id # id
    <2>1. Asked(id)' = None
        BY <1>2, <1>3, <1>7, AskedThen
    <2> QED
        BY <1>1, <1>2, <1>7, <2>1, KeptMaps
<1>8. ASSUME NEW j \in InScope, j.id = id PROVE Climbs(id)
    <2>1. R(j).finding.verdict \notin {Drain, Cancel} => Asked(id)' = None
        <3>1. ASSUME NEW f \in Unhandled', f.id = id PROVE f.verdict = R(j).finding.verdict
            BY <1>2, <1>3, <1>5, <1>8, <3>1
        <3> QED
            BY <3>1, AskedThen DEF Opens
    <2>2. memory'[id] = R(j).state
        BY <1>8, <1>6
    <2>3. CASE R(j).finding.verdict = Healthy
        <3>1. Asked(id)' = None
            BY <2>1, <2>3 DEF Healthy, Drain, Cancel
        <3>2. SameRung(memory[id], R(j).state) \/ OffLadder(R(j).state)
            BY <1>4, <1>8, <2>3 DEF JudgedAs, Climbed, FirstRungs, Healthy, Watching, Alert, Cancel
        <3> QED
            BY <1>2, <2>2, <3>1, <3>2, KeptMaps, OverMaps DEF SameRung, OffLadder
    <2>4. CASE FirstRungs(j, R(j))
        <3>1. Asked(id)' = None
            BY <2>1, <2>4 DEF FirstRungs, Watching, Alert, Drain, Cancel
        <3> QED
            BY <1>2, <2>2, <2>4, <3>1, OverMaps DEF FirstRungs
    <2>5. CASE Climbed(memory[id], R(j), clock)
        <3> DEFINE v  == R(j).finding.verdict
                   dc == memory[id].drainConfirmedAt
        <3>1. v \in Watching .. Cancel /\ Found(j).drainConfirmed = (dc # None)
            BY <1>3, <2>5 DEF Climbed
        <3>2. Found(j).drainConfirmed <=> dc # None
            BY <3>1, Zenon
        <3>3. ASSUME v = Drain, dc = None PROVE Asked(id)' = clock
            <4>1. Found(j) \in Unhandled'
                BY <1>2, <1>3, <3>3 DEF Alert, Drain
            <4>2. Opens(Found(j)) /\ Found(j).id = id
                BY <1>3, <1>8, <3>2, <3>3 DEF Opens
            <4> QED
                BY <1>1, <4>1, <4>2, AskedThen
        <3>4. ASSUME ~(v = Drain /\ dc = None) PROVE Asked(id)' = None
            <4>1. \A f \in Unhandled' : f.id = id => f = Found(j)
                BY <1>2, <1>3, <1>5, <1>8
            <4>2. ~Opens(Found(j))
                BY <1>3, <3>2, <3>4 DEF Opens
            <4> QED
                BY <4>1, <4>2, AskedThen
        <3>5. /\ memory[id].lastVerdict \in Verdicts
              /\ dc \in Nat \cup {None}
            BY DEF MemoryInv
        <3>6. /\ memory'[id].lastVerdict = v
              /\ memory'[id].drainConfirmedAt = dc
              /\ v = Drain => ~(memory[id].lastVerdict < Alert)
              /\ v = Cancel => /\ ~(memory[id].lastVerdict < Drain)
                               /\ dc # None
                               /\ ~(clock - dc < Window)
            BY <2>2, <2>5 DEF Climbed
        <3>7. Asked(id)' = IF v = Drain /\ dc = None THEN clock ELSE None
            BY <3>3, <3>4
        <3> QED
            BY <1>2, <3>1, <3>5, <3>6, <3>7, BreachMaps
    <2> QED
        BY <1>4, <1>8, <2>3, <2>4, <2>5 DEF JudgedAs
<1> QED
    BY <1>7, <1>8

(* Every other step of the cycle: what it hands over, and what it forgets. *)
LEMMA ActMaps ==
    ASSUME DrainsInv, Act, NEW id \in JobIDs
    PROVE  Climbs(id)
<1> USE DEF DrainsInv
<1>1. ASSUME NEW f \in queue, Notify(f) \/ CancelJob(f) PROVE Climbs(id)
    <2>1. UNCHANGED <<clock, memory, now, draining>> /\ queue' = queue \ {f}
        BY <1>1 DEF Notify, CancelJob, Handles
    <2>2. Unhandled' \subseteq Unhandled
        BY <2>1 DEF Unhandled
    <2> QED
        BY <2>1, <2>2, IdleMaps
<1>2. ASSUME NEW f \in queue, DryDrain(f) PROVE Climbs(id)
    <2>1. /\ UNCHANGED <<clock, now, draining>> /\ queue' = queue \ {f}
          /\ phase = "acting" /\ draining.left = {}
          /\ Opens(f) /\ memory' = Confirm(f)
        BY <1>2 DEF DryDrain, Handles, Opens
    <2>2. f \in Unhandled /\ Unhandled' = Unhandled \ {f}
        BY <2>1 DEF Unhandled
    <2> QED
        BY <2>1, <2>2, HandledMaps
<1>3. ASSUME NEW f \in queue, BeginDrain(f) PROVE Climbs(id)
    <2>1. /\ UNCHANGED <<clock, memory, now>> /\ queue' = queue \ {f}
          /\ draining' = [job |-> f, left |-> f.nodes]
        BY <1>3 DEF BeginDrain, Handles
    <2>2. Unhandled' \subseteq Unhandled
        BY <2>1 DEF Unhandled
    <2> QED
        BY <2>1, <2>2, IdleMaps
<1>4. ASSUME NEW n \in draining.left, DrainFails(n) PROVE Climbs(id)
    <2>1. UNCHANGED <<clock, memory, now, queue>> /\ draining' = NoDrain
        BY <1>4 DEF DrainFails, LeftToHandle
    <2>2. Unhandled' \subseteq Unhandled
        BY <2>1 DEF Unhandled, NoDrain
    <2> QED
        BY <2>1, <2>2, IdleMaps
<1>5. ASSUME NEW n \in draining.left, DrainNode(n) PROVE Climbs(id)
    <2> DEFINE f    == draining.job
               left == draining.left \ {n}
    <2>1. /\ UNCHANGED <<clock, now, queue>>
          /\ memory' = ConfirmedAfter(f, left)
          /\ draining' = IF left = {} THEN NoDrain ELSE [draining EXCEPT !.left = left]
        BY <1>5 DEF DrainNode
    <2>2. /\ f \in Unhandled /\ f \notin queue /\ Opens(f) /\ phase = "acting"
          /\ draining = [job |-> f, left |-> draining.left]
        BY DEF FindingsInv, Unhandled, Opens
    <2>3. CASE left = {}
        <3>1. Unhandled' = queue /\ Unhandled = queue \cup {f}
            BY <2>1, <2>3 DEF Unhandled, NoDrain
        <3>2. memory' = Confirm(f)
            BY <2>1, <2>3 DEF ConfirmedAfter
        <3> QED
            BY <2>1, <2>2, <3>1, <3>2, HandledMaps
    <2>4. CASE left # {}
        <3>1. draining'.job = f /\ memory' = memory
            BY <2>1, <2>2, <2>4 DEF ConfirmedAfter
        <3>2. Unhandled' \subseteq Unhandled
            BY <2>1, <3>1 DEF Unhandled
        <3> QED
            BY <2>1, <3>1, <3>2, IdleMaps
    <2> QED
        BY <2>3, <2>4
<1>6. CASE Finish
    <2>1. UNCHANGED <<clock, memory, now, queue, draining>>
        BY <1>6 DEF Finish
    <2>2. Unhandled' \subseteq Unhandled
        BY <2>1 DEF Unhandled
    <2> QED
        BY <2>1, <2>2, IdleMaps
<1> QED
    BY <1>1, <1>2, <1>3, <1>4, <1>5, <1>6 DEF Act

LEMMA NextMaps == DrainsInv /\ [Next]_vars => \A id \in JobIDs : Climbs(id)
<1> SUFFICES ASSUME DrainsInv, [Next]_vars, NEW id \in JobIDs PROVE Climbs(id)
    OBVIOUS
<1>1. CASE Tick
    BY <1>1, TickMaps
<1>2. ASSUME \/ \E k \in site.jobs : JobEnds(k) \/ \E where \in Placements : JobStarts(k, where)
             \/ ListFails \/ SampleFails \/ UNCHANGED vars
      PROVE  Climbs(id)
    <2>1. UNCHANGED <<clock, memory, now, queue, draining>>
        BY <1>2 DEF JobEnds, JobStarts, ListFails, SampleFails, vars, daemon
    <2>2. Unhandled' \subseteq Unhandled
        BY <2>1 DEF Unhandled
    <2> QED
        BY <2>1, <2>2, IdleMaps
<1>3. CASE List
    <2>1. /\ clock' = clock /\ queue' = {} /\ draining'.left = {}
          /\ memory'[id] = NoState \/ memory'[id] = memory[id]
        BY <1>3 DEF List, DrainsInv, FindingsInv
    <2> QED
        BY <2>1, ForgetMaps
<1>4. CASE Restart
    <2>1. /\ clock' = clock /\ queue' = {} /\ draining'.left = {}
          /\ memory'[id] = NoState
        BY <1>4 DEF Restart, NoDrain
    <2> QED
        BY <2>1, ForgetMaps
<1>5. CASE SampleNodes
    BY <1>5, SampleMaps
<1>6. CASE Act
    BY <1>6, ActMaps
<1> QED
    BY <1>1, <1>2, <1>3, <1>4, <1>5, <1>6 DEF Next

LEMMA FeetOfLadders == Init => \A id \in JobIDs : L(id)!Init
<1> SUFFICES ASSUME Init, NEW id \in JobIDs PROVE L(id)!Init
    OBVIOUS
<1>1. clock = 0 /\ memory[id] = NoState /\ Unhandled = {}
    BY DEF Init, Unhandled, NoDrain
<1>2. Asked(id) = None
    BY <1>1, AskedWhen
<1> QED
    BY <1>1, <1>2, NoStateForgets DEF L!Init, L!None, L!Healthy, OffLadder, None, Healthy

(* Every job climbs the ladder of module Ladder, whatever of the cycle     *)
(* fails and wherever it is interrupted (reaper.cycle's handling of        *)
(* findings, ConfirmDrain).                                                *)
THEOREM JobsClimb == Spec => ClimbsLadder
<1>1. DrainsInv /\ [Next]_vars =>
         [\A id \in JobIDs : L(id)!Next \/ UNCHANGED L(id)!vars]_vars
    BY NextMaps DEF Climbs
<1> QED
    BY <1>1, FeetOfLadders, DrainsInvariant, PTL DEF Spec, ClimbsLadder

=============================================================================
