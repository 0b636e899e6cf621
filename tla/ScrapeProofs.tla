---------------------------- MODULE ScrapeProofs ----------------------------
(***************************************************************************)
(* Scrape implements Collect, for every set of nodes, every number of      *)
(* slots and every interleaving of the workers.                            *)
(***************************************************************************)
EXTENDS Scrape, FiniteSetTheorems, TLAPS

(* What a step of one worker may do to the others: nothing.                *)
LEMMA OthersStay ==
    ASSUME TypeOK, NEW t \in Targets, NEW place, Goes(t, place)
    PROVE  \A u \in Targets : worker'[u] = IF u = t THEN place ELSE worker[u]
BY DEF Goes, TypeOK

(***************************************************************************)
(* The invariant, one lemma for each action that changes a part of it.     *)
(***************************************************************************)
LEMMA InitInv == Init => ScrapeInv
BY ScrapeAssumption DEF Init, ScrapeInv, TypeOK, WorkersInv, MutexInv, AddedInv, OverInv,
       Places, Tallies, Nothing, HoldsMu, AddedAt

LEMMA RefuseInv ==
    ASSUME ScrapeInv, NEW t \in Targets, Refuse(t)
    PROVE  ScrapeInv'
<1> USE DEF ScrapeInv, Refuse
<1>1. TypeOK'
    BY DEF TypeOK
<1>2. worker[t] = "none" /\ t \notin out
    BY DEF WorkersInv, AddedInv
<1>3. WorkersInv'
    BY <1>2 DEF WorkersInv
<1>4. MutexInv'
    <2>1. \A u \in Targets : worker[u] \notin HoldsMu
        BY ScrapeAssumption DEF MutexInv
    <2> QED BY <2>1 DEF MutexInv, HoldsMu
<1>5. AddedInv'
    BY <1>2 DEF AddedInv, TypeOK
<1>6. OverInv'
    BY DEF OverInv
<1> QED BY <1>1, <1>3, <1>4, <1>5, <1>6

LEMMA StartInv ==
    ASSUME ScrapeInv, NEW t \in Targets, Start(t)
    PROVE  ScrapeInv'
<1> USE DEF ScrapeInv, Start, shared
<1>1. TypeOK'
    BY DEF TypeOK, Places
<1>2. worker[t] = "none"
    BY DEF WorkersInv
<1>3. \A u \in Targets : worker'[u] = IF u = t THEN "scraping" ELSE worker[u]
    BY DEF TypeOK
<1>4. WorkersInv'
    BY <1>2, <1>3 DEF WorkersInv
<1>5. MutexInv'
    BY <1>2, <1>3 DEF MutexInv, HoldsMu
<1>6. AddedInv'
    BY <1>2, <1>3 DEF AddedInv, AddedAt
<1>7. OverInv'
    BY DEF OverInv
<1> QED BY <1>1, <1>4, <1>5, <1>6, <1>7

LEMMA AddInv ==
    ASSUME ScrapeInv, NEW t \in Targets, Add(t)
    PROVE  /\ ScrapeInv'
           /\ t \notin out \cup failed
           /\ IF good[t] THEN out' = out \cup {t} /\ failed' = failed
                         ELSE failed' = failed \cup {t} /\ out' = out
<1> USE DEF ScrapeInv, Add
<1>1. worker[t] = "locked" /\ copy[t] = [out |-> out, failed |-> failed] /\ mu = t
    BY DEF MutexInv, At, HoldsMu
<1>2. IF good[t] THEN out' = out \cup {t} /\ failed' = failed
                 ELSE failed' = failed \cup {t} /\ out' = out
    BY <1>1
<1>3. \A u \in Targets : worker'[u] = IF u = t THEN "added" ELSE worker[u]
    BY OthersStay
<1>4. t \notin out \cup failed /\ t \notin Unsafe /\ t \notin todo
    BY <1>1 DEF AddedInv, AddedAt, WorkersInv
<1>5. TypeOK'
    BY <1>2 DEF TypeOK, Goes, Places
<1>6. WorkersInv'
    BY <1>1, <1>3 DEF WorkersInv
<1>7. MutexInv'
    BY <1>1, <1>3 DEF MutexInv, HoldsMu
<1>8. AddedInv'
    <2>1. out' \cap failed' = {} /\ out' \cap Unsafe = {}
        BY <1>2, <1>4 DEF AddedInv
    <2>2. \A u \in Targets : u \in out' \cup failed' <=> u \in out \cup failed \/ u = t
        BY <1>2
    <2> QED BY <1>1, <1>3, <2>1, <2>2 DEF AddedInv, AddedAt
<1>9. OverInv'
    BY DEF OverInv
<1> QED BY <1>2, <1>4, <1>5, <1>6, <1>7, <1>8, <1>9

(* The other steps of a worker touch neither the slice nor the map.        *)
LEMMA WorkInv ==
    ASSUME ScrapeInv, NEW t \in Targets,
           Scraped(t) \/ Lock(t) \/ Unlock(t) \/ Free(t) \/ Done(t)
    PROVE  ScrapeInv' /\ UNCHANGED <<out, failed, result>>
<1> USE DEF ScrapeInv
<1>1. CASE Scraped(t)
    <2> USE <1>1 DEF Scraped
    <2>1. \A u \in Targets : worker'[u] = IF u = t THEN "answered" ELSE worker[u]
        BY OthersStay
    <2>2. TypeOK'
        BY DEF TypeOK, Goes, Places, shared
    <2> QED BY <2>1, <2>2 DEF WorkersInv, MutexInv, AddedInv, OverInv, At, HoldsMu, AddedAt, shared
<1>2. CASE Lock(t)
    <2> USE <1>2 DEF Lock
    <2>1. \A u \in Targets : worker'[u] = IF u = t THEN "locked" ELSE worker[u]
        BY OthersStay
    <2>2. TypeOK'
        BY DEF TypeOK, Goes, Places, Tallies, shared
    <2>3. copy'[t] = [out |-> out, failed |-> failed]
        BY DEF TypeOK
    <2>4. \A u \in Targets : worker[u] \notin HoldsMu
        BY ScrapeAssumption DEF MutexInv, Unlocked
    <2>5. MutexInv'
        BY <2>1, <2>3, <2>4 DEF MutexInv, HoldsMu, shared
    <2> QED BY <2>1, <2>2, <2>5 DEF WorkersInv, AddedInv, OverInv, At, AddedAt, shared
<1>3. CASE Unlock(t)
    <2> USE <1>3 DEF Unlock
    <2>1. \A u \in Targets : worker'[u] = IF u = t THEN "unlocked" ELSE worker[u]
        BY OthersStay
    <2>2. TypeOK'
        BY DEF TypeOK, Goes, Places, shared
    <2>3. mu = t
        BY DEF MutexInv, At, HoldsMu
    <2>4. MutexInv'
        BY <2>1, <2>3, ScrapeAssumption DEF MutexInv, HoldsMu
    <2> QED BY <2>1, <2>2, <2>4 DEF WorkersInv, AddedInv, OverInv, At, AddedAt, shared
<1>4. CASE Free(t)
    <2> USE <1>4 DEF Free, Freed
    <2>1. \A u \in Targets : worker'[u] = IF u = t THEN "freed" ELSE worker[u]
        BY OthersStay
    <2>2. TypeOK'
        BY DEF TypeOK, Goes, Places, shared
    <2> QED BY <2>1, <2>2 DEF WorkersInv, MutexInv, AddedInv, OverInv, At, HoldsMu, AddedAt, shared
<1>5. CASE Done(t)
    <2> USE <1>5 DEF Done
    <2>1. \A u \in Targets : worker'[u] = IF u = t THEN "done" ELSE worker[u]
        BY OthersStay
    <2>2. TypeOK'
        BY DEF TypeOK, Goes, Places, shared
    <2> QED BY <2>1, <2>2 DEF WorkersInv, MutexInv, AddedInv, OverInv, At, HoldsMu, AddedAt, shared
<1> QED BY <1>1, <1>2, <1>3, <1>4, <1>5

LEMMA ReturnInv ==
    ASSUME ScrapeInv, Return
    PROVE  ScrapeInv' /\ UNCHANGED <<out, failed>>
BY DEF ScrapeInv, TypeOK, WorkersInv, MutexInv, AddedInv, OverInv, Return, AllDone, Outcome, shared

LEMMA CallInv ==
    ASSUME ScrapeInv, Call
    PROVE  ScrapeInv'
BY ScrapeAssumption DEF ScrapeInv, TypeOK, WorkersInv, MutexInv, AddedInv, OverInv, Call,
       Places, Tallies, Nothing, HoldsMu, AddedAt

LEMMA IdleInv ==
    ASSUME ScrapeInv, Tick \/ UNCHANGED vars
    PROVE  ScrapeInv' /\ UNCHANGED <<out, failed, result>>
BY DEF ScrapeInv, TypeOK, WorkersInv, MutexInv, AddedInv, OverInv, Tick, vars, shared

LEMMA NextInv == ScrapeInv /\ [Next]_vars => ScrapeInv'
<1> SUFFICES ASSUME ScrapeInv, [Next]_vars
             PROVE  ScrapeInv'
    OBVIOUS
<1>1. CASE \E t \in Targets : Refuse(t) \/ Start(t) \/ Work(t)
    BY <1>1, RefuseInv, StartInv, AddInv, WorkInv DEF Work
<1>2. CASE Return
    BY <1>2, ReturnInv
<1>3. CASE Call
    BY <1>3, CallInv
<1>4. CASE Tick \/ UNCHANGED vars
    BY <1>4, IdleInv
<1> QED BY <1>1, <1>2, <1>3, <1>4 DEF Next

(* The workers keep the discipline that guards the slice and the map:      *)
(* one holder of the mutex, up to date, and nothing added twice or on both *)
(* sides (Sample's goroutines).                                            *)
THEOREM ScrapeInvariant == Spec => []ScrapeInv
BY InitInv, NextInv, PTL DEF Spec

-----------------------------------------------------------------------------
(***************************************************************************)
(* The step simulation.                                                    *)
(***************************************************************************)
LEMMA AllFailed ==
    ASSUME ScrapeInv, Cardinality(failed) = Cardinality(Targets)
    PROVE  failed = Targets
BY ScrapeAssumption, FS_Subset DEF ScrapeInv, TypeOK

LEMMA InitMaps == Init => C!Init
BY DEF Init, C!Init, C!Unanswered, Answers

(* One target gains an answer.                                             *)
LEMMA AnswerMaps ==
    ASSUME ScrapeInv, NEW t \in Targets, t \notin out \cup failed, result = "open",
           UNCHANGED result,
           \/ t \notin Unsafe /\ out' = out \cup {t} /\ failed' = failed
           \/ failed' = failed \cup {t} /\ out' = out
    PROVE  C!Next
<1>1. Answers[t] = "pending"
    BY DEF Answers
<1>2. PICK a \in {"sampled", "failed"} :
          (t \in Unsafe => a = "failed") /\ Answers' = [Answers EXCEPT ![t] = a]
    <2>1. CASE t \notin Unsafe /\ out' = out \cup {t} /\ failed' = failed
        <3>1. Answers' = [Answers EXCEPT ![t] = "sampled"]
            BY <2>1 DEF Answers
        <3> QED BY <2>1, <3>1
    <2>2. CASE failed' = failed \cup {t} /\ out' = out
        <3>1. Answers' = [Answers EXCEPT ![t] = "failed"]
            BY <2>2 DEF Answers
        <3> QED BY <3>1
    <2> QED BY <2>1, <2>2
<1>3. C!Answer(t)
    BY <1>1, <1>2 DEF C!Answer
<1> QED BY <1>3 DEF C!Next

LEMMA ReturnMaps ==
    ASSUME ScrapeInv, Return
    PROVE  C!Next
<1>1. \A t \in Targets : t \in out \cup failed
    BY DEF ScrapeInv, AddedInv, AddedAt, WorkersInv, TypeOK, Places, Return, AllDone
<1>2. \A t \in Targets : /\ Answers[t] # "pending"
                         /\ Answers[t] = "failed" <=> t \in failed
    BY <1>1 DEF Answers, ScrapeInv, AddedInv
<1>3. UNCHANGED Answers
    BY ReturnInv DEF Answers
<1>4. Outcome = C!Outcome(Answers)
    <2>1. Cardinality(failed) = Cardinality(Targets) <=> \A t \in Targets : t \in failed
        <3>1. failed \subseteq Targets
            BY DEF ScrapeInv, TypeOK
        <3>2. (\A t \in Targets : t \in failed) => failed = Targets
            BY <3>1
        <3> QED BY AllFailed, <3>2
    <2>2. failed # {} <=> \E t \in Targets : t \in failed
        BY DEF ScrapeInv, TypeOK
    <2> QED BY <1>2, <2>1, <2>2 DEF Outcome, C!Outcome
<1>5. C!Return
    BY <1>2, <1>3, <1>4 DEF C!Return, Return
<1> QED BY <1>5 DEF C!Next

LEMMA CallMaps ==
    ASSUME ScrapeInv, Call
    PROVE  C!Next
BY DEF Call, C!Next, C!Call, C!Unanswered, Answers

LEMMA NextMaps == ScrapeInv /\ [Next]_vars => [C!Next]_(C!vars)
<1> SUFFICES ASSUME ScrapeInv, [Next]_vars
             PROVE  [C!Next]_(C!vars)
    OBVIOUS
<1>s. ASSUME UNCHANGED <<out, failed, result>>
      PROVE  UNCHANGED C!vars
    BY <1>s DEF C!vars, Answers
<1>o. ASSUME result # "open"
      PROVE  todo = {} /\ wg = {}
    BY <1>o DEF ScrapeInv, OverInv
<1>1. ASSUME NEW t \in Targets, Refuse(t)
      PROVE  [C!Next]_(C!vars)
    <2>1. t \notin out \cup failed /\ result = "open"
        BY <1>1, <1>o DEF Refuse, ScrapeInv, AddedInv, AddedAt, WorkersInv
    <2> QED BY <1>1, <2>1, AnswerMaps DEF Refuse
<1>2. ASSUME NEW t \in Targets, Add(t)
      PROVE  [C!Next]_(C!vars)
    <2>1. result = "open" /\ t \notin Unsafe
        BY <1>2, <1>o DEF Add, At, ScrapeInv, WorkersInv
    <2> QED BY <1>2, <2>1, AddInv, AnswerMaps DEF Add
<1>3. ASSUME NEW t \in Targets, Start(t)
      PROVE  [C!Next]_(C!vars)
    BY <1>3, <1>s DEF Start, shared
<1>4. ASSUME NEW t \in Targets, Scraped(t) \/ Lock(t) \/ Unlock(t) \/ Free(t) \/ Done(t)
      PROVE  [C!Next]_(C!vars)
    BY <1>4, <1>s, WorkInv
<1>5. CASE Return
    BY <1>5, ReturnMaps
<1>6. CASE Call
    BY <1>6, CallMaps
<1>7. CASE Tick \/ UNCHANGED vars
    BY <1>7, <1>s, IdleInv
<1> QED BY <1>1, <1>2, <1>3, <1>4, <1>5, <1>6, <1>7 DEF Next, Work

(* The parallel scrape answers for each node exactly once and returns what *)
(* the answers add up to (property Collects; DCGMSource.Sample).           *)
THEOREM ScrapeCollects == Spec => Collects
<1>1. Spec => []ScrapeInv
    BY ScrapeInvariant
<1> QED BY <1>1, InitMaps, NextMaps, PTL DEF Spec, Collects, C!Spec

-----------------------------------------------------------------------------
(***************************************************************************)
(* How long a call takes.  Time passes only while workers scrape, and      *)
(* either all slots are taken or no target is left: so that with every     *)
(* Timeout that went by, as many scrapes began as there are slots, or all  *)
(* of them had begun.                                                      *)
(***************************************************************************)
Safe == Targets \ Unsafe

(* The scrapes that began by time x.                                       *)
Begun(x) == {t \in Safe \ todo : since[t] <= x}

HoldsSlot == {"scraping", "answered", "locked", "added", "unlocked"}

SlotsInv ==
    \A t \in Targets : since[t] <= clock /\ (t \in sem <=> worker[t] \in HoldsSlot)

RoundsInv ==
    \A k \in Nat :
        k * Timeout < clock =>
            \/ Cardinality(Begun(k * Timeout)) >= Cardinality(Safe)
            \/ Cardinality(Begun(k * Timeout)) >= Slots * (k + 1)

TimeInv == ScrapeInv /\ SlotsInv /\ RoundsInv /\ InTime

LEMMA SafeCounts ==
    /\ IsFiniteSet(Safe) /\ Cardinality(Safe) \in Nat
    /\ \A S \in SUBSET Safe : /\ IsFiniteSet(S) /\ Cardinality(S) \in Nat
                              /\ Cardinality(S) <= Cardinality(Safe)
                              /\ Cardinality(S) = Cardinality(Safe) => S = Safe
<1>1. IsFiniteSet(Safe)
    BY ScrapeAssumption, FS_Subset DEF Safe
<1> QED
    BY <1>1, FS_Subset, FS_CardinalityType

(* Max({1, Parallel}) slots, and as many rounds as they need.              *)
LEMMA RoundsEnough ==
    LET N == Cardinality(Safe)
        m == (N + Slots - 1) \div Slots
    IN  /\ Slots \in Nat \ {0}
        /\ Max({1, Parallel}) = Slots
        /\ InTime <=> clock <= Timeout * m
        /\ m \in Nat
        /\ Slots * m >= N
        /\ N > 0 => m > 0
<1> DEFINE N == Cardinality(Safe)
           m == (N + Slots - 1) \div Slots
           S == {1, Parallel}
<1>1. Slots \in Nat \ {0}
    BY ScrapeAssumption DEF Slots
<1>2. N \in Nat
    BY SafeCounts
<1>3. Max(S) = Slots
    <2>1. Slots \in S /\ \A y \in S : Slots >= y
        BY ScrapeAssumption DEF Slots
    <2>2. \A x \in S : (\A y \in S : x >= y) => x = Slots
        BY <2>1, ScrapeAssumption
    <2> HIDE DEF S
    <2>3. Max(S) \in S /\ \A y \in S : Max(S) >= y
        BY <2>1, Zenon DEF Max
    <2> QED
        BY <2>2, <2>3
<1>4. InTime <=> clock <= Timeout * m
    BY <1>3, Zenon DEF InTime, Safe
<1>5. m \in Nat /\ Slots * m >= N /\ (N > 0 => m > 0)
    <2> HIDE DEF N
    <2> QED
        BY <1>1, <1>2
<1> QED
    BY <1>1, <1>3, <1>4, <1>5

LEMMA InitTime == Init => SlotsInv /\ RoundsInv /\ InTime
<1> SUFFICES ASSUME Init PROVE SlotsInv /\ RoundsInv /\ InTime
    OBVIOUS
<1>1. SlotsInv
    BY DEF Init, SlotsInv, HoldsSlot
<1>2. RoundsInv
    BY ScrapeAssumption DEF Init, RoundsInv
<1>3. InTime
    BY RoundsEnough, ScrapeAssumption DEF Init
<1> QED
    BY <1>1, <1>2, <1>3

(* What no scrape begins or ends leaves the rounds as they are.            *)
LEMMA RoundsStay ==
    ASSUME RoundsInv, InTime, clock' = clock, Safe \cap todo' = Safe \cap todo,
           since' = since
    PROVE  RoundsInv' /\ InTime'
<1>1. \A x : Begun(x)' = Begun(x)
    BY DEF Begun
<1>2. RoundsInv'
    BY <1>1 DEF RoundsInv
<1> QED
    BY <1>2 DEF InTime

LEMMA WorkTime ==
    ASSUME TimeInv, NEW t \in Targets, Refuse(t) \/ Work(t)
    PROVE  SlotsInv' /\ RoundsInv' /\ InTime'
<1>1. clock' = clock /\ since' = since /\ Safe \cap todo' = Safe \cap todo
    BY DEF Refuse, Work, Scraped, Lock, Add, Unlock, Free, Done, Safe
<1>2. RoundsInv' /\ InTime'
    BY <1>1, RoundsStay DEF TimeInv
<1> SUFFICES SlotsInv'
    BY <1>2
<1>3. SlotsInv /\ ScrapeInv
    BY DEF TimeInv
<1>4. CASE Refuse(t)
    BY <1>3, <1>4 DEF Refuse, SlotsInv
<1>5. CASE Scraped(t)
    <2>1. \A u \in Targets : worker'[u] = IF u = t THEN "answered" ELSE worker[u]
        BY <1>3, <1>5, OthersStay DEF Scraped, ScrapeInv
    <2> QED
        BY <1>3, <1>5, <2>1 DEF Scraped, At, SlotsInv, HoldsSlot
<1>6. CASE Lock(t)
    <2>1. \A u \in Targets : worker'[u] = IF u = t THEN "locked" ELSE worker[u]
        BY <1>3, <1>6, OthersStay DEF Lock, ScrapeInv
    <2> QED
        BY <1>3, <1>6, <2>1 DEF Lock, At, SlotsInv, HoldsSlot
<1>7. CASE Add(t)
    <2>1. \A u \in Targets : worker'[u] = IF u = t THEN "added" ELSE worker[u]
        BY <1>3, <1>7, OthersStay DEF Add, ScrapeInv
    <2>2. clock' = clock /\ since' = since /\ sem' = sem /\ worker[t] = "locked"
        BY <1>7 DEF Add, At
    <2> QED
        BY <1>3, <2>1, <2>2 DEF SlotsInv, HoldsSlot
<1>8. CASE Unlock(t)
    <2>1. \A u \in Targets : worker'[u] = IF u = t THEN "unlocked" ELSE worker[u]
        BY <1>3, <1>8, OthersStay DEF Unlock, ScrapeInv
    <2> QED
        BY <1>3, <1>8, <2>1 DEF Unlock, At, SlotsInv, HoldsSlot
<1>9. CASE Free(t)
    <2>1. \A u \in Targets : worker'[u] = IF u = t THEN "freed" ELSE worker[u]
        BY <1>3, <1>9, OthersStay DEF Free, ScrapeInv
    <2> QED
        BY <1>3, <1>9, <2>1 DEF Free, Freed, At, SlotsInv, HoldsSlot
<1>10. CASE Done(t)
    <2>1. \A u \in Targets : worker'[u] = IF u = t THEN "done" ELSE worker[u]
        BY <1>3, <1>10, OthersStay DEF Done, ScrapeInv
    <2> QED
        BY <1>3, <1>10, <2>1 DEF Done, At, SlotsInv, HoldsSlot
<1> QED
    BY <1>4, <1>5, <1>6, <1>7, <1>8, <1>9, <1>10 DEF Work

(* A scrape that begins now began in no round that is over.                *)
LEMMA StartTime ==
    ASSUME TimeInv, NEW t \in Targets, Start(t)
    PROVE  SlotsInv' /\ RoundsInv' /\ InTime'
<1>1. ScrapeInv /\ SlotsInv /\ RoundsInv /\ InTime
    BY DEF TimeInv
<1>2. /\ t \in todo /\ todo' = todo \ {t}
      /\ \A u \in Targets : since'[u] = IF u = t THEN clock ELSE since[u]
      /\ \A u \in Targets : worker'[u] = IF u = t THEN "scraping" ELSE worker[u]
      /\ sem' = sem \cup {t} /\ clock' = clock /\ clock \in Nat
    BY <1>1 DEF Start, ScrapeInv, TypeOK
<1>3. SlotsInv'
    BY <1>1, <1>2 DEF SlotsInv, HoldsSlot
<1>4. ASSUME NEW x \in Int, x < clock
      PROVE  Begun(x)' = Begun(x)
    BY <1>2, <1>4 DEF Begun, Safe
<1>5. ASSUME NEW k \in Nat, k * Timeout < clock
      PROVE  Begun(k * Timeout)' = Begun(k * Timeout)
    <2>1. k * Timeout \in Int
        BY ScrapeAssumption
    <2> QED
        BY <1>4, <1>5, <2>1
<1>6. RoundsInv'
    BY <1>1, <1>2, <1>5 DEF RoundsInv
<1> QED
    BY <1>1, <1>2, <1>3, <1>6 DEF InTime

(* Time passes: whoever scrapes began less than a Timeout ago, in the      *)
(* round that this step ends.                                              *)
LEMMA TickTime ==
    ASSUME TimeInv, Tick
    PROVE  SlotsInv' /\ RoundsInv' /\ InTime'
<1> DEFINE N == Cardinality(Safe)
           m == (N + Slots - 1) \div Slots
           count(k) == Cardinality(Begun(k * Timeout))
<1>1. ScrapeInv /\ SlotsInv /\ RoundsInv /\ InTime
    BY DEF TimeInv
<1>2. /\ clock \in Nat /\ Timeout \in Nat
      /\ clock' = clock + 1 /\ todo' = todo /\ since' = since
      /\ sem' = sem /\ worker' = worker
      /\ \A t \in Targets : since[t] \in Nat /\ since[t] <= clock
    BY <1>1, ScrapeAssumption DEF Tick, ScrapeInv, TypeOK, SlotsInv
<1>3. wg \subseteq Safe \ todo /\ \A t \in wg : clock - since[t] < Timeout
    BY <1>1 DEF Tick, ScrapeInv, TypeOK, WorkersInv, Safe
<1>4. wg # {} /\ Timeout # 0
    BY <1>2, <1>3 DEF Tick, Safe
<1>5. sem \subseteq wg
    BY <1>1 DEF ScrapeInv, TypeOK, SlotsInv, WorkersInv, HoldsSlot
<1>6. todo = {} \/ Cardinality(sem) >= Slots
    BY DEF Tick, OnlyScrapes
<1>7. /\ Slots \in Nat \ {0} /\ N \in Nat
      /\ InTime <=> clock <= Timeout * m
      /\ m \in Nat /\ Slots * m >= N /\ (N > 0 => m > 0)
    BY RoundsEnough, SafeCounts
<1>8. \A x : Begun(x)' = Begun(x) /\ Begun(x) \subseteq Safe
    BY <1>2 DEF Begun
<1>9. \A k \in Nat : k * Timeout < clock => count(k) >= N \/ count(k) >= Slots * (k + 1)
    BY <1>1 DEF RoundsInv
<1>10. \A k \in Nat : count(k) \in Nat
    BY <1>8, SafeCounts
<1> HIDE DEF N, m, count
<1>11. ASSUME NEW k \in Nat, k * Timeout = clock
       PROVE  count(k) >= N \/ count(k) >= Slots * (k + 1)
    <2>1. CASE todo = {}
        <3>1. Begun(k * Timeout) = Safe
            BY <1>2, <1>11, <2>1 DEF Begun, Safe
        <3> QED
            BY <1>7, <3>1 DEF count, N
    <2>2. CASE Cardinality(sem) >= Slots
        <3>1. sem \subseteq Begun(k * Timeout)
            BY <1>2, <1>3, <1>5, <1>11 DEF Begun, Safe
        <3>2. IsFiniteSet(sem) /\ IsFiniteSet(Begun(k * Timeout)) /\ Cardinality(sem) \in Nat
            BY <1>3, <1>5, <1>8, SafeCounts
        <3>3. CASE k = 0
            <4>1. Cardinality(sem) <= count(k)
                BY <3>1, <3>2, FS_Subset DEF count
            <4> QED
                BY <1>7, <1>10, <2>2, <3>2, <3>3, <4>1
        <3>4. CASE k > 0
            <4> DEFINE j == k - 1
                       B == Begun(j * Timeout)
            <4>1. j \in Nat /\ j * Timeout = clock - Timeout /\ j * Timeout < clock
                BY <1>2, <1>4, <1>11, <3>4
            <4>2. count(j) >= N \/ count(j) >= Slots * (j + 1)
                BY <1>9, <4>1
            <4>3. B \subseteq Begun(k * Timeout) /\ B \cap sem = {}
                BY <1>2, <1>3, <1>5, <1>11, <4>1 DEF Begun, Safe
            <4>4. IsFiniteSet(B)
                BY <1>8, SafeCounts
            <4> HIDE DEF B
            <4>5. Cardinality(B \cup sem) = Cardinality(B) + Cardinality(sem)
                <5>1. Cardinality(B \cup sem)
                         = Cardinality(B) + Cardinality(sem) - Cardinality(B \cap sem)
                    BY <3>2, <4>4, FS_Union
                <5>2. Cardinality(B \cap sem) = 0
                    BY <4>3, FS_EmptySet
                <5>3. Cardinality(B) \in Nat
                    BY <4>4, FS_CardinalityType
                <5> QED
                    BY <3>2, <5>1, <5>2, <5>3
            <4>6. B \cup sem \subseteq Begun(k * Timeout)
                BY <3>1, <4>3
            <4>7. Cardinality(B) + Cardinality(sem) <= count(k)
                BY <3>2, <4>5, <4>6, FS_Subset DEF count
            <4>8. Cardinality(B) = count(j)
                BY DEF B, count
            <4>9. Slots * (j + 1) + Slots = Slots * (k + 1)
                BY <1>7
            <4> HIDE DEF j
            <4>10. count(j) \in Nat /\ count(k) \in Nat
                BY <1>10, <4>1
            <4>11. count(k) >= count(j) + Slots
                BY <1>7, <2>2, <3>2, <4>7, <4>8, <4>10
            <4>12. Slots * (j + 1) \in Int
                BY <1>7, <4>1
            <4> QED
                BY <1>7, <4>2, <4>9, <4>10, <4>11, <4>12
        <3> QED
            BY <3>3, <3>4
    <2> QED
        BY <1>6, <2>1, <2>2
<1>12. RoundsInv'
    <2>1. \A k \in Nat : k * Timeout \in Int
        BY <1>2
    <2>2. ASSUME NEW k \in Nat, k * Timeout < clock + 1
          PROVE  count(k) >= N \/ count(k) >= Slots * (k + 1)
        <3>1. k * Timeout < clock \/ k * Timeout = clock
            BY <1>2, <2>1, <2>2
        <3> QED
            BY <1>9, <1>11, <3>1
    <2> QED
        BY <1>2, <1>8, <2>2 DEF RoundsInv, count, N
<1>13. InTime'
    <2>1. InTime' <=> clock' <= Timeout * m
        BY RoundsEnough, Zenon DEF InTime, N, m, Safe
    <2>2. clock # Timeout * m
        <3> SUFFICES ASSUME clock = Timeout * m PROVE FALSE
            OBVIOUS
        <3>1. N > 0
            <4>1. Safe # {}
                BY <1>3, <1>4
            <4> QED
                BY <4>1, SafeCounts, FS_EmptySet DEF N
        <3> DEFINE j == m - 1
        <3>2. j \in Nat /\ j * Timeout = clock - Timeout /\ j * Timeout < clock
            BY <1>2, <1>4, <1>7, <3>1
        <3>3. count(j) >= N \/ count(j) >= Slots * (j + 1)
            BY <1>9, <3>2
        <3>4. Slots * (j + 1) = Slots * m /\ Slots * m \in Int
            BY <1>7
        <3> HIDE DEF j
        <3>5. count(j) >= N
            BY <1>7, <1>10, <3>2, <3>3, <3>4
        <3>6. Begun(j * Timeout) = Safe
            BY <1>7, <1>8, <3>5, SafeCounts DEF count, N
        <3> QED
            BY <1>2, <1>3, <1>4, <3>2, <3>6 DEF Begun, Safe
    <2>3. clock <= Timeout * m /\ Timeout * m \in Int
        BY <1>1, <1>2, <1>7
    <2> QED
        BY <1>2, <2>1, <2>2, <2>3
<1>14. SlotsInv'
    BY <1>1, <1>2 DEF SlotsInv
<1> QED
    BY <1>12, <1>13, <1>14

LEMMA NextTime == TimeInv /\ [Next]_vars => TimeInv'
<1> SUFFICES ASSUME TimeInv, [Next]_vars PROVE TimeInv'
    OBVIOUS
<1>1. ScrapeInv'
    BY NextInv DEF TimeInv
<1>2. CASE \E t \in Targets : Refuse(t) \/ Start(t) \/ Work(t)
    BY <1>1, <1>2, WorkTime, StartTime DEF TimeInv
<1>3. CASE Call
    <2>1. SlotsInv'
        BY <1>3 DEF Call, SlotsInv, HoldsSlot
    <2>2. RoundsInv'
        BY <1>3, ScrapeAssumption DEF Call, RoundsInv
    <2>3. InTime'
        <3> DEFINE m == (Cardinality(Safe) + Slots - 1) \div Slots
        <3>1. InTime' <=> clock' <= Timeout * m
            BY RoundsEnough, Zenon DEF InTime, Safe
        <3>2. clock' = 0 /\ Timeout \in Nat
            BY <1>3, ScrapeAssumption DEF Call
        <3>3. m \in Nat
            BY RoundsEnough
        <3> HIDE DEF m
        <3>4. 0 <= Timeout * m
            BY <3>2, <3>3
        <3> QED
            BY <3>1, <3>2, <3>4
    <2> QED
        BY <1>1, <2>1, <2>2, <2>3 DEF TimeInv
<1>4. CASE Tick
    BY <1>1, <1>4, TickTime DEF TimeInv
<1>5. CASE Return \/ UNCHANGED vars
    <2>1. /\ clock' = clock /\ since' = since /\ todo' = todo
          /\ sem' = sem /\ worker' = worker
        BY <1>5 DEF Return, vars
    <2>2. RoundsInv' /\ InTime'
        BY <2>1, RoundsStay DEF TimeInv
    <2> QED
        BY <1>1, <2>1, <2>2 DEF TimeInv, SlotsInv
<1> QED
    BY <1>2, <1>3, <1>4, <1>5 DEF Next

(* However many nodes, slots and failures there are, a call is over within *)
(* one Timeout for every Slots nodes (sem, context.WithTimeout).           *)
THEOREM CallsInTime == Spec => []InTime
<1>1. Init => TimeInv
    BY InitInv, InitTime DEF TimeInv
<1>2. TimeInv => InTime
    BY DEF TimeInv
<1> QED
    BY <1>1, <1>2, NextTime, PTL DEF Spec

=============================================================================
