------------------------------- MODULE Scrape -------------------------------
(***************************************************************************)
(* The central DCGM source: one call of DCGMSource.Sample, which scrapes   *)
(* its targets in parallel (src/internal/gpu/dcgm.go).  The calling        *)
(* goroutine goes through the targets and starts one worker for each,      *)
(* as long as the semaphore has room; a worker scrapes its node under a    *)
(* timeout and adds what it got to a slice, or its error to a map, both    *)
(* shared and guarded by a mutex.                                          *)
(*                                                                         *)
(* An addition is a read and a write, so that two of them can be seen to   *)
(* overwrite each other when the mutex does not keep them apart.  The      *)
(* semaphore and the wait group are sets: of the workers that hold a slot, *)
(* and of those that are not done.  The clock counts from the call.        *)
(***************************************************************************)
EXTENDS Integers, FiniteSets, FiniteSetsExt

CONSTANTS
    Targets,    \* the nodes asked for, without duplicates
    Unsafe,     \* those whose name may not be put into a URL
    Parallel,   \* DCGMSource.Parallel
    Timeout     \* how long a scrape may take

Nobody == "nobody"

ASSUME ScrapeAssumption ==
    /\ IsFiniteSet(Targets) /\ Nobody \notin Targets
    /\ Unsafe \subseteq Targets
    /\ Parallel \in Int
    /\ Timeout \in Nat

VARIABLES
    clock,
    todo,       \* the targets the loop has not come to
    worker,     \* where the worker of each target is
    since,      \* when each scrape began
    good,       \* whether it ended well
    copy,       \* what each worker read of the slice and the map
    mu,         \* who holds the mutex
    sem,        \* who holds a slot of the semaphore
    wg,         \* who is not done yet
    out,        \* the targets whose samples are in the slice
    failed,     \* the targets in the map of errors
    result      \* what the call returned, or "open"

shared == <<out, failed>>
vars == <<clock, todo, worker, since, good, copy, mu, sem, wg, shared, result>>

Nothing == [out |-> {}, failed |-> {}]

Init ==
    /\ clock = 0
    /\ todo = Targets
    /\ worker = [t \in Targets |-> "none"]
    /\ since = [t \in Targets |-> 0]
    /\ good = [t \in Targets |-> FALSE]
    /\ copy = [t \in Targets |-> Nothing]
    /\ mu = Nobody
    /\ sem = {}
    /\ wg = {}
    /\ out = {}
    /\ failed = {}
    /\ result = "open"

-----------------------------------------------------------------------------
(***************************************************************************)
(* The calling goroutine.                                                  *)
(***************************************************************************)
(* Variant for the checks: one slot too few. *)
SlotsLess == IF Parallel <= 1 THEN 1 ELSE Parallel - 1

Slots == IF Parallel < 1 THEN 1 ELSE Parallel

(* A name that may not be put into a URL fails without a worker.           *)
Refuse(t) ==
    /\ t \in todo \cap Unsafe
    /\ mu = Nobody
    /\ todo' = todo \ {t}
    /\ failed' = failed \cup {t}
    /\ UNCHANGED <<clock, worker, since, good, copy, mu, sem, wg, out, result>>

Start(t) ==
    /\ t \in todo \ Unsafe
    /\ Cardinality(sem) < Slots
    /\ todo' = todo \ {t}
    /\ wg' = wg \cup {t}
    /\ sem' = sem \cup {t}
    /\ worker' = [worker EXCEPT ![t] = "scraping"]
    /\ since' = [since EXCEPT ![t] = clock]
    /\ UNCHANGED <<clock, good, copy, mu, shared, result>>

(* Variant for the checks: returns when every worker has its answer. *)
AllAnswered == \A t \in wg : worker[t] # "scraping"

(* wg.Wait *)
AllDone == wg = {}

Outcome ==
    IF Targets = {} THEN "complete"
    ELSE IF Cardinality(failed) = Cardinality(Targets) THEN "unavailable"
    ELSE IF failed # {} THEN "partial"
    ELSE "complete"

Return ==
    /\ result = "open"
    /\ todo = {}
    /\ AllDone
    /\ result' = Outcome
    /\ UNCHANGED <<clock, todo, worker, since, good, copy, mu, sem, wg, shared>>

(* The next cycle calls Sample again.                                      *)
Call ==
    /\ result # "open"
    /\ clock' = 0
    /\ todo' = Targets
    /\ worker' = [t \in Targets |-> "none"]
    /\ since' = [t \in Targets |-> 0]
    /\ good' = [t \in Targets |-> FALSE]
    /\ copy' = [t \in Targets |-> Nothing]
    /\ mu' = Nobody /\ sem' = {} /\ wg' = {}
    /\ out' = {} /\ failed' = {}
    /\ result' = "open"

-----------------------------------------------------------------------------
(***************************************************************************)
(* A worker: the scrape, the addition under the mutex, and what it         *)
(* deferred, last first: unlock, free the slot, done.                      *)
(***************************************************************************)
At(t, place) == worker[t] = place
Goes(t, place) == worker' = [worker EXCEPT ![t] = place]

(* The page is read and parsed, or there is an error: refused, malformed,  *)
(* out of time, or the daemon is told to stop.                             *)
Scraped(t) ==
    /\ At(t, "scraping")
    /\ Goes(t, "answered")
    /\ \E ok \in BOOLEAN : good' = [good EXCEPT ![t] = ok]
    /\ UNCHANGED <<clock, todo, since, copy, mu, sem, wg, shared, result>>

(* Variant for the checks: nobody waits for the mutex. *)
NoMutex == TRUE

Unlocked == mu = Nobody

Lock(t) ==
    /\ At(t, "answered")
    /\ Unlocked
    /\ Goes(t, "locked")
    /\ mu' = t
    /\ copy' = [copy EXCEPT ![t] = [out |-> out, failed |-> failed]]
    /\ UNCHANGED <<clock, todo, since, good, sem, wg, shared, result>>

Add(t) ==
    /\ At(t, "locked")
    /\ Goes(t, "added")
    /\ IF good[t] THEN out' = copy[t].out \cup {t} /\ failed' = failed
                  ELSE failed' = copy[t].failed \cup {t} /\ out' = out
    /\ UNCHANGED <<clock, todo, since, good, copy, mu, sem, wg, result>>

Unlock(t) ==
    /\ At(t, "added")
    /\ Goes(t, "unlocked")
    /\ mu' = Nobody
    /\ UNCHANGED <<clock, todo, since, good, copy, sem, wg, shared, result>>

(* Variant for the checks: a worker that failed keeps its slot. *)
FreedIfGood(t) == IF good[t] THEN sem \ {t} ELSE sem

Freed(t) == sem \ {t}

Free(t) ==
    /\ At(t, "unlocked")
    /\ Goes(t, "freed")
    /\ sem' = Freed(t)
    /\ UNCHANGED <<clock, todo, since, good, copy, mu, wg, shared, result>>

Done(t) ==
    /\ At(t, "freed")
    /\ Goes(t, "done")
    /\ wg' = wg \ {t}
    /\ UNCHANGED <<clock, todo, since, good, copy, mu, sem, shared, result>>

Work(t) == Scraped(t) \/ Lock(t) \/ Add(t) \/ Unlock(t) \/ Free(t) \/ Done(t)

-----------------------------------------------------------------------------
(* Time passes while workers scrape, each within its timeout; everything   *)
(* else takes no time worth counting.                                      *)
OnlyScrapes ==
    /\ \A t \in wg : At(t, "scraping")
    /\ \/ todo = {}
       \/ ~(todo \subseteq Unsafe) /\ Cardinality(sem) >= Slots

Tick ==
    /\ wg # {}
    /\ OnlyScrapes
    /\ \A t \in wg : clock - since[t] < Timeout
    /\ clock' = clock + 1
    /\ UNCHANGED <<todo, worker, since, good, copy, mu, sem, wg, shared, result>>

Next ==
    \/ \E t \in Targets : Refuse(t) \/ Start(t) \/ Work(t)
    \/ Return
    \/ Call
    \/ Tick

Spec == Init /\ [][Next]_vars

(* Goroutines that can run do run, and a scrape is over at its timeout.    *)
(* Nothing is assumed of the next call.                                    *)
FairSpec ==
    /\ Spec
    /\ \A t \in Targets : WF_vars(Refuse(t) \/ Start(t)) /\ WF_vars(Work(t))
    /\ WF_vars(Return)

-----------------------------------------------------------------------------
(***************************************************************************)
(* What must hold.                                                         *)
(***************************************************************************)
Places == {"none", "scraping", "answered", "locked", "added", "unlocked", "freed", "done"}
Tallies == [out : SUBSET Targets, failed : SUBSET Targets]

(* Every variable has its type (Sample's local variables).                 *)
TypeOK ==
    /\ clock \in Nat
    /\ todo \subseteq Targets
    /\ worker \in [Targets -> Places]
    /\ since \in [Targets -> Nat]
    /\ good \in [Targets -> BOOLEAN]
    /\ copy \in [Targets -> Tallies]
    /\ mu \in Targets \cup {Nobody}
    /\ sem \subseteq Targets /\ wg \subseteq Targets
    /\ out \subseteq Targets /\ failed \subseteq Targets
    /\ result \in {"open", "complete", "partial", "unavailable"}

(* A call that scrapes N targets, P at a time, takes no longer than N/P    *)
(* timeouts, rounded up: this bounds how old a sample is when the cycle    *)
(* records it (JobWatch's MaxLag), and how long a cycle waits for GPUs     *)
(* that do not answer (sem, and scrape's context.WithTimeout).             *)
InTime ==
    LET atOnce == Max({1, Parallel})
    IN  clock <= Timeout * ((Cardinality(Targets \ Unsafe) + atOnce - 1) \div atOnce)

(* Every call returns: no slot, lock or wait is held for ever, whoever     *)
(* fails and in whatever order (the deferred calls of a worker).           *)
Returns == result = "open" ~> result # "open"

Answers ==
    [t \in Targets |->
        IF t \in out THEN "sampled" ELSE IF t \in failed THEN "failed" ELSE "pending"]

C == INSTANCE Collect WITH answer <- Answers

(* However the workers interleave, the call answers for every target once  *)
(* and for good, as sampled or as failed, and returns what they add up to: *)
(* no addition to the slice or the map is lost (mu), and none is missing   *)
(* when it returns (wg).                                                   *)
Collects == C!Spec

-----------------------------------------------------------------------------
(***************************************************************************)
(* Why it holds.                                                           *)
(***************************************************************************)
AddedAt == {"added", "unlocked", "freed", "done"}
HoldsMu == {"locked", "added"}

(* A worker stands for a target that was taken from the list, and is in    *)
(* the wait group until it is done.                                        *)
WorkersInv ==
    \A t \in Targets :
        /\ worker[t] # "none" <=> t \notin todo /\ t \notin Unsafe
        /\ t \in wg <=> worker[t] \notin {"none", "done"}

(* The mutex has one holder, whose copy is up to date until it adds to it. *)
MutexInv ==
    \A t \in Targets :
        /\ worker[t] \in HoldsMu <=> mu = t
        /\ worker[t] = "locked" => copy[t] = [out |-> out, failed |-> failed]

(* What was added is there, on one side only.                              *)
AddedInv ==
    /\ out \cap failed = {}
    /\ out \cap Unsafe = {}
    /\ \A t \in Targets :
          t \in out \cup failed <=>
              worker[t] \in AddedAt \/ (t \in Unsafe /\ t \notin todo)

(* A call that returned is over.                                           *)
OverInv == result # "open" => todo = {} /\ wg = {}

ScrapeInv == TypeOK /\ WorkersInv /\ MutexInv /\ AddedInv /\ OverInv

=============================================================================
