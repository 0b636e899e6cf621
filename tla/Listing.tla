------------------------------- MODULE Listing -------------------------------
(***************************************************************************)
(* What the daemon takes from a listing of the running jobs                *)
(* (src/internal/slurm/sources.go: ParseSqueue and parseSqueueLine,        *)
(* convertREST, normalizeState, normalizeTime, ParseGPUCount).             *)
(*                                                                         *)
(* The records arrive one by one, as lines of squeue or as objects of      *)
(* slurmrestd.  A record is                                                *)
(*   id      a JobID, or NoID for a line that has none, or too few fields  *)
(*   state   the names it gives, in order; a bare string is one name       *)
(*   start   [set, infinite, number]: a bare number, or an object without  *)
(*           the flags, is set and finite; squeue prints a time, or "N/A"  *)
(*   nodes   a set of nodes, or Malformed where ExpandNodeList refuses it  *)
(*   gpus    how many GPUs of each type the job holds, and                 *)
(*   shown   whether its TRES give the types, the total, or both, and in   *)
(*           which order                                                   *)
(* Empty lines, which are skipped, and counts too large for an int are     *)
(* left out.                                                               *)
(* Module Hostlist has the host lists.                                     *)
(***************************************************************************)
EXTENDS Integers, Sequences, FiniteSets, SequencesExt

CONSTANTS
    Records,     \* the records that may be listed
    NoID, Malformed,
    MaxRecords   \* bound on the length of a listing


Sum(ns) == FoldLeft(+, 0, ns)

ASSUME ListingAssumption ==
    /\ MaxRecords \in Nat
    /\ \A r \in Records :
          /\ r.start.number \in Int
          /\ r.gpus \in Seq(Nat)
          /\ Sum(r.gpus) \in Nat

VARIABLES
    source,      \* "squeue" or "rest"
    read,        \* the records read so far
    jobs,        \* the jobs made of them, each with the place of its record
    reported,    \* the places of the records passed to OnReject
    finished

vars == <<source, read, jobs, reported, finished>>

None == -1   \* no start time

Init ==
    /\ source \in {"squeue", "rest"}
    /\ read = <<>>
    /\ jobs = {}
    /\ reported = {}
    /\ finished = FALSE

-----------------------------------------------------------------------------
Typed(r) == [i \in DOMAIN r.gpus |-> [typed |-> TRUE, n |-> r.gpus[i]]]
Total(r) == <<[typed |-> FALSE, n |-> Sum(r.gpus)]>>

(* The GPU entries of the record's TRES, as Slurm writes them.             *)
TRES(r) ==
    CASE r.shown = "typed"      -> Typed(r)
      [] r.shown = "total"      -> Total(r)
      [] r.shown = "typed last" -> Total(r) \o Typed(r)
      [] OTHER                  -> Typed(r) \o Total(r)

Counts(entries) == [i \in DOMAIN entries |-> entries[i].n]

(* Variant for the checks: adds typed and untyped entries. *)
AllEntries(entries) == Sum(Counts(entries))

ParseGPUCount(entries) ==
    LET untyped == SelectInSeq(entries, LAMBDA e : ~e.typed)
    IN  IF untyped # 0 THEN entries[untyped].n ELSE Sum(Counts(entries))

State(r) == IF r.state = <<>> THEN "" ELSE r.state[1]

(* Variant for the checks: any number is a time. *)
AnyNumber(t) == IF t.set /\ ~t.infinite THEN t.number ELSE None

(* normalizeTime *)
StartTime(t) == IF t.set /\ ~t.infinite /\ t.number > 0 THEN t.number ELSE None

(* A record may be refused for the text of its fields.  Only a line of     *)
(* squeue is refused for its start time or state.                          *)
Refused(r) ==
    \/ r.nodes = Malformed
    \/ source = "squeue" /\ (r.id = NoID \/ State(r) # "RUNNING" \/ StartTime(r.start) = None)

(* slurmrestd lists all jobs: those that do not run are passed over.       *)
PassedOver(r) == source = "rest" /\ State(r) # "RUNNING"

JobOf(r, place) ==
    [at |-> place, id |-> r.id, start |-> StartTime(r.start), nodes |-> r.nodes,
     gpus |-> ParseGPUCount(TRES(r))]

Read(r) ==
    LET place == Len(read) + 1
    IN  /\ ~finished
        /\ place <= MaxRecords
        /\ source = "rest" => r.id # NoID      \* a number
        /\ read' = Append(read, r)
        /\ jobs' = IF PassedOver(r) \/ Refused(r) THEN jobs ELSE jobs \cup {JobOf(r, place)}
        /\ reported' = IF ~PassedOver(r) /\ Refused(r) THEN reported \cup {place} ELSE reported
        /\ UNCHANGED <<source, finished>>

(* Variant for the checks: the first copy is kept. *)
LaterCopies == {j \in jobs : \E k \in jobs : k.id = j.id /\ k.at < j.at}

(* Every copy of a JobID that several lines gave. *)
Copies == {j \in jobs : \E k \in jobs : k.id = j.id /\ k.at # j.at}

(* Variant for the checks: one report for all copies. *)
FirstOf(dropped) == {j.at : j \in {j \in dropped : \A k \in dropped : j.at <= k.at}}

Each(dropped) == {j.at : j \in dropped}

Finish ==
    LET dropped == IF source = "squeue" THEN Copies ELSE {}
    IN  /\ ~finished
        /\ finished' = TRUE
        /\ jobs' = jobs \ dropped
        /\ reported' = reported \cup Each(dropped)
        /\ UNCHANGED <<source, read>>

Next == Finish \/ \E r \in Records : Read(r)

Spec == Init /\ [][Next]_vars

-----------------------------------------------------------------------------
(***************************************************************************)
(* What must hold.                                                         *)
(***************************************************************************)

(* A job is made of one record; a start time is one, or known to be none   *)
(* (normalizeTime: never 1970, and never "now").                           *)
TypeOK ==
    /\ reported \subseteq DOMAIN read
    /\ \A j \in jobs :
          /\ j.at \in DOMAIN read \ reported
          /\ j.nodes # Malformed
          /\ j.start = None \/ j.start > 0
          /\ j.gpus \in Nat

(* A job holds as many GPUs as its record says, however the record says    *)
(* it: waste is not counted double (ParseGPUCount).                        *)
CountedOnce == \A j \in jobs : j.gpus = Sum(read[j.at].gpus)

(* No co-tenant is missed without a trace: where a listing leaves out a    *)
(* record of a running job, it was reported (RejectFunc).                  *)
NothingSilent ==
    finished =>
        \A place \in DOMAIN read :
            \/ \E j \in jobs : j.at = place
            \/ place \in reported
            \/ source = "rest" /\ State(read[place]) # "RUNNING"

(* A squeue listing yields no job of which another readable line spoke,    *)
(* and none without a start time; slurmrestd may yield both, and leaves    *)
(* them to the shared-node rule and to "start time unknown" (ParseSqueue). *)
OneOfEach ==
    finished /\ source = "squeue" =>
        \A j \in jobs :
            /\ j.start # None
            /\ \A place \in DOMAIN read \ {j.at} :
                  read[place].id = j.id => Refused(read[place])

=============================================================================
