------------------------------- MODULE MCReaper -------------------------------
(***************************************************************************)
(* Reaper for TLC: two nodes, one or two jobs, and the stages of the runs. *)
(***************************************************************************)
EXTENDS Reaper, TLC

CONSTANTS j1, j2, n1, n2

BothNodes == {{n1, n2}}
Overlap   == {{n1}, {n1, n2}}

(* The jobs differ in name only.                                           *)
Jobs == Permutations({j1, j2})

Idle == [util |-> 0,  mem |-> 0,  power |-> 30,  pids |-> 0, mig |-> FALSE]
Busy == [util |-> 90, mem |-> 60, power |-> 300, pids |-> 1, mig |-> FALSE]

Central(jobs, faults, readings) ==
    [jobs |-> jobs, perNode |-> FALSE, labels |-> FALSE, enforce |-> FALSE,
     readings |-> readings, faults |-> faults]

(* One daemon for all nodes, any of which may be silent; the same with one *)
(* job that may be at work, records that are refused and collections that  *)
(* fail; and a daemon on one node, with labelled samples.                  *)
Deployments ==
    {Central({j1, j2}, {"node"}, {Idle}),
     [Central({j1, j2}, {"sample"}, {Idle}) EXCEPT !.perNode = TRUE, !.labels = TRUE]}
    \cup {Central({j}, {"node", "sample", "reject"}, {Idle, Busy}) : j \in {j1, j2}}

Enforcing ==
    {[Central({j1}, {"list", "sample", "drain", "crash"}, {Idle}) EXCEPT !.enforce = TRUE]}

(* Every stage is due at once, so that only the ladder holds a job back.   *)
Eager == <<[after |-> 0, verdict |-> Alert],
           [after |-> 0, verdict |-> Drain],
           [after |-> 0, verdict |-> Cancel]>>

OnlyAlert == <<[after |-> 0, verdict |-> Alert]>>

=============================================================================
