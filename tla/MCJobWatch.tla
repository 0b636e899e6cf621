----------------------------- MODULE MCJobWatch -----------------------------
(***************************************************************************)
(* JobWatch for TLC: what nodes may report, and the stages of the runs.    *)
(***************************************************************************)
EXTENDS JobWatch

CONSTANTS n1

OneNode  == {n1}

OneGPU    == {{0}}
SomeGPUs  == {{0, 1}, {0}, {1}}

(* Utilization and memory in percent, power in watts, processes.           *)
Read(util, mem, power, pids) ==
    [util |-> util, mem |-> mem, power |-> power, pids |-> pids, mig |-> FALSE]

Idle       == Read(0, 0, 30, 0)
Busy       == Read(90, 60, 300, 1)
Hung       == Read(0, 60, 80, 1)
PidsUnread == Read(0, 0, 30, Unknown)
UtilUnread == Read(Unknown, 0, 30, 0)

IdleOrBusy  == {Idle, Busy}
Mixed       == {Idle, Hung, PidsUnread, UtilUnread}

Known == {TRUE}
Never == {FALSE}
Both  == {TRUE, FALSE}

(* Alert at once, drain and cancel after one Window of dwell.              *)
ThreeStages == <<[after |-> 0, verdict |-> Alert],
                 [after |-> Window, verdict |-> Drain],
                 [after |-> Window, verdict |-> Cancel]>>

=============================================================================
