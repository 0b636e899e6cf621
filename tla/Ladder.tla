------------------------------- MODULE Ladder -------------------------------
(***************************************************************************)
(* What the policy engine promises of the escalation of one JobID, without *)
(* samples, coverage or signatures (src/internal/policy/policy.go: the     *)
(* comment of Verdict, and Evaluate from the ladder on).                   *)
(*                                                                         *)
(* A breach climbs one rung at a time and may be over at any time; a drain *)
(* is asked for once, and counts from the time it was asked for when it is *)
(* confirmed; a cancel waits.  JobWatch implements this for one job under  *)
(* everything that may happen to its evidence, and Reaper for each of its  *)
(* jobs under everything that may happen between the calls of a cycle.     *)
(***************************************************************************)
EXTENDS Integers

CONSTANT Wait    \* Thresholds.Window

VARIABLES
    clock,
    rung,        \* lastVerdict
    asked,       \* when a drain was asked for whose outcome is open, or None
    drainedAt    \* drainConfirmedAt

vars == <<clock, rung, asked, drainedAt>>

None     == -1
Healthy  == 0
Watching == 1
Alert    == 2
Drain    == 3
Cancel   == 4

Init ==
    /\ clock = 0
    /\ rung = Healthy
    /\ asked = None
    /\ drainedAt = None

Tick ==
    /\ clock' = clock + 1
    /\ UNCHANGED <<rung, asked, drainedAt>>

(* The breach goes on, but nothing is to be drained: it is too early, the  *)
(* signature does not allow more, or the drain was made before.            *)
Warn ==
    /\ rung' \in {Watching, Alert}
    /\ asked' = None
    /\ UNCHANGED <<clock, drainedAt>>

AskDrain ==
    /\ rung >= Alert
    /\ rung' = Drain
    /\ asked' = IF drainedAt = None THEN clock ELSE None
    /\ UNCHANGED <<clock, drainedAt>>

AskCancel ==
    /\ rung >= Drain
    /\ drainedAt # None
    /\ clock - drainedAt >= Wait
    /\ rung' = Cancel
    /\ asked' = None
    /\ UNCHANGED <<clock, drainedAt>>

Drained ==
    /\ asked # None
    /\ drainedAt' = asked
    /\ asked' = None
    /\ UNCHANGED <<clock, rung>>

(* The drain failed, or the cycle that asked for it is over.               *)
Forgone ==
    /\ asked' = None
    /\ UNCHANGED <<clock, rung, drainedAt>>

(* The evidence, the incarnation or the daemon's memory is gone; another   *)
(* breach may be seen in the same cycle, from its first rungs.             *)
Over ==
    /\ rung' \in {Healthy, Watching, Alert}
    /\ asked' = None
    /\ drainedAt' = None
    /\ UNCHANGED clock

Next == Tick \/ Warn \/ AskDrain \/ AskCancel \/ Drained \/ Forgone \/ Over

Spec == Init /\ [][Next]_vars

=============================================================================
