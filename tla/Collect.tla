------------------------------ MODULE Collect ------------------------------
(***************************************************************************)
(* What a central GPU source promises of one call of Sample                *)
(* (src/internal/gpu/gpu.go: Source, PartialError, ErrUnavailable): every  *)
(* target is answered for exactly once, as sampled or as failed, and the   *)
(* call says so when some or all of them failed.  Nothing here is          *)
(* concurrent; module Scrape shows that the parallel scrape implements it. *)
(* Module Reaper takes its samples from such an outcome.                   *)
(***************************************************************************)
CONSTANTS
    Targets,     \* the nodes asked for, without duplicates
    Unsafe       \* those whose name may not be put into a URL

VARIABLES
    answer,      \* what is known of each target
    result       \* what the call returned, or "open"

vars == <<answer, result>>

Unanswered == [t \in Targets |-> "pending"]

(* Sample's error: none, PartialError or ErrUnavailable.                   *)
Outcome(ans) ==
    IF Targets = {} THEN "complete"
    ELSE IF \A t \in Targets : ans[t] = "failed" THEN "unavailable"
    ELSE IF \E t \in Targets : ans[t] = "failed" THEN "partial"
    ELSE "complete"

Init ==
    /\ answer = Unanswered
    /\ result = "open"

Answer(t) ==
    /\ result = "open"
    /\ answer[t] = "pending"
    /\ \E a \in {"sampled", "failed"} :
          /\ t \in Unsafe => a = "failed"
          /\ answer' = [answer EXCEPT ![t] = a]
    /\ UNCHANGED result

Return ==
    /\ result = "open"
    /\ \A t \in Targets : answer[t] # "pending"
    /\ result' = Outcome(answer)
    /\ UNCHANGED answer

(* The next cycle collects again, from nothing.                            *)
Call ==
    /\ result # "open"
    /\ answer' = Unanswered
    /\ result' = "open"

Next == (\E t \in Targets : Answer(t)) \/ Return \/ Call

Spec == Init /\ [][Next]_vars

=============================================================================
