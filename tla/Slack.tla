-------------------------------- MODULE Slack --------------------------------
(***************************************************************************)
(* The Slack notifier and what the channel gets to know of one JobID       *)
(* (src/internal/action/action.go: SlackActor; its caller reaper.cycle in  *)
(* src/cmd/gpu-reaper/main.go).  The notifier's map holds one record per   *)
(* JobID and no operation looks at two, so one JobID shows them all.       *)
(*                                                                         *)
(* The time is the number of cycles since a post: no bound on the clock is *)
(* needed.  The engine is any engine that climbs its ladder one rung at a   *)
(* time and falls back at will.                                            *)
(***************************************************************************)
EXTENDS Integers

CONSTANTS
    MinVerdict,
    RemindEvery,   \* in cycles; 0: never
    MaxStarts,     \* bound on the starts of the job
    Faults         \* "fail": a post fails; "unsure": delivered, but reported
                   \* as failed; "forget": the listing misses the job;
                   \* "crash": the daemon restarts

VARIABLES
    start,     \* the incarnation of the job
    verdict,   \* the engine's verdict in the last cycle
    sent,      \* SlackActor.sent of the JobID
    channel,   \* the last post about the job in the channel
    warned,    \* history: this breach's Alert was posted
    unsure,    \* history: a post came through that the notifier takes for lost
    last       \* what the last cycle came to; "judged" while it handles

vars == <<start, verdict, sent, channel, warned, unsure, last>>

ASSUME SlackAssumption ==
    /\ MinVerdict \in 2 .. 4
    /\ RemindEvery \in Nat
    /\ MaxStarts \in Nat \ {0}
    /\ Faults \subseteq {"fail", "unsure", "forget", "crash"}

Healthy == 0
Alert   == 2
Drain   == 3
Cancel  == 4

Unsent == [start |-> 0, verdict |-> Healthy, age |-> 0]

Init ==
    /\ start = 1
    /\ verdict = Healthy
    /\ sent = Unsent
    /\ channel = Unsent
    /\ warned = FALSE
    /\ unsure = FALSE
    /\ last = "none"

-----------------------------------------------------------------------------
(* Ages beyond the reminder make no difference.                            *)
Older(post) ==
    [post EXCEPT !.age = IF @ < RemindEvery THEN @ + 1 ELSE @]

Between == last # "judged"

(* The engine skips no rung above Alert (Breach), and a breach may end at  *)
(* any time.                                                               *)
Reachable(v) == {Healthy, Alert} \cup {w \in {Drain, Cancel} : w <= v + 1}

(* A cycle: the job is judged, and its finding is to be handled.           *)
Judge ==
    /\ Between
    /\ verdict' \in Reachable(verdict)
    /\ warned' = (warned /\ verdict' >= Alert)
    /\ sent' = Older(sent)
    /\ channel' = Older(channel)
    /\ last' = "judged"
    /\ UNCHANGED <<start, unsure>>

(* Variant for the checks: nothing is ever said twice. *)
KnownForEver == sent.start = start /\ sent.verdict = verdict

Known ==
    /\ sent.start = start
    /\ sent.verdict = verdict
    /\ RemindEvery = 0 \/ sent.age < RemindEvery

Handling == last = "judged" /\ verdict >= MinVerdict

(* A finding below MinVerdict is not for Slack, and one below Alert is     *)
(* handled by nobody.                                                      *)
Skip ==
    /\ last = "judged"
    /\ verdict < MinVerdict
    /\ last' = "none"
    /\ UNCHANGED <<start, verdict, sent, channel, warned, unsure>>

Quiet ==
    /\ Handling
    /\ Known
    /\ last' = "known"
    /\ UNCHANGED <<start, verdict, sent, channel, warned, unsure>>

Say == [start |-> start, verdict |-> verdict, age |-> 0]

(* Variant for the checks: the record has no time. *)
RecordedUndated == [Say EXCEPT !.age = RemindEvery]

Recorded == Say

Posted ==
    /\ Handling
    /\ ~Known
    /\ sent' = Recorded
    /\ channel' = Say
    /\ warned' = (warned \/ verdict = Alert)
    /\ unsure' = FALSE
    /\ last' = "posted"
    /\ UNCHANGED <<start, verdict>>

(* Variant for the checks: the record is written before the post. *)
RecordedFirst == Say

AfterFailure == sent

(* The post fails, or times out, with or without reaching the channel; the *)
(* error is logged, and the cluster's turn comes all the same.             *)
PostFails ==
    /\ Handling
    /\ ~Known
    /\ \/ /\ "fail" \in Faults
          /\ UNCHANGED <<channel, warned, unsure>>
       \/ /\ "unsure" \in Faults
          /\ channel' = Say
          /\ warned' = (warned \/ verdict = Alert)
          /\ unsure' = TRUE
    /\ sent' = AfterFailure
    /\ last' = "failed"
    /\ UNCHANGED <<start, verdict>>

(* A cycle that does not list the job: engine and notifier forget it.      *)
Forget ==
    /\ "forget" \in Faults
    /\ Between
    /\ verdict' = Healthy
    /\ sent' = Unsent
    /\ channel' = Older(channel)
    /\ warned' = FALSE
    /\ last' = "none"
    /\ UNCHANGED <<start, unsure>>

(* The job is requeued between two cycles.                                 *)
Requeue ==
    /\ Between
    /\ start < MaxStarts
    /\ start' = start + 1
    /\ verdict' = Healthy
    /\ warned' = FALSE
    /\ last' = "none"
    /\ UNCHANGED <<sent, channel, unsure>>

(* The daemon is restarted.                                                *)
Restart ==
    /\ "crash" \in Faults
    /\ verdict' = Healthy
    /\ sent' = Unsent
    /\ warned' = FALSE
    /\ last' = "none"
    /\ UNCHANGED <<start, channel, unsure>>

Next == Judge \/ Skip \/ Quiet \/ Posted \/ PostFails \/ Forget \/ Requeue \/ Restart

Spec == Init /\ [][Next]_vars

(* Cycles go on, and a post that is tried again and again gets through.    *)
FairSpec ==
    /\ Spec
    /\ WF_vars(Judge) /\ WF_vars(Skip \/ Quiet \/ Posted \/ PostFails) /\ SF_vars(Posted)

-----------------------------------------------------------------------------
Post == [start : 0 .. MaxStarts, verdict : {Healthy, Alert, Drain, Cancel},
         age : 0 .. RemindEvery]

TypeOK ==
    /\ start \in 1 .. MaxStarts
    /\ verdict \in {Healthy, Alert, Drain, Cancel}
    /\ sent \in Post /\ channel \in Post
    /\ warned \in BOOLEAN /\ unsure \in BOOLEAN
    /\ last \in {"none", "known", "posted", "failed", "judged"}

Says(v) == channel.start = start /\ channel.verdict = v

(* When a cycle handles a finding that Slack is to know of, and no error   *)
(* is logged, the channel's last word on the job is that verdict for that  *)
(* incarnation, younger than a reminder (SlackActor.Handle) - unless a     *)
(* post got through that was reported as failed.                           *)
ChannelCurrent ==
    last = "posted" \/ (last = "known" /\ ~unsure) =>
        Says(verdict) /\ (RemindEvery > 0 => channel.age < RemindEvery)

(* The channel is told the same of the same incarnation again only when    *)
(* the reminder is due, the notifier has lost its record or a post got     *)
(* through unnoticed (TestSlackPostsOnChangeNotEveryCycle).                *)
NoRepeats ==
    [][ Posted /\ ~unsure /\ sent.verdict # Healthy /\ Says(verdict) =>
            RemindEvery > 0 /\ channel.age >= RemindEvery ]_vars

(* A job that stays at a verdict is announced at it in the end, however    *)
(* often the post fails before, and mentioned again and again              *)
(* (TestSlackFailedPostIsRetriedNextCycle, RemindEvery).                   *)
StaysAt(v) == <>[](verdict = v)

Reminded ==
    RemindEvery > 0 =>
        \A v \in MinVerdict .. Cancel :
            StaysAt(v) => []<>(last = "posted" /\ Says(v))

-----------------------------------------------------------------------------
(* What the documentation says and the code does not keep.                 *)

(* "It posts when a job's verdict changes" (action.go): a job that has     *)
(* recovered is announced when it is in breach again.                      *)
ChangePosted ==
    [][ Quiet => warned \/ verdict # Alert ]_vars

(* A drain "needs a previous cycle to have reported Alert (logged, and     *)
(* posted to Slack if configured)" (policy.go).                            *)
WarnedFirst == MinVerdict = Alert /\ Handling /\ verdict = Drain => warned

=============================================================================
