---------------------------- MODULE SlackProofs -----------------------------
(***************************************************************************)
(* What the channel is told, for any MinVerdict, any reminder and any of   *)
(* the faults: ChannelCurrent and NoRepeats of Slack.  The notifier's      *)
(* record is all it knows of the channel; SlackInv says when it is right.  *)
(***************************************************************************)
EXTENDS Slack, TLAPS

(* A record is of a post the channel had, as old as the channel's last     *)
(* post, which it is - unless a later one got through unnoticed.           *)
RecordIsChannel ==
    /\ sent.verdict # Healthy => sent.start # 0
    /\ sent.start # 0 /\ ~unsure => sent = channel

SlackInv == TypeOK /\ RecordIsChannel /\ ChannelCurrent

(* Verdicts and posts have their types whatever the age of a post.         *)
LEMMA PostType ==
    /\ Unsent \in Post
    /\ \A post \in Post : Older(post) \in Post
    /\ \A post \in Post : Older(post).start = post.start /\ Older(post).verdict = post.verdict
<1>1. Unsent \in Post
    BY SlackAssumption DEF Unsent, Post
<1>2. ASSUME NEW post \in Post
      PROVE  /\ Older(post) \in Post
             /\ Older(post).start = post.start /\ Older(post).verdict = post.verdict
    BY SlackAssumption DEF Older, Post
<1> QED
    BY <1>1, <1>2

LEMMA SayType == TypeOK /\ verdict # Healthy => /\ Say \in Post
                                              /\ Say.start = start /\ Say.verdict = verdict
                                              /\ Say.age = 0 /\ Say.start # 0
BY SlackAssumption DEF TypeOK, Say, Post

LEMMA InitSlack == Init => SlackInv
<1> SUFFICES ASSUME Init PROVE SlackInv
    OBVIOUS
<1>1. Unsent.verdict = Healthy /\ Unsent.start = 0
    BY DEF Unsent
<1>2. TypeOK
    <2>1. 1 \in 1 .. MaxStarts
        BY SlackAssumption
    <2> QED
        BY <2>1, PostType DEF Init, TypeOK
<1>3. RecordIsChannel /\ ChannelCurrent
    BY <1>1 DEF Init, RecordIsChannel, ChannelCurrent
<1> QED
    BY <1>2, <1>3 DEF SlackInv

LEMMA NextSlack == SlackInv /\ [Next]_vars => SlackInv'
<1> SUFFICES ASSUME SlackInv, [Next]_vars PROVE SlackInv'
    OBVIOUS
<1> USE DEF SlackInv
<1>0. Unsent.verdict = Healthy /\ Unsent.start = 0
    BY DEF Unsent
<1>1. CASE Judge
    <2>1. verdict' \in {Healthy, Alert, Drain, Cancel}
        BY <1>1 DEF Judge, Reachable
    <2>2. TypeOK'
        BY <1>1, <2>1, PostType DEF Judge, TypeOK
    <2>3. RecordIsChannel'
        BY <1>1, PostType DEF Judge, RecordIsChannel, TypeOK
    <2>4. ChannelCurrent'
        BY <1>1 DEF Judge, ChannelCurrent
    <2> QED
        BY <2>2, <2>3, <2>4
<1>2. CASE Skip
    BY <1>2 DEF Skip, TypeOK, RecordIsChannel, ChannelCurrent
<1>3. CASE Quiet
    <2>1. TypeOK' /\ RecordIsChannel'
        BY <1>3 DEF Quiet, TypeOK, RecordIsChannel
    <2>2. sent.start # 0
        BY <1>3 DEF Quiet, Known, TypeOK
    <2>3. ChannelCurrent'
        BY <1>3, <2>2, SlackAssumption DEF Quiet, Known, RecordIsChannel, ChannelCurrent, Says
    <2> QED
        BY <2>1, <2>3
<1>4. CASE Posted
    <2>1. verdict # Healthy
        BY <1>4, SlackAssumption DEF Posted, Handling, Healthy, TypeOK
    <2>2. /\ Say \in Post /\ Say.start = start /\ Say.verdict = verdict
          /\ Say.age = 0 /\ Say.start # 0
        BY <2>1, SayType
    <2>3. TypeOK' /\ RecordIsChannel'
        BY <1>4, <2>2 DEF Posted, Recorded, TypeOK, RecordIsChannel
    <2>4. ChannelCurrent'
        BY <1>4, <2>2, SlackAssumption DEF Posted, ChannelCurrent, Says
    <2> QED
        BY <2>3, <2>4
<1>5. CASE PostFails
    <2>1. verdict # Healthy
        BY <1>5, SlackAssumption DEF PostFails, Handling, Healthy, TypeOK
    <2>2. Say \in Post
        BY <2>1, SayType
    <2>3. TypeOK'
        BY <1>5, <2>2 DEF PostFails, AfterFailure, TypeOK
    <2>4. RecordIsChannel' /\ ChannelCurrent'
        BY <1>5 DEF PostFails, AfterFailure, RecordIsChannel, ChannelCurrent
    <2> QED
        BY <2>3, <2>4
<1>6. CASE Forget
    BY <1>0, <1>6, PostType DEF Forget, TypeOK, RecordIsChannel, ChannelCurrent
<1>7. CASE Requeue
    <2>1. start' \in 1 .. MaxStarts
        BY <1>7, SlackAssumption DEF Requeue, TypeOK
    <2> QED
        BY <1>7, <2>1 DEF Requeue, TypeOK, RecordIsChannel, ChannelCurrent
<1>8. CASE Restart
    BY <1>0, <1>8, PostType DEF Restart, TypeOK, RecordIsChannel, ChannelCurrent
<1>9. CASE UNCHANGED vars
    BY <1>9 DEF vars, TypeOK, RecordIsChannel, ChannelCurrent, Says
<1> QED
    BY <1>1, <1>2, <1>3, <1>4, <1>5, <1>6, <1>7, <1>8, <1>9 DEF Next

LEMMA SlackInvariant == Spec => []SlackInv
BY InitSlack, NextSlack, PTL DEF Spec

(* The notifier's record and the channel's last word stay posts, for any   *)
(* reminder and MinVerdict (SlackActor's sent map).                        *)
THEOREM SlackTypes == Spec => []TypeOK
<1>1. SlackInv => TypeOK
    BY DEF SlackInv
<1> QED
    BY <1>1, SlackInvariant, PTL

(* When a finding was handled and no error was logged, the channel's last  *)
(* word on the job is its verdict, younger than a reminder, whatever was   *)
(* lost, forgotten or restarted before (SlackActor.Handle).                *)
THEOREM ChannelIsCurrent == Spec => []ChannelCurrent
<1>1. SlackInv => ChannelCurrent
    BY DEF SlackInv
<1> QED
    BY <1>1, SlackInvariant, PTL

(* No post is made that repeats the channel's last word before a reminder  *)
(* is due, as long as the notifier knows of it (SlackActor.Handle).        *)
THEOREM NothingRepeated == Spec => NoRepeats
<1> DEFINE Fair == Posted /\ ~unsure /\ sent.verdict # Healthy /\ Says(verdict) =>
                       RemindEvery > 0 /\ channel.age >= RemindEvery
<1>1. SlackInv /\ [Next]_vars => [Fair]_vars
    <2> SUFFICES ASSUME SlackInv, Posted, ~unsure, sent.verdict # Healthy, Says(verdict)
                 PROVE  RemindEvery > 0 /\ channel.age >= RemindEvery
        OBVIOUS
    <2>1. sent = channel
        BY DEF SlackInv, RecordIsChannel
    <2>2. RemindEvery # 0 /\ ~(channel.age < RemindEvery)
        BY <2>1 DEF Posted, Known, Says
    <2>3. channel.age \in Nat /\ RemindEvery \in Nat
        BY SlackAssumption DEF SlackInv, TypeOK, Post
    <2> QED
        BY <2>2, <2>3
<1> QED
    BY <1>1, SlackInvariant, PTL DEF Spec, NoRepeats

=============================================================================
