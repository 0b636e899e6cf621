------------------------------ MODULE MCDaemon ------------------------------
(***************************************************************************)
(* Daemon for TLC: configurations around every inequality of Validate.     *)
(***************************************************************************)
EXTENDS Daemon

Stage(after, verdict) == [after |-> after, verdict |-> verdict]

(* The file's mode, stages and cancel list: the defaults, stages that are  *)
(* written in another order with a cancel list that is kept or emptied,    *)
(* and a drain that may be too early.                                      *)
Unsorted == <<Stage(5, "cancel"), Stage(4, "drain"), Stage(0, "alert")>>

Ladders ==
    {[mode |-> "observe", stages |-> <<>>,                  allow |-> {"idle"}],
     [mode |-> "enforce", stages |-> Unsorted,              allow |-> {"idle"}],
     [mode |-> "enforce", stages |-> Unsorted,              allow |-> {}],
     [mode |-> "enforce", stages |-> <<Stage(3, "drain")>>, allow |-> {"idle"}]}

MCConfigs ==
    {[mode       |-> ladder.mode,
      interval   |-> timing[1],
      thresholds |-> [utilPct |-> 15, memHeldPct |-> 5, idlePowerWatts |-> 60,
                      window |-> timing[2], warmup |-> 1,
                      minSamples |-> minSamples, maxSampleGap |-> gap],
      stages     |-> ladder.stages,
      allow      |-> ladder.allow,
      slack      |-> [minVerdict |-> "alert", remindEvery |-> 4],
      slurm      |-> [source |-> "squeue", url |-> FALSE, tokens |-> 0],
      gpu        |-> [source |-> "nvidia-smi", url |-> FALSE, timeout |-> 0],
      absolute   |-> Binaries] :
        ladder \in Ladders, timing \in {<<1, 3>>, <<2, 3>>, <<2, 4>>},
        minSamples \in 1 .. 3, gap \in {2, 3}}

=============================================================================
