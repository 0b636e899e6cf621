----------------------------- MODULE MCTelemetry -----------------------------
(***************************************************************************)
(* Telemetry for TLC: series of two GPUs that are cloned per job, agree    *)
(* and disagree, are stale, early, out of range or no number; rows with    *)
(* and without values; a process list with a line that does not parse.     *)
(***************************************************************************)
EXTENDS Telemetry

S(metric, gpu, value, at, mig, job) ==
    [metric |-> metric, gpu |-> gpu, value |-> value, at |-> at, mig |-> mig, job |-> job]

MCSeries ==
    {S("GPU_UTIL", 0, 0, 9, FALSE, "j"),
     S("GPU_UTIL", 0, 0, 8, FALSE, "k"),           \* a clone that agrees
     S("GPU_UTIL", 0, 60, 9, FALSE, "k"),          \* one that does not
     S("SM_ACTIVE", 0, 70, None, FALSE, ""),
     S("SM_ACTIVE", 0, 101, 9, FALSE, ""),         \* out of range
     S("GR_ENGINE_ACTIVE", 0, 90, 5, FALSE, "j"),  \* stale
     S("FB_USED", 0, 10, 9, FALSE, "j"),
     S("FB_FREE", 0, 90, 9, FALSE, "j"),
     S("FB_RESERVED", 0, NoNumber, 9, FALSE, "j"),
     S("POWER_USAGE", 0, 30, 5, FALSE, "j"),       \* stale
     S("POWER_USAGE", 0, 30, 15, FALSE, "j"),      \* early
     S("POWER_USAGE", 0, 30, 9, FALSE, ""),
     S("POWER_USAGE", 0, 250, 9, FALSE, ""),       \* the two disagree
     S("FB_USED", 1, 0, 9, TRUE, ""),
     S("FB_FREE", 1, 0, 9, FALSE, ""),
     S("GPU_UTIL", NoGPU, 90, 9, FALSE, "j")}

Row(gpu, uuid, util, used, total, power, mig) ==
    [gpu |-> gpu, uuid |-> uuid, util |-> util, used |-> used, total |-> total,
     power |-> power, mig |-> mig]

MCRows ==
    {Row(0, "u", 0, 0, 100, 25, "Disabled"),
     Row(0, "u", NoNumber, 50, 100, 25, "N/A"),
     Row(0, "u", 101, 101, 100, NoNumber, "Disabled"),
     Row(1, "v", 90, 0, 0, 100001, "Enabled"),
     Row(1, "v", 0, NoNumber, 100, 25, "[Unknown Error]"),
     Row(NoGPU, "w", 90, 50, 100, 300, "Disabled")}

MCProcesses == {[uuid |-> "u", pid |-> 7], [uuid |-> "v", pid |-> 8], [uuid |-> "u", pid |-> 0]}

=============================================================================
