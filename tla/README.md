# A TLA+ model of gpu-reaper

gpu-reaper is a daemon that watches the GPUs of running Slurm jobs and, when a
job has held idle GPUs for long enough, alerts, drains its nodes and at last
cancels it. A wrong cancel cannot be taken back, so what this project is about
is one question: *on what may the daemon rest an alert, a drain, a cancel, and
does it rest on that whatever fails, lags, restarts or moves in between?*

Paths and line numbers refer to the source tree under `src/`.

## The system

| Part | State it keeps | Operations | Modules |
|---|---|---|---|
| Policy engine, `internal/policy` | per JobID: start time, samples of the last window, breach clock, last verdict, confirmed drain, waste counted so far | `Observe`, `Evaluate`, `ConfirmDrain`, `Drop`, `Forget` | `Evidence`, `Engine`, `JobWatch`, `Ladder` |
| Daemon cycle, `cmd/gpu-reaper` | none across cycles but the engine and the time of the last success | `cycle`: list, sample, judge every job, handle every finding | `Reaper` |
| Loop and readiness, `cmd/gpu-reaper` | a ticker, a signal context, one time stamp | `run`, `ready` | `Daemon` |
| Configuration, `internal/config` | none | defaults, `Validate`, what the engine is built from | `Settings`, `Daemon` |
| Cluster actor, `internal/action` | none | `drain` (node by node), `cancel` | `Reaper` |
| Controller, `internal/slurm` | none | `scancel`, `scontrol update` under a timeout | `Reaper` |
| Slack actor, `internal/action` | per JobID: start, verdict and time of the last post | `Handle`, `Forget` | `Slack` |
| Job sources, `internal/slurm` | none | `squeue` or slurmrestd, rejecting records they cannot trust | `Listing`, `Reaper` |
| Host lists, `internal/slurm` | none | `ExpandNodeList` | `Hostlist` |
| DCGM source, `internal/gpu` | a map and a slice shared by the scrapes of one call | `Sample`, `ParseDCGM` | `Scrape`, `Collect`, `Telemetry` |
| nvidia-smi source, `internal/gpu` | none | `Sample`, `parseSMI`, `computePIDs` | `Telemetry` |
| Log actor, simulator, metrics, HTTP | counters | | none |

The daemon has one loop. Nothing inside it runs concurrently with a cycle but
the DCGM scrapes, which end before the samples are used, and the readiness
handler, which reads one atomic. The concurrency that matters most is with the
*outside*: Slurm starts, ends and requeues jobs between any two calls of a
cycle; calls fail, or are killed with their effect unknown; exporters lag; the
daemon is restarted anywhere and has then forgotten everything, while drained
nodes stay drained. `PROJECT.json` lists the hazards by line.

What makes each part correct:

- *engine*: a breach is reported only on readable, contiguous evidence from
  every node of this very start of the job; the ladder alert, drain, window,
  cancel is climbed on one unbroken breach; a real breach is not slept
  through; no waste is counted twice.
- *cycle*: evidence is the job's own (no shared nodes, no other job's GPU, no
  node unread); what a skipped cycle saw is never jumped over; one failing
  action holds nothing up.
- *cluster actor and controller*: a drain counts only when every node was
  drained; a cancel follows such a drain of the same start of the job.
- *loop and configuration*: under every configuration that is accepted an idle
  job is reported, nothing destructive happens early, readiness means that
  jobs are seen, and a signal ends the daemon.
- *Slack*: the channel knows the verdict, is not told it twice, and is told it
  in the end.
- *sources*: every node is sampled or reported as failed; an ambiguous reading
  is unknown and never zero; a host list expands to what it says or is refused;
  no record of a running job is left out silently.

How the modules hang together:

```
Ladder <-- JobWatch --> Engine --> Evidence      x --> y   x EXTENDS y
Ladder <-- Reaper   --> Engine                   y <-- x   x implements y
           Daemon   --> Settings                 Daemon instantiates Engine
Collect <-- Scrape                               with a configuration
Telemetry, Hostlist, Listing, Slack on their own
```

`Telemetry` produces readings of the form that `Evidence` judges; `Collect` and
`Listing` say what the sampling and listing steps of `Reaper` may rest on, and
`Reaper` takes any such outcome. A module composed of all of them would only
multiply states: nothing flows back from the cycle to its sources.

## The modules

**`Evidence`, `Engine`.** Operators only. A sample is `[seen, at, node, gpu,
read]`: `at` is the exporter's time stamp, `seen` the time of the cycle that got
it, `read` its utilization, memory, power and number of processes, each possibly
`Unknown`, and whether it is a MIG slice. Times are integers; `None` (-1) is Go's
zero time. The number of processes is the nil-or-length of `PIDs`; averages are
compared as sums so that no division is needed. `Evidence` has `coverage`,
`classify`, `summarize`, `stageFor` and the thresholds; `Engine` has every
operation as a function of a job's state. `Evaluate` has the early returns of
the code in their order: exempt, start time unknown, warmup, coverage, at work,
then the breach with its waste, stage, caps and ladder.

Names ending in other words (`NoLongHole`, `ResetKeepingDrain`, `LadderedUnwaited`, ...)
are faulty variants of the definition that follows them, marked "Variant for the
checks"; they are used only to see that a property notices the fault.

**`JobWatch`.** One job, because the engine's map never relates two JobIDs.
`start` is the incarnation Slurm runs, `st` the engine's state, `finding` the
last finding, `draining` that it asked for a drain whose outcome is open.
Actions: `Cycle` (a report from every node, with any view, readings and stamps,
then `Observe` and `Evaluate`), `CycleWithoutStart`, `DrainExecuted` (with
`ConfirmDrain`), `Drop`, `Forget`, `End`, `Requeue`, `Restart`, `Tick`. A cycle
that was skipped or failed is a `Tick` without a `Cycle`. `hist` is a history no
action reads: since when, on each node, the reports were *clean* (readable, not
at work, without a hole, past the warmup), when the first alert and the last
drain on that record took place, and the waste billed. The properties compare
the engine's conclusions with this record, which knows nothing of the engine's
window, resets and pruning.

**`Ladder`.** What the engine promises of one job without samples and
signatures: a rung, a drain whose outcome is open, the time a drain is dated
with. `Warn`, `AskDrain`, `AskCancel`, `Drained`, `Forgone`, `Over`. `JobWatch`
implements it (rung is `lastVerdict`, `asked` the time of the cycle whose drain
is open), and `Reaper` implements it once per JobID, where the open drain is a
finding in the queue or one that is half carried out.

**`Reaper`.** `phase` cuts the cycle where the code calls out: `List` (and
`Forget` of the engine) or `ListFails`, `SampleNodes` (sampling, then `Judged`
for all jobs at once, since nothing outside is called there) or `SampleFails`,
then one step per finding: `Notify`, `DryDrain`, `BeginDrain` with one
`DrainNode` or `DrainFails` per node, `CancelJob`, and `Finish`. Between any two,
`JobStarts`, `JobEnds`, `Tick` and `Restart` may happen. `DrainFails` leaves the
node drained or not. Findings are handled in any order, as the listing's order
is Slurm's. `CancelJob` changes nothing by itself: a cancelled job ends with
`JobEnds`, and one that does not end is found again. `site` is a deployment,
chosen at the start: central or per node, with labels or without, observing or
enforcing, and what may fail there. CPU-only jobs, which the cycle filters out,
every node's second GPU and resuming of nodes are left out. Histories: `tenants`
(jobs per node at the listing), `reads` (what was read of each node lately),
`done` (which node was drained for the running start, and when).

**`Settings`, `Daemon`.** `Settings` has the rules of `Validate` one by one, the
product of the rule on `min_samples` with its wrap-around, and what `newEngine`
and `newClusterActor` make of a configuration. `Daemon` runs the loop of `run`
under any configuration that `Validate` accepts: a ticker that keeps one tick, a
`select` that takes either ready case, cycles that are late, fail or hang. One
idle job is what it sees, judged by `Engine` instantiated with that very
configuration, and `Ready` is what the readiness handler says.

**`Slack`.** A cycle is `Judge`, then `Skip`, `Quiet`, `Posted` or `PostFails`,
the last also for a post that arrived but was reported as failed. Time is the
age of the last post in cycles, cut off at the reminder, so the clock needs no
bound. Histories: `channel` (the last post about the job), `warned` (the breach's
alert was delivered), `unsure` (a post arrived that the notifier takes for lost).

**`Collect`, `Scrape`.** `Collect` is what a call of `Sample` promises: each
target sampled or failed, and a result that says so. `Scrape` is the code: a
loop that takes slots of a semaphore, a goroutine per target with a timeout, a
mutex around the slice and the map, a wait group. An addition to the shared data
is a read and a write, so that a missing lock would lose an answer.

**`Telemetry`.** The lines of a dcgm-exporter page, or of nvidia-smi's two
queries, read one by one in any order, and the samples made of them: ranges,
stale and early stamps, cloned and disagreeing series, siblings of an activity
metric, MIG, unreadable fields, rows without a GPU, process lists that break
off.

**`Hostlist`.** `ExpandNodeList` token by token, with sizes in ints that end at
`MaxInt`. The reference is what a list means as a whole (`Meant`: for each part
all its literals and one piece of each of its sets) and which token may stand after
which (`WellFormed`), both defined without the code's accumulators.

**`Listing`.** Records of `squeue` or slurmrestd one by one, with states, start
times, host lists and GPU counts, into jobs, rejected records and copies.

## The runs

Every run explores its model completely. Windows are a few ticks, and a cycle
may take place at each tick or not.

| Run | States | Shows |
|---|---|---|
| `watch_ladder` | 220,000 | One GPU, idle or busy, through drain, relapse and cancel, with drains that take a tick and listings without a start time: `EvidenceSound`, `LadderEarned`, `BreachSeen` (no breach is slept through), `WasteOnce`, `DrainOncePerBreach`, and the refinement `ClimbsLadder`. `MaxTime` 10 is a little over three windows of 3: time for alert, drain, window and cancel, or for alert, drain, recovery and a second alert. |
| `watch_readings` | 1.8 million | Two GPUs of which a report may miss either one, with every kind of reading that decides a signature: `IdleMeansEmpty`, and `SteadySight`: no report behind a finding saw fewer GPUs of its node than another. `MaxTime` 4 passes the warmup and the window, which is where these are decided; cancels are left to the other runs. |
| `reaper_drain` | 67,000 | Enforce mode, a job on two nodes, with failing listings, collections and drains, restarts and requeues: `ConfirmedIsDrained`, `CancelFollowsDrain`, the refinement `ClimbsLadder`, and `CycleEnds` (liveness). `MaxTime` 5 with a window of 2 reaches cancels and what follows them. |
| `reaper_tenants` | 3.8 million | Three deployments over two jobs and two nodes: a central daemon whose nodes fall silent, a daemon per node with labels, a job that works now and then while records, nodes and collections fail: `NeverShared`, `OwnReadings`, `NothingOverlooked`. The window of 3 with a gap of 2 lets one cycle be skipped inside the evidence, which is the case that matters, within `MaxTime` 2. |
| `daemon` | 282,000 | 72 configurations around every inequality of `Validate`: `IdleReported`, `DestructiveEarned`, `ReadyMeansSeen`, `Stops` (liveness). `MaxTime` 9 passes warmup, the longest window and two intervals. |
| `slack_posts` | 5,600 | Three starts, posts that fail or are not acknowledged, listings that miss the job, restarts: `ChannelCurrent`, `NoRepeats`, `Reminded` (liveness). |
| `scrape` | 77,000 | Four targets, one of an unsafe name, two slots: `ScrapeInv`, `InTime`, the refinement `Collects`, `Returns` (liveness). More targets than slots, so that the loop waits for a worker. |
| `telemetry` | 43,000 | Pages of up to seven series, rows and process lists: `KnownIsMeasured`, `NothingHidden`, `JudgeableIsFresh`, `NoProcessMeansNone`, and the inductive `PageInv`. |
| `hostlist` | 15,000 | Lists of up to ten tokens with a cap of 4 names and ints up to 7, so that ranges reach the largest int: `Bounded`, `MeansWhatItSays`, `RefusesExactly`. |
| `listing` | 169,000 | Listings of up to three records: `CountedOnce`, `NothingSilent`, `OneOfEach`. Three are two copies of a job and another one. |
| `exempt_gap`, `waste_shortfall` | | Violations, see below. |

Bounds: `MaxTime` on the clock (guard of `Tick`) in `JobWatch`, `Reaper` and
`Daemon`, `MaxStarts` on the starts in `Slack`, `MaxLines`, `MaxTokens` and
`MaxRecords` on the text read. There is no bound on restarts but the clock.
`reaper_tenants` declares its two jobs symmetric; the runs with temporal
properties declare nothing. Deadlock checking is off where a daemon, a call or a
text ends, and in `reaper_tenants`, where nothing is left at the bound on the
clock; `reaper_drain` can always restart, so a cycle that is stuck would show as
a violation of `CycleEnds`.

The `JobWatch` runs take samples as fresh (`MaxLag = 0`). `EvidenceSound` and
`IdleMeansEmpty` are proved for any lag, and `LadderEarned` for a lag below
`Window - MaxSampleGap`. `SteadySight`, `BreachSeen`, `WasteOnce` and
`DrainOncePerBreach` do not hold when stamps lag: two reports may bear the same
stamp, and `coverage` then counts the GPUs of both, so that evidence is found
wanting that is not; and an old stamp puts a report before a warmup, while views,
bills and drains are dated by cycles.

Fairness. `Reaper`'s `FairSpec` assumes weak fairness of the sampling step and
of handling a finding: every call has a time limit (`SqueueSource.Timeout`,
`CLIController.Timeout`, the HTTP clients'), so the loop goes on; nothing is
assumed of Slurm, of the outcome of a call, or of whether it restarts. `Daemon`
assumes the same of a cycle's two halves and strong fairness of `Stop`: Go's
`select` chooses at random among the cases that are ready, so a signal that
stays pending is taken although a tick is ready each time. `Scrape` assumes weak
fairness of each worker (the scrape's timeout, the runtime's scheduler) and of
the loop. `Slack` assumes weak fairness of the cycle and strong fairness of
`Posted`: a webhook that is tried again and again answers now and then.

## The proofs

All theorems are proved for any value of the constants that satisfies the
modules' `ASSUME`s (what `New`, `Validate` or Go's types guarantee), and for a
clock without bound; `MaxTime` and its like may be anything.

| Theorem | States |
|---|---|
| `JobWatchProofs`: `TypeCorrect`, `EvidenceCorrect`, `IdleCorrect` | `TypeOK`, `EvidenceSound`, `IdleMeansEmpty` of `JobWatch` |
| `JobWatchProofs`: `LadderCorrect`, `SightCorrect`, `BreachIsReported`, `DrainedOnce`, `WasteCorrect` | `LadderEarned`, `SteadySight`, `BreachSeen`, `DrainOncePerBreach`, `WasteOnce` of `JobWatch`, each under conditions (below) |
| `JobWatchProofs`: `WatchClimbs` | `JobWatch` implements `Ladder` |
| `ReaperProofs`: `ReaperTypes`, `ConfirmedCorrect`, `CancelCorrect` | `TypeOK`, `ConfirmedIsDrained`, `CancelFollowsDrain` of `Reaper` |
| `ReaperProofs`: `NothingMissed`, `NoNeighbours`, `OnlyOwnReadings` | `NothingOverlooked`, `NeverShared`, `OwnReadings` of `Reaper` |
| `ReaperProofs`: `JobsClimb` | `Reaper` implements `Ladder` for each job |
| `DaemonProofs`: `DaemonTyped`, `DestructionEarned`, `ReadyHasSeen`, `IdleIsReported` | `TypeOK`, `DestructiveEarned`, `ReadyMeansSeen`, `IdleReported` of `Daemon`, the last under a condition (below) |
| `SlackProofs`: `SlackTypes`, `ChannelIsCurrent`, `NothingRepeated` | `TypeOK`, `ChannelCurrent`, `NoRepeats` of `Slack` |
| `ScrapeProofs`: `ScrapeInvariant`, `CallsInTime` | `ScrapeInv`, `InTime` of `Scrape` |
| `ScrapeProofs`: `ScrapeCollects` | `Scrape` implements `Collect` |
| `TelemetryProofs`: `PageCorrect`, `UnknownIsNeverZero`, `BusyIsSeen`, `FreshOnly`, `EmptyIsRead` | `PageInv`, `KnownIsMeasured`, `NothingHidden`, `JudgeableIsFresh`, `NoProcessMeansNone` of `Telemetry` |
| `SlurmProofs`: `HostlistTypes`, `ExpansionBounded`, `ExpandsToMeaning`, `RefusalExact` | `ScanTypeOK`, `Bounded`, `MeansWhatItSays`, `RefusesExactly` of `Hostlist` |
| `SlurmProofs`: `ListingTypes`, `GPUsCountedOnce`, `NothingLeftOut`, `NoCopies` | `TypeOK`, `CountedOnce`, `NothingSilent`, `OneOfEach` of `Listing` |

Six theorems have conditions beyond the modules' `ASSUME`s. The last column says
what the code does without them:

| Theorem | Conditions | Why |
|---|---|---|
| `LadderCorrect` | `Prompt`: samples are recorded sooner than `Window - MaxSampleGap` after their stamp. `NeverExempt`. | A later sample reaches back over a drain. For exemption see run `exempt_gap`. |
| `SightCorrect` | `Punctual`: no lag. | For lag see above. |
| `BreachIsReported` | `Punctual`, `Dense` and `Paced`, `NeverExempt` | Reports that are too far apart are too few for `MinSamples`, though no hole is between them. |
| `DrainedOnce` | `Punctual`, `Dense` and `Paced`, `SameCount`: a node's reports name as many GPUs, `NoSwap`: if the reports of a window together name all the GPUs of the job, each does. | A report that names fewer, or too few reports that name them all together, makes `coverage` fail, and the reset forgets the confirmation. |
| `WasteCorrect` | `Punctual`, `Dense` and `Paced`, `NoSwap` | Run `waste_shortfall` (the pace). With reports that miss one GPU each the evidence fails as soon as the window holds one kind of them only, the reset clears `accountedUntil`, and the next change bills the window again. |
| `IdleIsReported` | `NoOverflow` | The product `min_samples` x `interval` of `Validate` may wrap (`config.go:217`); such a configuration is accepted and never reports. |

`Paced` says that the next report of a node comes within `Pace` of the last one,
or behind a hole; `Dense` that a window less one gap holds `MinSamples` reports at
that pace: `(MinSamples - 2) * Pace <= Window - MaxSampleGap`. With `MaxSampleGap`
for `Pace` every behaviour is paced, and that is how the runs have it. With the
defaults (8 samples, 20 minutes, a gap of 3) the theorems hold as long as a report
comes at most 2m50s after the one before it, an interval being 2 minutes, or behind
a hole; should every gap be a full 3 minutes, only 7 samples fall in a window and
nothing is reported. Every configuration that `Validate` accepts is `Dense` for a
pace of one interval if `MaxSampleGap` is at most two intervals.

How they go:

- *Evidence.* `EvidenceSound` speaks of a record that the engine does not have,
  so it is not inductive. `EvidenceInv` adds how the two are tied: `RecordInv` (the
  record belongs to the running incarnation and begins after its warmup) and
  `SamplesInv`: a kept sample that is older than the record is followed, among
  the kept samples, by what ended that record, a breaking sample or a hole. Hence
  coverage cannot succeed on it, and when it succeeds its oldest sample is in the
  record (`CoveredIsRecord`). The step that matters is `Observe`, which prunes:
  pruning may remove the breaking sample only together with all that came before
  it (`SamplesKept`).
- *Idle.* The last report that left open whether a process was there is still
  among the samples, or was never among them because of the warmup, or has left
  the window (`OccupiedInv`).
- *Ladder.* `LadderInv` ties `lastVerdict` and `drainConfirmedAt` to what was done
  on the record; one has to know that a broken record makes the engine forget its
  rung (`KeptHasNoRecord`, `LadderCycle`), and this is where exemption and lag come
  in. The refinement needs less: what each outcome of `Evaluate` does to the rung
  (`EngineProofs`: `EvaluateClimbs`), shared by both implementations of `Ladder`.
- *Sight and breach.* The converse of evidence: what the record holds, the engine
  sees. The samples are whole reports of all nodes (`SightInv`); one that names
  another number of GPUs than the last is followed by what shows it (`SteadyInv`); and of the record
  nothing is missing that the window can ask for (`CompleteInv`). `CoverageOf` and
  `ManyTimes` turn that into a coverage that succeeds: a chain of times without a
  long step has many of them. A drain is confirmed once because such a coverage
  cannot fail while the record lasts (`DrainedInv`).
- *Waste.* There is a time up to which all waste is billed (`Bill`): the bill is at
  most the GPUs times the distance from the warmup, and neither `accountedUntil`
  nor a record that may yet begin a breach reaches back beyond it. The time itself
  is in no variable; a reset moves it.
- *Reaper.* Neither drains nor cancels are inductive, because the daemon acts on
  what it listed and judged earlier. `DrainsInv` ties the views together: what a
  listing says of a job is about its running start or an older one (`ListingInv`);
  every finding is of one listed job and of another than the rest (`FindingsInv`);
  the nodes of a drain under way that are not left were drained in this cycle
  (`UnderWay`); a confirmed drain was carried out on all nodes, Slurm's and the
  listing's, in one cycle (`Confirmed`). For the readings, `TenancyInv`: from its
  oldest sample of a node onwards the engine keeps all that was read there
  (`SightInv`), since a cycle that cannot keep it drops the job; samples come from
  the nodes of their start (`PlacedInv`); and a job that the engine remembers is
  in the listing with that start or a later one (`ListedInv`).
- *Daemon.* For what is destructive: what lies before the time since which the
  cycles went on without a hole is cut off from what came after, by a hole that
  `coverage` does not accept (`EvidenceInv`). For the report of an idle job: while
  no cycle is late one judges between any two ticks (`PaceInv`), hence each moment
  of the window has a sample soon after it (`CompleteInv`) and the window one for
  each tick (`CountInv`), which is where `Validate`'s rules come in.
- *Slack.* `RecordIsChannel`: what the notifier remembers is the channel's last
  word, or older, unless a post got through unnoticed.
- *Scrape.* Who holds the lock is the only one between a read and a write of the
  shared data (`MutexInv`, `AddedInv`); a slot is held by whoever scrapes. The
  abstract answer of a target is given at the write. For the time of a call: after
  `k` timeouts `Slots * (k + 1)` targets have begun, or all (`RoundsInv`).
- *Telemetry.* `PageInv`: what is kept of a GPU is what its series so far say
  together, so that the order of lines is of no account. `ListInv` does the same
  for the process list.
- *Hostlist.* Each accumulator grows only after its size was compared with what
  is left below the cap (`BoundedInv`). For the meaning, the names so far are those
  of the text so far: of the parts before the last comma, and of the last part
  without the set that is open (`ExpandInv`). One literal or set more joins a piece
  to each name (`PickLiteral`, `PickSet`). Pieces know their token, so that the
  number of names is the product of the numbers of pieces (`ProductSize`), which
  makes each refusal exact.
- *Listing.* Each record read is a job's, or was reported, or is one to pass over
  (`ListingInv`); entries with and without a type tell of the same GPUs
  (`CountedAsTold`).

The inductive invariants were checked by TLC on the instances above before they
were proved; the configurations keep the properties they are for.

Only model-checked is what rests on fairness, which the provers cannot reason
about: `CycleEnds`, `Stops`, `Reminded` and `Returns`. Every safety invariant and
every refinement that a passing run checks is also proved.

## Where the code and its documentation differ

Runs:

1. `exempt_gap`. `Evaluate` returns for an exempt job before it looks at coverage
   (`policy.go:404`) and leaves the job's state as it is. A hole in the evidence
   during a time of exemption is thus not noticed, and the ladder goes on where
   it stood; `policy.go:27-28` says evidence before a hole never counts after it.
   An exemption may come and go because it also depends on the job's name, QOS
   and partition, which can be changed while it runs.
2. `waste_shortfall`. A reset clears `accountedUntil` but keeps the samples
   (`policy.go:272`). When the evidence was merely thin for a cycle, the next
   breach starts at the oldest kept sample and bills again what was billed;
   `policy_test.go:762-763` says nothing is counted twice.
Stated in the modules, not run:

- a job whose record the source rejects is not counted among the jobs of its
  nodes, so the other job there is judged (`main.go:224-225`); `NeverShared` is
  stated for listings without such records, `NothingSilent` says that each was
  reported;
- `coverage` compares how many GPUs the observations of a node named
  (`policy.go:571-574`) and counts the GPUs of the job over all of them. Two
  reports that miss one GPU each, but not the same, hence pass, and the busy one
  may be out of sight each time it is at work (`SameSight`, against
  `policy.go:569-570`: every observation should see the same GPUs). A report that
  saw fewer is found out, which is what `SteadySight` says and `SightCorrect`
  proves; the reports of `watch_readings` may miss either of two GPUs, so that the
  swap does happen in that run;
- a drain is dated with its cycle's time, so that less than a window may
  separate its execution from the cancel (`CancelWaits`, `main.go:377` against
  `policy.go:46`); `LadderEarned` counts from the execution and has the window less
  the time a drain took;
- with `min_samples: 1` a single old report is a covered window (`TwoReports`,
  against `README.md:94`);
- `scancel` names the JobID, so a job requeued since the listing is cancelled in
  its new start (`CancelHitsJudged`, `action.go:275`);
- a second breach within the reminder is not posted (`ChangePosted`,
  `action.go:95`), and a drain goes ahead although its alert never reached Slack
  (`WarnedFirst`, `policy.go:489-491`).

## Not modelled

- The log actor, the metrics and the HTTP server hold nothing a decision depends
  on; the number behind the waste counter is billed in `JobWatch`.
- The simulator gives readings at random, which `JobWatch` and `Reaper` allow
  anyway. The demo, the generator of the SVG, the build and CI are not part of
  the daemon.
- Reading of text: the YAML file, the exposition format, CSV and JSON, the fields
  of a `squeue` line, HTTP requests and tokens. Modules begin where lines, rows
  and records are apart. The texts of findings, posts and errors are left out.
- Matching of exemption patterns is the answer `exempt` of a job.
- In `JobWatch` no stamp lies in the future and none goes back; `Telemetry` has
  what happens to stamps that are early.
- `nvidia-smi`'s two queries are taken to name a GPU by the same UUID.
- In `Hostlist` the width of printed numbers; in `Listing` GPU counts beyond an
  int.
