# Wing: a TLA+ model of the ReplicaAutoscaler controller

Wing scales Kubernetes workloads.  A user writes a `ReplicaAutoscaler` (RA): a
scale target, limits, and a list of targets, each naming a *scaler* plugin that
turns a metric into a number of replicas.  The controller asks the scalers,
lets a *replicator* plugin settle on one number, applies limits and overrides,
and updates the `scale` subresource of the target.  This directory models the
controller and its plugins in TLA+, model-checks small instances with TLC and
proves the central invariants, for every instance, with TLAPS.

## Inventory

| Component | State | Operations | Hard part |
|---|---|---|---|
| Controller (`controllers/`) | the RA on the API server, the informer's copy, work queue and delaying queue | `Reconcile`: fetch, purge patches, read target, exhaustion, static or autoscaling, scale, patch back | several remote calls per pass, each of which may fail, answer late or not at all; reads from a cache; writes from an old base; crashes |
| Conditions and panic mode (`api/v1/condition.go`, `utils/panicmode.go`) | the list of conditions with their transition times | set, get, enter/stay/leave panic mode | panic mode is derived from a stored transition time and decides whether the cold-down applies |
| Replica patches (`utils/replicapatche.go`, `core/scheduling/replicapatch.go`, `utils/timerange`) | an annotation of the RA, changed by users *and* by the controller | purge what has expired, find the working patch | two writers of one field; boundaries of time ranges |
| Simple replicator (`plugins/replicator_simple`) | per autoscaler, a slice of timestamped recommendations, in memory | `GetDesiredReplicas` | reuse of slots; nothing survives a restart; one map for all workers |
| Target loop, target status (`reconcileAutoscaling`, `utils/status.go`) | `status.targets`, the outputs map | take the settings of the moment, ask each scaler, purge | a failing scaler ends the pass half way |
| Scheduled settings (`core/scheduling/settings.go`, `utils/timerange`) | none; depends on the clock | choose a schedule, merge its fields into the default | overlapping ranges, cron specs that name days |
| Prometheus scaler | the last average, kept in `status.targets` | query, failure modes, ratio | the fallback depends on what earlier passes stored |
| RabbitMQ scaler | its entry of `status.targets` | request over HTTP or AMQP, compose queues, ratio | toleration, start from zero |
| Pod resource scalers (cpu, memory) | none; reads the pod lister and the metrics API | group pods, compute the utilization, fill in missing samples | two views of the pods that do not agree |
| Exhaustion check (`updateExhaustedAutoscaler`) | the `Exhausted` condition, `status.currentReplicas` | count pending pods, compare with the threshold | a stale lister and the replicas of the previous pass |
| Engine and process start (`core/engine`, `main.go`) | the registered and loaded plugins, the configuration | read the file, sync caches, set up plugins, start workers | exits half way, restarts with another file; plugins shared by all workers |

The controller calls the engine's plugins in the worker's goroutine.  Everything
else is shared state: the RA is written by users and by the controller, the
scale by the controller, users and the target's own controller; the informer
copies the RA with a delay and queues its key after every change.  Only the RA
is watched, the target is not.

What makes each part correct: a recorded scale time is a real one; the loop
never loses its key; cold-down and stabilization window hold across crashes and
lost answers; a change of load is answered in bounded time; patches stay until
they expire; the slot array means what the window means; every target counts
and the fallback value survives outages; settings follow their schedules; a
backlog brings a target back from zero; missing samples never make the pod
scalers bolder; the Exhausted condition comes to be true of the pods; a process
serves only when all its plugins are configured, and then serves everybody.

## Modules

| Module | Models |
|---|---|
| `Conditions` | `SetCondition`, `GetCondition`, the panic mode predicates |
| `ReplicaPatches` | the annotation, its purge and the working patch |
| `Recommendations` | a recommendation, its age, the maximum over a window |
| `WindowMax` | **abstract**: what the simple replicator promises |
| `SimpleReplicator` | the slot array; `ImplementsWindowMax` is the refinement |
| `Reconciler` | the reconcile loop of one RA; composes `Conditions`, `ReplicaPatches` and `Recommendations` |
| `TimeRanges` | when a date range or a cron range contains a moment |
| `Schedules` | the settings of the moment; what a cron range means, as a reference |
| `Totals` | sums over a set of pods or queues, in a form that proofs can use |
| `RabbitMQ` | requests, composition of queues, replicas |
| `TargetPipeline` | the loop over targets, the prometheus and rabbitmq scalers, `status.targets`; composes `Schedules` and `RabbitMQ` |
| `PodResource` | the calculation of the cpu and memory scalers, the exhaustion verdict |
| `PodView` | the pods as the API server, the lister and the metrics API have them, and passes over the two views; composes `PodResource` |
| `Process` | start, exit and crash of the process, and workers in the replicator; uses `Recommendations` |
| `MC*` | small instances |
| `*Proofs` | theorems and proofs |

### Reconciler

A pass has one step for each point at which the code talks to the outside.
`Begin*` reads the informer's copy and the target's scale and covers every early
return up to the cold-down; `Evaluate*` is the rest of `reconcileAutoscaling` up
to `scaleReplicas`; `Scale*` is `scaleReplicas` with all that follows in
`reconcile`; `Patch*` is `updateAutoscalerIfNeeded` and the result of
`Reconcile`.  Between any two of them the informer, the timer, users, the
target's controller or a crash may act.  In detail:

* `job` holds what the Go code keeps in local variables: the copy it started
  from (`observed`), the status and annotation it is building, the scale it read.
* The update of the target carries the resource version of the read: it fails
  when the target has `moved` since.  The patch of the RA carries none: it is a
  JSON merge patch of the fields that differ from `observed`, applied to
  whatever the server has.  `conditions` is one such field.
* Status is a subresource: `PatchedObject` changes status or annotation, never
  both.
* An error from the patch puts the key back at once; no error and no delay
  leaves it to the next event.
* The replicator appears through its abstract behaviour (`Recommendations`); that
  the slot array implements it is the theorem of `SimpleReplicatorProofs`.  As
  forgotten recommendations cannot change an answer, `Tick` drops them.
* The outputs of the scalers are one number, `load`, of which `TargetPipeline`
  models how it comes about.
* One tick is 15 s: the delays are 1 (panic), 2 (error) and 4 (normal), the
  cold-down is 2.  Ready-message texts, events and metrics are left out.
* An RA that is gone is retried for ever (`BeginNotFound` leaves the state
  unchanged; the back-off is not modelled).
* The periodic resync of the informer is hours away and not modelled.

### TargetPipeline, Schedules, RabbitMQ

One step per target, so that values and outages change in the middle of a pass.
An average is stored in thousandths, rounded down, as `int64(averageValue*1000)`
is; ratios are compared by cross-multiplication.  (The code computes in floats:
`ceil(ratio * n)` may come out one higher where the quotient is a whole number
that a float misses.  The instances use values for which the two agree.)  The
rabbitmq scaler differs from the prometheus one where the code does: it starts a
target from zero, has no failure mode, and asks for no replicas within the
toleration.  The replicator's window is 0 here (`SimpleReplicator` has it), and
limits are those of the spec.

The nested loops of `PurgeTargetStatus` append an entry for every match of an entry
with a managed name; `Matches` is the set of these and `Rank` the place at which each
is met, so that the resulting list is given at once, without recursion.  `Limited`
applies the upper limit first, as the code does: with limits the wrong way
round the lower one wins.

A schedule is two cron specs, each the set of its firings in a cycle of `Week`
ticks; `GetScheduledSettingsRaw` looks at the next firings as the code does, and
`Entered` says without them that a range was entered and not left since.  The
two agree when starts and ends alternate.  Where they do not, for instance with a
start on Mondays and an end every day, the code counts the evening before as
inside; `MCTargetPipeline!OneDay` has such a range and no claim is made of it.
Of overlapping schedules the first one listed wins (`break` in
`core/scheduling/settings.go:38`); the comment of the function, line 21, speaks of the
"LAST hit schedule".  The model follows the code and no property decides between them.

A queue is three counts.  `getComposedQueue` composes the field that is asked for,
since each field is composed by itself.  Over AMQP a queue has its ready messages
only and a rate of 0, and a regular expression names no queue.

### PodResource and PodView

`PodResource` is `tidyAndCalculateDesiredReplicas` with what it calls, as
operators from a pod list and a table of samples to the set of possible answers:
empty for an error, several where a target of 0 makes the conversion to `int32`
depend on the platform.  `PodView` lets pods be created, started, become ready or
not, fail, be deleted and be removed, samples come and go, and the lister follow,
in any order, so that the calculation meets samples of unknown pods, pods without
samples, and a replica count that agrees with neither.  `Pass` writes the Exhausted
condition from the lister and the `currentReplicas` of the pass before, then
`currentReplicas`, then any replicas within the limits unless the scaler failed.
`Filled` is what the calculation assumes of pods without a usable sample.  Sums are
`Total` of the module `Totals`: the number of units the pods have together.

### Process

The start of `main` in the order of its steps: file, manager, cache sync, plugins
one by one, workers.  Any failure ends the process and it is started again;
`EditFile` happens while it is down, which loses nothing since the file is read
once.  A worker in `GetDesiredReplicas` takes one step per access of the map
`historicalRecommendation`: the check for nil, the insertion of the seed, the
scan, and the overwriting of a slot or the append; the two that write into the
map take from one step to the next.  When an access overlaps such a write the
outcome is undefined in Go: nothing (the access works), the end of the process
(`Crash`), or an entry that is lost.

## Runs

| Run | Instance | Shows |
|---|---|---|
| `replicator` | 1 autoscaler, replicas 0..2, window 1, 6 ticks, 2 requests a tick, restarts | `ImplementsWindowMax`, `HistoryBounded` |
| `reconciler_faults` | static, plain, unknown scaler, unknown replicator; three patches; one of them with a retention; any one fault or disturbance anywhere; lagging informer; 4 ticks | `LastScaleTimeJustified`, `LoopStopsOnlyOnPurpose`, `PatchHeldUntilExpiry` |
| `reconciler_crash` | two of: load changes, crashes, lost answers, edited patches; window 2, 5 ticks | `NoEarlyDownscale` |
| `reconciler_prompt` | panic mode and a second spec; two of: spec, load, resize; 15 ticks; all pending work done within its tick | `ColdDownRespected`, `ScaleTimeRecorded`, `SettlesInTime`, `GenerationObserved` (liveness) |
| `target_pipeline` | nine lists of targets: each failure mode, queues over both protocols, by sum, average and maximum, schedules in turn, overlapping and refused, an unknown scaler; a cycle of 4 ticks; two changes of values, queues, outages or the list | `TargetsUnique`, `LastValueRemembered`, `SettingsFollowSchedules`, `EveryTargetCounts`, `BacklogWakesTarget` (liveness) |
| `pods` | three pods, none, one or all running at first; cpu with equal requests, memory with unequal ones and a pod without; three events; limits 2..3, target 80%, threshold 50% | `MissingMetricsNeverMislead`, `DirectionKept`, `ExhaustionSettles` (liveness) |
| `workers` | two workers, two autoscalers, three plugins; an unreadable, a complete, an incomplete and a refused file; one edit, one crash, two passes of a key, window 0, one tick | `ServesFullyConfigured`, `StabilizedUnlessRaced`, `EveryKeyServed` (liveness) |

Five more runs end in a counterexample; each contradicts a sentence of the
repository, quoted under `findings` of `PROJECT.json`:

* `purge_drops_status`: the pass that purges an expired patch loses its status.
* `annotation_edit_lost`: a patch added during such a pass is overwritten.
* `ready_after_failure`: Ready is True after a pass that could not do its work.
* `same_scaler_twice`: two targets of one scaler, only the last one counts.
* `outage_scale_down`: the last-value fallback scales down during an outage.

What the properties except, because it is not true of the code:

* `StabilizedUnlessRaced` ends at the first overlap of two accesses of the map.
  Without the exception TLC has a worker insert the entry of one autoscaler while
  another one inserts its own: one of the two is lost, and an answer falls below
  what the window holds.
* `DirectionKept` excepts a lister that knows more pods than the replicas (for
  scaling down) or fewer (for scaling up): the ratio is applied to the pods that
  are known, and the guard on the direction is only there on the way through
  missing or unready pods.
* The second half of `MissingMetricsNeverMislead` excepts samples of pods the
  lister does not know: they are counted as replicas and not as usage.  The first
  half excepts cpu targets above 100%: a missing pod that is still starting is taken
  for one that uses all it requests, 100%, but with its sample it would be unready
  and not counted, and the ready pods may use more than 100%.
* `TargetsUnique` is checked and proved with at most one target of a
  name.  `PurgeTargetStatus` keeps an entry once for every time its name is managed, so
  two targets of one name, such as two cpu targets, double `status.targets` in
  every pass; with such a list TLC violates `TargetsUnique` at the end of the first.
* `ExhaustionSettles` claims nothing exactly at the threshold or the timeout.  The
  code compares strictly (`controllers/replicaautoscaler_reconcile.go:436`), and the
  comment of `Exhaust.Pending` (`api/v1/replicaautoscaler_types.go:146`) says "not
  shorter" and "not smaller": with one pod pending of two and a threshold of 50% the
  code never reports Exhausted, and the comment asks for it.  Above both limits and
  below either the two agree, and that is what is checked.
* `SettingsFollowSchedules` leaves out the hours at which two schedules of a target
  are entered at the same time, where the code takes the first and its comment the
  last; and ranges whose starts and ends do not alternate.  In the run each of two
  schedules is entered alone, both together, and neither.

A comment the model contradicts without a property of its own: `DryRunAnnotation`
(`api/v1/replicaautoscaler_types.go:270`) says that the scaling is performed if the
annotation is "true" and skipped if it is "false".  The code scales if it is "false" and
only then; `Reconciler` follows the code.

**Bounds.**  `Budget` counts failing calls and disturbances together.  One is
enough for every property of `reconciler_faults` to meet each fault in each
step, and two in `reconciler_crash` lets a crash follow a change or a lost
answer; the clock lets a cold-down, a window and an expiry pass.  In
`reconciler_prompt` the clock (14) covers two disturbances, the panic window (2) and
`SettlingTime` (13: the stabilization window of 1, and twice the cold-down of 2 and the
normal requeue of 4).
Two `Changes` let an outage follow a change, or an edit an outage; `Tick` there
happens between passes, since a pass reads the clock once.  Three `Events` of the
pods make, for instance, two pods pending beside a started one, or a lost sample
beside a removed pod and its left-over sample; the exact boundary of the
toleration, where floats round, does not occur with a target of 80% (84% is not
met).  Two workers are enough for an overlap, two passes of a key for an answer
that depends on an earlier one.  Deadlock is not checked in the `Reconciler` runs
and in `workers`, since the clock, a deleted RA and the number of passes end; it is
checked in the others.

**Prompt and InformerLag.**  `SettlesInTime` is a claim about time: it holds where a
pass takes less than a tick (15 s) and no call fails, which `Prompt` says.
`SettlingTime` is more than the window and one requeue period, which a small
instance suggests and which is not enough: with a window of 4 ticks, somebody lowers
the target after the load has fallen, a pass at the end of the window raises it again
to what was asked for before, enters panic mode, and the pass of the next tick, when
panic mode is over, is cut short by the cold-down and repeated only after a whole period.  The
run `reconciler_prompt` checks the other three under it as well; the proofs show
what they really need.  `ScaleTimeRecorded` needs that nothing comes between a
scaling and its record, but neither prompt passes nor a fresh informer;
`ColdDownRespected` needs in addition that a pass starts from the object as it is.
Without that they are false of the code, and not by mistake: a stamp that could not
be written cannot be respected.

**Fairness.**  `WF(Reconcile)`: a worker takes keys from the queue and every call
returns or times out.  `WF(CacheSync)`: the watch delivers.  `WF(TimerFires)`: the
delaying queue delivers.  In `TargetPipeline`, `WF(PassStep)`: every call of a scaler
returns or times out and the key is queued again.  In `PodView`, `WF(ListerSync)`, and
weak fairness of the status update of a pass: every pass asks for another one.  In
`Process`, `WF(StartStep)`: the container is restarted and the API server answers in
the end, and `WF(Work)`: goroutines are scheduled; that no key waits for ever is the
work queue's order, for which the bound on the passes of a key stands.  None is
assumed of users, crashes, pods or the target.

## Proofs

For every value of the constants, from the `ASSUME`s of the modules only (types
of the parameters; `Nil` is no number and no strategy; a day is not empty).  Where a
property is not true of the code in every environment, the theorem has the
environment as its hypothesis, a condition on constants only, and the smallest one
we know.

**Simple replicator** (`SimpleReplicatorProofs`).

* `TypeCorrect` and `SlotsImplementWindowMax`: the slot array implements
  `WindowMax`.  The mapping takes the recent slots as a set.  `StoredRecent` is the
  heart: replacing the last old slot, or appending, adds exactly the newest
  recommendation to that set; `RecentLater` does the same for the passage of time.
* `SlotsBounded`: `HistoryBounded` is not inductive.  `NumberInv` says that the slots
  of one moment, apart from the seed's, can be given different numbers, no higher
  than the calls of that moment.  A slot is only appended when all the others are
  recent; they then map one to one to the calls of `Window + 1` ticks, and the
  pigeonhole principle bounds them.

**Reconcile loop** (`ReconcilerProofs`, in every environment).

* `TypeCorrect`: `TypeOK` is not inductive, since `Evaluate` clamps with
  `spec.min`, which may be `Nil`; `TypeInv` adds that only an autoscaled pass is
  evaluated (`EvaluatesAutoscaled`).
* `StampsAreJustified`: the stamp of the server, of the informer's copy, and of a
  running pass are all scalings that took place (`StampsJustified`); a merge patch
  writes one of these, and the set of scalings only grows.
* `LoopNeverLost`: at rest nothing is left but what the code meant to leave.
  `LoopInv` says that the informer's copy is the object unless an event is on its
  way, that a pass has started from what the informer had unless the key is
  queued again, that a pass without requeue has one of the three reasons, and
  that a resting loop has one.

**Reconcile loop, environment by environment** (`ReconcilerEnvironmentProofs`).

* `PatchesHeld`, under `Unedited` (users leave the annotation alone, or only ever
  set one value): the server, the informer and a running pass may have different
  annotations, but they agree on the patches that are still to be held
  (`AnnotationsAlike`).  `annotation_edit_lost` shows that the hypothesis is needed.
* `ScalingsRecorded`, under `NothingLost` (no crash or deletion, no lost answer, no
  dry-run, nothing to purge): `RecordInv` follows the last scaling from the pass
  that made it to the server, past passes that write an older status over a newer one,
  since a merge patch leaves out the fields a pass did not change.
  `purge_drops_status` shows why nothing may be purged.
* `ColdDownKept`, under `NothingLost` without `InformerLag`: with `LoopInv`, a pass has
  seen the last scaling, and when it scales outside panic mode it was past the
  cold-down when it began (`ColdDownInv`).
* `AdviceHeeded`, without crashes: all that was advised within the window is in
  the replicator's history (`AllRemembered`), whatever else happens.
* `AdviceOutlivesCrashes`, with crashes, under `OnlyControllerScales`: nobody
  else changes the target and all lower limits are the same.  What was forgotten
  in a crash was asked for before everything that is remembered (`LostFirst`), a pass
  works with the target as it is (`ScaleCurrent`), and the target, or the seed taken
  from it, is at least what the forgotten advice allows (`SeedStandsIn`).  With
  `"resize"` in addition TLC finds a counterexample: somebody scales the target
  down by hand, the process dies, and the seed is too low.
* `LoopSettles`, under `Undelayed` (prompt passes that begin with the object as it is,
  no failing call, a target that stays, plugins that exist, no replica patch and no
  dry-run; but edits, load, other scalers of the target, crashes, deletions and static specs
  at any moment): `SettlesInTime` for every window.  The argument goes twice from a
  moment to the next pass that gets past the cold-down, at most `Respite` later,
  since only an autoscaled pass past it stamps a scaling (`StampsInv`) and no
  autoscaler rests longer than a requeue period (`RestInv`).  The first time that pass
  gives the replicator a history (`SeedInv`, by `SeededBy`); a window later nothing
  is remembered but the present load (`MemoryInv`, by `ForgottenBy`); the second time the
  pass scales to the goal, or meets a conflict with the report of the target's own
  controller and does so after the retry (`GoalInv`).  A disturbance starts the clock
  again, so that most of the invariant is about states after it.  TLC checked the
  invariant with crashes, deletions and static specs before it was proved; the run has only
  the disturbances under which its other properties hold.

**Process** (`ProcessProofs`): `TypeCorrect`; `ServesOnlyConfigured`, where `LoadInv`
says which plugins each phase of the start has loaded and from which file;
`StabilizedByTurns`, where `HistoryInv` says of each worker at each access what
the entries of its autoscaler are, as long as no two accesses have overlapped.

**Target loop** (`TargetPipelineProofs`, `SchedulesProofs`).

* `TypeCorrect`: every scaler's answer and average is a natural number, whatever its
  settings.  It rests on what `PurgeTargetStatus` returns (`PurgeShape`: ranks
  number the matches one to one, `RankOnto`).
* `EveryOutputCounts`, under `OwnScalers` (no list has two targets of one scaler):
  every output asked for is still in the map (`OutputsKept`); `same_scaler_twice` is
  the other case.
* `EntriesUnique`, under `OwnNames`: no name is managed twice (`ManagedOnce`).
* `LastValuesKept`, without hypothesis: names whose average must not be lost are
  managed as the loop passes them (`ManagedInTime`), so that the purge keeps them.
* `SchedulesFollowed`: by the ages of firings.  `Contains` holds if the oldest firing
  of all is an end, a range is entered if the youngest is a start
  (`ContainsByAge`, `EnteredByAge`).  From the youngest firing across the
  present to the oldest nothing fires (`QuietAcrossPresent`), so that in a cycle where
  starts and ends take turns the two are of different kinds (`EndsDiffer`).  The loop
  takes the first schedule entered (`FirstEnteredWins`), which is the only one where no
  two overlap.

**Pods** (`PodViewProofs`, `TotalsProofs`).

* `TypeCorrect` and `DirectionAlwaysKept`: `Answer` gives an answer in closed form,
  `Plain` or `Careful`, over the totals of the groups of pods.
* `MissingNeverMisleads`: `FilledTotals` splits the missing pods into those that
  would be ready with a sample and those that would be unready, and compares the
  totals; `HighestAssumed` and `LowestAssumed` say that what the code assumes bounds the
  utilization from above and from below.  The proof found the exception of cpu targets
  above 100%, which the instance of the run (80%) does not meet.
* Sums: a fold would need an induction over sets.  `Totals!Total` is the number of
  units the keys have together, and the library's theorems about cardinality give
  its sum over disjoint sets, its monotony and its bounds.

Only model-checked: everything under fairness (`GenerationObserved`,
`BacklogWakesTarget`, `ExhaustionSettles`, `EveryKeyServed`), which is out of the
prover's reach.  What the `violation` runs refute is, of course, not a theorem.

## Not modelled

* Generated code (deep copies) and the generator of the list of plugins.
* In the metrics client, `getContainerMetrics` and the custom and external metrics:
  nothing calls them.  In the HTTP client, encoding, signing and transport; an answer
  below 400 that decodes into no field reads as an empty queue, which is one of the
  queue states.
* `exhaust.type` Pending without `exhaust.pending`: the code would dereference a nil
  pointer at `controllers/replicaautoscaler_reconcile.go:432`.  The instances with an
  exhaustion check have its settings.
* The mapping of kinds to resources (`utils/gvkr.go`) beyond its failure.
* Leader election: off by default, and then two processes would be two unrelated
  controllers of the same objects.
* Events, metrics, logging, health checks.

## Plan

* `TargetPipeline` composed with `Reconciler` through `load`, and `PodView` with
  `Reconciler` through the verdict of the exhaustion check.
