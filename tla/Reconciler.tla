----------------------------- MODULE Reconciler -----------------------------
(***************************************************************************)
(* The reconcile loop of one ReplicaAutoscaler: the object on the API      *)
(* server, the informer's copy of it, the work queue, the worker that runs *)
(* Reconcile (controllers/), the simple replicator's memory, the scale     *)
(* target and the users and controllers that change them meanwhile.        *)
(*                                                                         *)
(* A pass of the worker has a step for each point at which it talks to the *)
(* outside: Begin reads the informer's copy and the target's scale,        *)
(* Evaluate asks scalers and replicator, Scale updates the target, Patch   *)
(* writes the object back.  Everything else may happen in between.         *)
(*                                                                         *)
(* One tick of the clock is 15 seconds.                                    *)
(***************************************************************************)
EXTENDS Conditions, ReplicaPatches, Recommendations

CONSTANTS Specs,          \* the specs a user may give
          InitialSpecs,   \* the specs of the first state
          Annotations,    \* the replica patch annotations a user may give
          DryRuns,        \* the values of the dry-run annotation a user may give
          Loads,          \* what the scalers, taken together, may ask for
          TargetSizes,    \* the replicas others may give to the target
          Window,         \* the replicator's DownscaleStabilizationWindow
          Faults,         \* which calls may fail
          Disturbances,   \* what users, the cluster and crashes may do
          Budget,         \* bound on the failing calls and disturbances
          InformerLag,    \* may a pass begin with an old copy of the object?
          Prompt,         \* does all pending work finish within a tick?
          MaxTime         \* bound on the clock

FaultKinds == {"getScale", "exhaust", "selector", "scaler", "update", "updateReply",
               "patch", "patchReply"}

DisturbanceKinds == {"spec", "annotation", "dryRun", "delete", "recreate", "load",
                     "resize", "target", "crash"}

Strategy == [threshold : Nat \cup {Nil}, window : Nat \cup {Nil}]

\* min = Nil asks for max replicas without autoscaling.  metric and replicator
\* say whether the engine knows the scalers and the replicator the spec names;
\* exhaust whether exhaustion is checked.
SpecType == [min : Nat \cup {Nil}, max : Nat, strategy : Strategy \cup {Nil},
             metric : {"known", "unknown"}, replicator : {"known", "unknown"},
             exhaust : BOOLEAN]

ASSUME NilAssumption == Nil \notin Int /\ Nil \notin Strategy
ASSUME SpecsAssumption == Specs \subseteq SpecType /\ InitialSpecs \subseteq Specs
ASSUME AnnotationsAssumption == Annotations \subseteq Patches \cup {Garbled}
ASSUME DryRunsAssumption == DryRuns \subseteq {"unset", "true", "false"}
ASSUME SizesAssumption == Loads \subseteq Nat /\ TargetSizes \subseteq Nat
ASSUME BoundsAssumption == Window \in Nat /\ Budget \in Nat /\ MaxTime \in Nat
ASSUME EnvironmentAssumption ==
    /\ Faults \subseteq FaultKinds
    /\ Disturbances \subseteq DisturbanceKinds
    /\ InformerLag \in BOOLEAN
    /\ Prompt \in BOOLEAN

\* The delays and the cold-down of the controller, in ticks.
NotRequeue == 0
RequeueDelayOnErrorState == 2
RequeueDelayOnNormalState == 4
DefaultRequeueDelay == RequeueDelayOnNormalState
RequeueDelayOnPanicState == 1
DefaultScalingColdDown == 2

VARIABLES now,       \* the clock
          obj,       \* the ReplicaAutoscaler on the API server
          cache,     \* the informer's copy
          stale,     \* is a watch event on its way to the informer?
          queued,    \* is the key in the work queue?
          timer,     \* when the delaying queue adds the key again, or Nil
          job,       \* the pass the worker is in
          target,    \* the scale target
          moved,     \* has the target changed since the pass read it?
          load,      \* the greatest output of the scalers
          history,   \* the replicator's memory of this autoscaler
          budget,    \* the failing calls and disturbances still to come
          ghost      \* what the properties refer to; no step depends on it

vars == <<now, obj, cache, stale, queued, timer, job, target, moved, load, history, budget,
          ghost>>

Times == 0..MaxTime

Status == [observedGeneration : Nat \cup {Nil}, lastScaleTime : Times \cup {Nil},
           currentReplicas : Nat, desiredReplicas : Nat, conditions : Conditions(Times)]

NoStatus == [observedGeneration |-> Nil, lastScaleTime |-> Nil,
             currentReplicas |-> 0, desiredReplicas |-> 0, conditions |-> NoConditions]

\* phase is deleting while a finalizer of somebody else holds the object.
Object == [phase : {"live", "deleting", "gone"}, generation : Nat, spec : Specs,
           dryRun : {"unset", "true", "false"}, patches : Patches \cup {Garbled},
           status : Status]

\* The scale subresource: spec.replicas and status.replicas.
Target == [exists : BOOLEAN, replicas : Nat, observed : Nat]

Recs == Recommendation(Times, Nat)

\* seeded: the replicator's map has an entry for the autoscaler.
History == [seeded : BOOLEAN, recent : SUBSET Recs]

\* observed is the copy the pass started from, status and patches are what it
\* has made of them, scale is the scale it read, desired what it decided,
\* underPanic its underPanicModeCurrently and delay its requeueDelay.
Job == [pc : {"evaluate", "scale", "patch"}, observed : Object,
        status : Status, patches : Patches \cup {Garbled}, scale : Target,
        desired : Nat, underPanic : BOOLEAN, delay : Nat]

NoJob == [pc |-> "idle"]

NoScale == [exists |-> FALSE, replicas |-> 0, observed |-> 0]

\* scaledAt and drilledAt: when a pass updated the target or, in dry-run, only
\* said so; advised: what the scalers asked for in the window, which outlives
\* the process; failed: did the last pass find something missing or fail to
\* scale; disturbedAt: the last disturbance, kept only where passes are prompt.
Ghost == [scaledAt : SUBSET Times, drilledAt : SUBSET Times, advised : SUBSET Recs,
          failed : BOOLEAN, disturbedAt : Times]

TypeOK ==
    /\ now \in Times
    /\ obj \in Object
    /\ cache \in Object
    /\ stale \in BOOLEAN
    /\ queued \in BOOLEAN
    /\ timer \in Nat \cup {Nil}
    /\ job \in Job \cup {NoJob}
    /\ target \in Target
    /\ moved \in BOOLEAN
    /\ load \in Nat
    /\ history \in History
    /\ budget \in 0..Budget
    /\ ghost \in Ghost

FreshObject(spec, annotation, dryRun) ==
    [phase |-> "live", generation |-> 1, spec |-> spec, dryRun |-> dryRun,
     patches |-> annotation, status |-> NoStatus]

\* A process that has just started: its informer has listed the object, which
\* queues the key; the replicator's map is empty.
Init ==
    /\ now = 0
    /\ \E spec \in InitialSpecs, annotation \in Annotations, dryRun \in DryRuns :
          obj = FreshObject(spec, annotation, dryRun)
    /\ cache = obj
    /\ stale = FALSE
    /\ queued = TRUE
    /\ timer = Nil
    /\ job = NoJob
    /\ \E n \in TargetSizes : target = [exists |-> TRUE, replicas |-> n, observed |-> n]
    /\ moved = FALSE
    /\ load \in Loads
    /\ history = [seeded |-> FALSE, recent |-> {}]
    /\ budget = Budget
    /\ ghost = [scaledAt |-> {}, drilledAt |-> {}, advised |-> {}, failed |-> FALSE,
                disturbedAt |-> 0]

-----------------------------------------------------------------------------
(* The worker: Begin                                                       *)

\* The queue hands the key to the worker and Reconcile reads the informer.
Fetched(phase) ==
    /\ job.pc = "idle"
    /\ queued
    /\ InformerLag \/ ~stale
    /\ cache.phase = phase

\* The pass after it has fetched the object and purged expired patches.
Pass(pc, status, scale, desired, underPanic, delay) ==
    [pc |-> pc, observed |-> cache, status |-> status,
     patches |-> PurgeUnusedReplicaPatches(cache.patches, now),
     scale |-> scale, desired |-> desired, underPanic |-> underPanic, delay |-> delay]

Begin(pass) ==
    /\ job' = pass
    /\ queued' = FALSE
    /\ ghost' = [ghost EXCEPT !.failed = FALSE]
    /\ UNCHANGED <<now, obj, cache, stale, timer, target, moved, load, history>>

\* A call fails that need not.
Fault(kind) ==
    /\ kind \in Faults
    /\ budget > 0
    /\ budget' = budget - 1

\* The status after reconcile has set the Ready condition it returns with.
WithReady(status) ==
    [status EXCEPT !.conditions = SetCondition(@, "Ready", "True", "", now)]

\* Mutant: the reason is a message.
WithNotReadyMessage(status, reason) ==
    [status EXCEPT !.conditions = SetCondition(@, "Ready", "False", <<reason, now>>, now)]

WithNotReady(status, reason) ==
    [status EXCEPT !.conditions = SetCondition(@, "Ready", "False", reason, now)]

\* Cache.Get fails for a deleted object: the error puts the key back at once.
BeginNotFound == Fetched("gone") /\ UNCHANGED vars

\* reconcile leaves a terminating object to finalizeAutoscaler.
BeginDeleting ==
    /\ Fetched("deleting")
    /\ Begin(Pass("patch", cache.status, NoScale, 0, FALSE, DefaultRequeueDelay))
    /\ UNCHANGED budget

\* getScaleTarget fails: the target is missing or the API server does not answer.
BeginWithoutTarget ==
    /\ Fetched("live")
    /\ \/ ~target.exists /\ UNCHANGED budget
       \/ Fault("getScale")
    /\ Begin(Pass("patch", WithNotReady(cache.status, "FailedToGetScaleTarget"),
                  NoScale, 0, FALSE, NotRequeue))

\* updateExhaustedAutoscaler fails: reconcile returns before it sets anything.
BeginExhaustError ==
    /\ Fetched("live") /\ target.exists
    /\ cache.spec.exhaust /\ Fault("exhaust")
    /\ Begin(Pass("patch", cache.status, NoScale, 0, FALSE, RequeueDelayOnErrorState))

\* The verdicts updateExhaustedAutoscaler may reach on the pending pods.
ExhaustVerdicts == IF cache.spec.exhaust THEN BOOLEAN ELSE {FALSE}

\* Mutant: the generation is recorded only once.
ObservedOnce(exhausted) ==
    [cache.status EXCEPT
        !.conditions = SetCondition(@, "Exhausted", "False", "", now),
        !.observedGeneration = IF @ = Nil THEN cache.generation ELSE @,
        !.currentReplicas = target.observed]

\* The status once target and exhaustion are known.
ObservedStatus(exhausted) ==
    [cache.status EXCEPT
        !.conditions = IF exhausted
                       THEN SetCondition(@, "Exhausted", "True", "ExhaustedOnPending", now)
                       ELSE SetCondition(@, "Exhausted", "False", "", now),
        !.observedGeneration = cache.generation,
        !.currentReplicas = target.observed]

\* No minReplicas: maxReplicas is set as it is.
BeginStatic ==
    /\ Fetched("live") /\ target.exists
    /\ cache.spec.min = Nil
    /\ \E exhausted \in ExhaustVerdicts :
          Begin(Pass("scale", ObservedStatus(exhausted), target, cache.spec.max,
                     FALSE, NotRequeue))
    /\ UNCHANGED budget

\* The target's selector does not parse; with exhaustion checked it would have
\* failed there.
BeginSelectorError ==
    /\ Fetched("live") /\ target.exists
    /\ cache.spec.min # Nil /\ ~cache.spec.exhaust /\ Fault("selector")
    /\ Begin(Pass("patch", WithReady(ObservedStatus(FALSE)), NoScale, 0, FALSE,
                  RequeueDelayOnErrorState))

UnderPanicModeCurrently ==
    StillInPanicMode(cache.status.conditions, cache.spec.strategy, now)

\* Mutant: the cold-down ends one tick early.
InShortColdDown ==
    /\ cache.status.lastScaleTime # Nil
    /\ now - cache.status.lastScaleTime < DefaultScalingColdDown - 1
    /\ ~UnderPanicModeCurrently

InColdDown ==
    /\ cache.status.lastScaleTime # Nil
    /\ now - cache.status.lastScaleTime < DefaultScalingColdDown
    /\ ~UnderPanicModeCurrently

\* Mutant: a pass that is cut short by the cold-down is not repeated.
BeginColdDownForGood ==
    /\ Fetched("live") /\ target.exists
    /\ cache.spec.min # Nil /\ InColdDown
    /\ Begin(Pass("patch", WithReady(ObservedStatus(FALSE)), NoScale, 0, FALSE, NotRequeue))
    /\ UNCHANGED budget

BeginColdDown ==
    /\ Fetched("live") /\ target.exists
    /\ cache.spec.min # Nil /\ InColdDown
    /\ \E exhausted \in ExhaustVerdicts :
          Begin(Pass("patch", WithReady(ObservedStatus(exhausted)), NoScale, 0, FALSE,
                     DefaultRequeueDelay))
    /\ UNCHANGED budget

BeginAutoscaling ==
    /\ Fetched("live") /\ target.exists
    /\ cache.spec.min # Nil /\ ~InColdDown
    /\ \E exhausted \in ExhaustVerdicts :
          Begin(Pass("evaluate", ObservedStatus(exhausted), target, 0,
                     UnderPanicModeCurrently, NotRequeue))
    /\ UNCHANGED budget

-----------------------------------------------------------------------------
(* The worker: Evaluate                                                    *)

\* reconcile returns: only the status, the annotations and the delay matter now.
Return(status, delay) ==
    /\ job' = [job EXCEPT !.pc = "patch", !.status = status, !.delay = delay,
                          !.scale = NoScale, !.desired = 0, !.underPanic = FALSE]
    /\ moved' = FALSE

\* Settings that do not parse, or a scaler that fails.
EvaluateFails ==
    /\ job.pc = "evaluate" /\ Fault("scaler")
    /\ Return(WithReady(job.status), RequeueDelayOnErrorState)
    /\ UNCHANGED <<now, obj, cache, stale, queued, timer, target, load, history, ghost>>

\* The spec names a scaler or a replicator the engine does not have.
EvaluateWithoutScaler ==
    /\ job.pc = "evaluate" /\ job.observed.spec.metric = "unknown"
    /\ Return(WithReady(WithNotReady(job.status, "ScalerNotExists")), DefaultRequeueDelay)
    /\ ghost' = [ghost EXCEPT !.failed = TRUE]
    /\ UNCHANGED <<now, obj, cache, stale, queued, timer, target, load, history, budget>>

EvaluateWithoutReplicator ==
    /\ job.pc = "evaluate"
    /\ job.observed.spec.metric = "known" /\ job.observed.spec.replicator = "unknown"
    /\ Return(WithReady(WithNotReady(job.status, "ReplicatorNotExists")), NotRequeue)
    /\ ghost' = [ghost EXCEPT !.failed = TRUE]
    /\ UNCHANGED <<now, obj, cache, stale, queued, timer, target, load, history, budget>>

\* The limits in force: those of the working replica patch, else the spec's.
Limits ==
    LET working == WorkingReplicaPatch(now, job.patches)
    IN  IF working = {}
        THEN {[min |-> job.observed.spec.min, max |-> job.observed.spec.max]}
        ELSE {[min |-> PatchTable[i].min, max |-> PatchTable[i].max] : i \in working}

\* The upper limit is applied first, so the lower one wins.
Capped(n, limits) == IF n > limits.max THEN limits.max ELSE n
Clamp(n, limits) ==
    IF Capped(n, limits) < limits.min THEN limits.min ELSE Capped(n, limits)

PatchedCondition(conditions) ==
    LET unpatched == SetCondition(conditions, "ReplicaPatched", "False", "NoPatch", now)
    IN  IF WorkingReplicaPatch(now, job.patches) = {} THEN unpatched
        ELSE SetCondition(unpatched, "ReplicaPatched", "True", "Applied", now)

LimitedCondition(conditions, n, limits) ==
    IF Capped(n, limits) < limits.min
    THEN SetCondition(conditions, "ScaleLimited", "True", "ReachMinimalReplicas", now)
    ELSE IF n > limits.max
    THEN SetCondition(conditions, "ScaleLimited", "True", "ReachMaxReplicas", now)
    ELSE SetCondition(conditions, "ScaleLimited", "False", "", now)

\* Mutant: a new autoscaler starts without a seed.
NoSeed == {}

\* GetDesiredReplicas compares a new autoscaler with the replicas it has.
Seed == IF history.seeded THEN {}
        ELSE {[timestamp |-> now, replicas |-> job.scale.replicas]}

Evaluate ==
    LET newest == [timestamp |-> now, replicas |-> load]
        before == history.recent \cup Seed
    IN  /\ job.pc = "evaluate"
        /\ job.observed.spec.metric = "known" /\ job.observed.spec.replicator = "known"
        /\ \E m \in {load} \cup {rec.replicas : rec \in before}, limits \in Limits :
              /\ IsMaxRecommendation(m, load, before, now, Window)
              /\ job' = [job EXCEPT
                    !.pc = "scale",
                    !.desired = Clamp(m, limits),
                    !.status.conditions = LimitedCondition(PatchedCondition(@), m, limits)]
        /\ history' = [seeded |-> TRUE, recent |-> before \cup {newest}]
        /\ ghost' = [ghost EXCEPT !.advised = @ \cup {newest}]
        /\ UNCHANGED <<now, obj, cache, stale, queued, timer, target, moved, load, budget>>

-----------------------------------------------------------------------------
(* The worker: Scale                                                       *)

\* The rest of reconcileAutoscaling once scaleReplicas has succeeded: panic mode
\* is entered, left, or still on.
PanicCondition(conditions) ==
    IF ShouldEnterPanicMode(job.desired, job.scale.replicas, job.observed.spec.strategy)
    THEN SetCondition(conditions, "PanicMode", "True", "", now)
    ELSE IF StillInPanicMode(conditions, job.observed.spec.strategy, now)
    THEN conditions
    ELSE SetCondition(conditions, "PanicMode", "False", "", now)

DelayAfterScaling ==
    IF ShouldEnterPanicMode(job.desired, job.scale.replicas, job.observed.spec.strategy)
    THEN RequeueDelayOnPanicState ELSE DefaultRequeueDelay

\* What reconcile does after scaleReplicas has returned without an error.
Scaled(status) ==
    IF job.observed.spec.min = Nil
    THEN Return(WithReady(status), NotRequeue)
    ELSE Return(WithReady([status EXCEPT !.conditions = PanicCondition(@)]),
                DelayAfterScaling)

\* scaleReplicas records the desired replicas whatever happens next.
Decided == [job.status EXCEPT !.desiredReplicas = job.desired]

\* Mutant: the stamp is forgotten.
Unstamped == Decided

\* A scaling that went through is stamped.
Stamped == [Decided EXCEPT !.lastScaleTime = now]

ScaleNeedless ==
    /\ job.pc = "scale" /\ job.scale.replicas = job.desired
    /\ Scaled(Decided)
    /\ UNCHANGED <<now, obj, cache, stale, queued, timer, target, load, history, budget, ghost>>

MustScale(performed) ==
    /\ job.pc = "scale" /\ job.scale.replicas # job.desired
    /\ performed = (job.observed.dryRun = "false")

\* Unless the annotation says "false" nothing is scaled, but it is stamped.
ScaleDryRun ==
    /\ MustScale(FALSE)
    /\ Scaled(Stamped)
    /\ ghost' = [ghost EXCEPT !.drilledAt = @ \cup {now}]
    /\ UNCHANGED <<now, obj, cache, stale, queued, timer, target, load, history, budget>>

\* The update carries the resource version that was read, so it succeeds only
\* if the target has not changed since.
UpdateTarget ==
    /\ ~moved
    /\ target' = [target EXCEPT !.replicas = job.desired]

Scale ==
    /\ MustScale(TRUE)
    /\ UpdateTarget
    /\ Scaled(Stamped)
    /\ ghost' = [ghost EXCEPT !.scaledAt = @ \cup {now}]
    /\ UNCHANGED <<now, obj, cache, stale, queued, timer, load, history, budget>>

\* Mutant: the stamp is set before the update.
FailedAfterStamp ==
    Return(WithReady(WithNotReady(Stamped, "FailedToScale")), RequeueDelayOnErrorState)

\* scaleReplicas returns the error of the update.
FailedToScale ==
    Return(WithReady(WithNotReady(Decided, "FailedToScale")), RequeueDelayOnErrorState)

ScaleFails ==
    /\ MustScale(TRUE)
    /\ \/ moved /\ UNCHANGED budget
       \/ Fault("update")
    /\ FailedToScale
    /\ ghost' = [ghost EXCEPT !.failed = TRUE]
    /\ UNCHANGED <<now, obj, cache, stale, queued, timer, target, load, history>>

\* The update is done and its answer is lost.
ScaleReplyLost ==
    /\ MustScale(TRUE) /\ Fault("updateReply")
    /\ UpdateTarget
    /\ FailedToScale
    /\ ghost' = [ghost EXCEPT !.scaledAt = @ \cup {now}, !.failed = TRUE]
    /\ UNCHANGED <<now, obj, cache, stale, queued, timer, load, history>>

-----------------------------------------------------------------------------
(* The worker: Patch                                                       *)

AnnotationsEqual == job.patches = job.observed.patches
StatusEqual == job.status = job.observed.status

\* A JSON merge patch carries the fields that differ from the observed ones.
MergeField(server, base, new) == IF new = base THEN server ELSE new

MergeStatus(server, base, new) ==
    [observedGeneration |-> MergeField(server.observedGeneration,
                                       base.observedGeneration, new.observedGeneration),
     lastScaleTime |-> MergeField(server.lastScaleTime, base.lastScaleTime,
                                  new.lastScaleTime),
     currentReplicas |-> MergeField(server.currentReplicas, base.currentReplicas,
                                    new.currentReplicas),
     desiredReplicas |-> MergeField(server.desiredReplicas, base.desiredReplicas,
                                    new.desiredReplicas),
     conditions |-> MergeField(server.conditions, base.conditions, new.conditions)]

\* A write that changes the object is followed by a watch event.
Watch == stale' = (stale \/ obj' # obj)

\* Status is a subresource: Status().Patch writes nothing else, and Patch, which
\* is taken when the annotations differ, leaves it alone.
PatchedObject ==
    IF AnnotationsEqual
    THEN [obj EXCEPT !.status = MergeStatus(@, job.observed.status, job.status)]
    ELSE [obj EXCEPT !.patches = job.patches]

\* RequeueAfter: the delaying queue keeps the earlier of two times.
RequeueAfter(delay) ==
    timer' = IF delay = NotRequeue THEN timer
             ELSE IF timer # Nil /\ timer <= now + delay THEN timer ELSE now + delay

PatchNothing ==
    /\ job.pc = "patch" /\ AnnotationsEqual /\ StatusEqual
    /\ job' = NoJob
    /\ RequeueAfter(job.delay)
    /\ UNCHANGED <<now, obj, cache, stale, queued, target, moved, load, history, budget, ghost>>

Patch ==
    /\ job.pc = "patch" /\ ~(AnnotationsEqual /\ StatusEqual)
    /\ obj.phase # "gone"
    /\ obj' = PatchedObject /\ Watch
    /\ job' = NoJob
    /\ RequeueAfter(job.delay)
    /\ UNCHANGED <<now, cache, queued, target, moved, load, history, budget, ghost>>

\* Mutant: the error of the patch is logged and swallowed, with its delay.
PatchFailsSilently ==
    /\ job.pc = "patch" /\ ~(AnnotationsEqual /\ StatusEqual)
    /\ obj.phase = "gone" \/ "patch" \in Faults
    /\ job' = NoJob
    /\ UNCHANGED <<now, obj, cache, stale, queued, timer, target, moved, load, history, budget, ghost>>

\* An error of the patch puts the key back at once; the delay is ignored.
PatchFails ==
    /\ job.pc = "patch" /\ ~(AnnotationsEqual /\ StatusEqual)
    /\ \/ obj.phase = "gone" /\ UNCHANGED <<obj, budget>>
       \/ Fault("patch") /\ UNCHANGED obj
       \/ Fault("patchReply") /\ obj.phase # "gone" /\ obj' = PatchedObject
    /\ Watch
    /\ job' = NoJob
    /\ queued' = TRUE
    /\ UNCHANGED <<now, cache, timer, target, moved, load, history, ghost>>

-----------------------------------------------------------------------------
(* The informer, the queue and the clock                                   *)

\* A watch event brings the informer up to date and queues the key.
CacheSync ==
    /\ stale
    /\ cache' = obj
    /\ stale' = FALSE
    /\ queued' = TRUE
    /\ UNCHANGED <<now, obj, timer, job, target, moved, load, history, budget, ghost>>

TimerFires ==
    /\ timer # Nil /\ timer <= now
    /\ timer' = Nil
    /\ queued' = TRUE
    /\ UNCHANGED <<now, obj, cache, stale, job, target, moved, load, history, budget, ghost>>

\* A change of the target by somebody else, in the middle of a pass or not.
Move == moved' = (job.pc \in {"evaluate", "scale"})

\* The target's own controller reports the replicas it runs.
TargetSync ==
    /\ target.observed # target.replicas
    /\ target' = [target EXCEPT !.observed = target.replicas]
    /\ Move
    /\ UNCHANGED <<now, obj, cache, stale, queued, timer, job, load, history, budget, ghost>>

\* Nothing is left to do before time passes.
Quiet ==
    /\ job.pc = "idle" /\ ~queued
    /\ ~stale
    /\ timer # Nil => timer > now

Tick ==
    /\ now < MaxTime
    /\ Prompt => Quiet
    /\ now' = now + 1
    /\ history' = [history EXCEPT !.recent = Recent(@, now + 1, Window)]
    /\ ghost' = [ghost EXCEPT !.advised = Recent(@, now + 1, Window)]
    /\ UNCHANGED <<obj, cache, stale, queued, timer, job, target, moved, load, budget>>

-----------------------------------------------------------------------------
(* Users, the cluster and crashes                                          *)

Disturbance(kind) ==
    /\ kind \in Disturbances
    /\ ghost' = [ghost EXCEPT !.disturbedAt = IF Prompt THEN now ELSE @]
    /\ UNCHANGED now

Disturb(kind) ==
    /\ Disturbance(kind)
    /\ budget > 0
    /\ budget' = budget - 1

EditSpec ==
    /\ Disturb("spec")
    /\ obj.phase = "live"
    /\ \E spec \in Specs \ {obj.spec} :
          obj' = [obj EXCEPT !.spec = spec, !.generation = @ + 1]
    /\ Watch
    /\ UNCHANGED <<cache, queued, timer, job, target, moved, load, history>>

Annotate ==
    /\ Disturb("annotation")
    /\ obj.phase = "live"
    /\ \E annotation \in Annotations \ {obj.patches} :
          obj' = [obj EXCEPT !.patches = annotation]
    /\ Watch
    /\ UNCHANGED <<cache, queued, timer, job, target, moved, load, history>>

SetDryRun ==
    /\ Disturb("dryRun")
    /\ obj.phase = "live"
    /\ \E dryRun \in DryRuns \ {obj.dryRun} : obj' = [obj EXCEPT !.dryRun = dryRun]
    /\ Watch
    /\ UNCHANGED <<cache, queued, timer, job, target, moved, load, history>>

\* The object goes at once, or waits for a finalizer of somebody else.
Delete ==
    /\ Disturb("delete")
    /\ \/ obj.phase = "live" /\ obj' = [obj EXCEPT !.phase = "deleting"]
       \/ obj.phase # "gone" /\ obj' = [obj EXCEPT !.phase = "gone"]
    /\ Watch
    /\ UNCHANGED <<cache, queued, timer, job, target, moved, load, history>>

\* Paid for by the deletion.
Recreate ==
    /\ Disturbance("recreate")
    /\ obj.phase = "gone"
    /\ \E spec \in InitialSpecs, annotation \in Annotations, dryRun \in DryRuns :
          obj' = FreshObject(spec, annotation, dryRun)
    /\ Watch
    /\ UNCHANGED <<cache, queued, timer, job, target, moved, load, history, budget>>

ChangeLoad ==
    /\ Disturb("load")
    /\ load' \in Loads \ {load}
    /\ UNCHANGED <<obj, cache, stale, queued, timer, job, target, moved, history>>

\* Somebody else scales the target.
ResizeTarget ==
    /\ Disturb("resize")
    /\ target.exists
    /\ \E n \in TargetSizes \ {target.replicas} :
          target' = [target EXCEPT !.replicas = n]
    /\ Move
    /\ UNCHANGED <<obj, cache, stale, queued, timer, job, load, history>>

\* The target is removed, or created again.
ReplaceTarget ==
    /\ Disturb("target")
    /\ \/ target.exists /\ target' = NoScale
       \/ /\ ~target.exists
          /\ \E n \in TargetSizes :
                target' = [exists |-> TRUE, replicas |-> n, observed |-> 0]
    /\ Move
    /\ UNCHANGED <<obj, cache, stale, queued, timer, job, load, history>>

\* The process dies and another takes over: it lists the object anew.
Crash ==
    /\ Disturb("crash")
    /\ cache' = obj
    /\ stale' = FALSE
    /\ queued' = (obj.phase # "gone")
    /\ timer' = Nil
    /\ job' = NoJob
    /\ moved' = FALSE
    /\ history' = [seeded |-> FALSE, recent |-> {}]
    /\ UNCHANGED <<obj, target, load>>

-----------------------------------------------------------------------------
Reconcile ==
    \/ BeginNotFound \/ BeginDeleting \/ BeginWithoutTarget \/ BeginExhaustError
    \/ BeginStatic \/ BeginSelectorError \/ BeginColdDown \/ BeginAutoscaling
    \/ EvaluateFails \/ EvaluateWithoutScaler \/ EvaluateWithoutReplicator \/ Evaluate
    \/ ScaleNeedless \/ ScaleDryRun \/ Scale \/ ScaleFails \/ ScaleReplyLost
    \/ PatchNothing \/ Patch \/ PatchFails

Environment ==
    \/ EditSpec \/ Annotate \/ SetDryRun \/ Delete \/ Recreate
    \/ ChangeLoad \/ ResizeTarget \/ ReplaceTarget \/ Crash

Next == Reconcile \/ CacheSync \/ TimerFires \/ TargetSync \/ Tick \/ Environment

Spec == Init /\ [][Next]_vars

\* A worker that has work goes on with it, watch events arrive and the delaying
\* queue delivers.
Fairness == WF_vars(Reconcile) /\ WF_vars(CacheSync) /\ WF_vars(TimerFires)

FairSpec == Spec /\ Fairness

-----------------------------------------------------------------------------
(* Properties                                                              *)

\* However passes overlap with crashes, lost answers, stale copies and writes of
\* status from an old base, a lastScaleTime on the server is a moment at which
\* scaleReplicas really went through (or, in dry-run, said it would): a pass that
\* failed to scale leaves no stamp.
LastScaleTimeJustified ==
    obj.status.lastScaleTime # Nil =>
        obj.status.lastScaleTime \in ghost.scaledAt \cup ghost.drilledAt

\* A pass never decides to lower the target below what the scalers asked for
\* within the downscale stabilization window (as far as the limits in force
\* allow), even when the process that got the advice has died since: the seed
\* taken from the target stands in for the lost history.
NoEarlyDownscale ==
    [][(job.pc = "evaluate" /\ job'.pc = "scale" /\ job'.desired < job.scale.replicas) =>
          \A rec \in Recent(ghost.advised, now, Window) : \E limits \in Limits :
              job'.desired >= Clamp(rec.replicas, limits)]_vars

\* Nothing but the informer's periodic resync, hours away, starts another pass.
Stalled == Quiet /\ timer = Nil /\ obj.phase = "live"

\* The loop comes to rest only where the code asks for no requeue: a static
\* autoscaler, a replicator the engine does not have, a target that could not be
\* read.  No overlap of passes, events, timers, failed patches and crashes loses
\* the key otherwise.
LoopStopsOnlyOnPurpose ==
    Stalled =>
        \/ obj.spec.min = Nil
        \/ obj.spec.replicator = "unknown"
        \/ obj.status.conditions["Ready"].reason = "FailedToGetScaleTarget"

\* No write of the controller takes a patch out of the annotation before its end
\* and retention have passed.
PatchHeldUntilExpiry ==
    [][(job.pc = "patch" /\ job'.pc = "idle" /\ obj.patches # Garbled) =>
          \A i \in obj.patches :
              ~Expired(PatchTable[i], now) => obj'.patches # Garbled /\ i \in obj'.patches]_vars

\* The last moment at which the target was really scaled.
LastScaled(t) == t \in ghost.scaledAt /\ \A u \in ghost.scaledAt : u <= t

\* Outside panic mode two updates of the target by autoscaling are at least the
\* cold-down apart.
ColdDownRespected ==
    [][(target' # target /\ job.pc = "scale" /\ job'.pc = "patch"
        /\ job.observed.spec.min # Nil /\ ~job.underPanic) =>
          \A t \in ghost.scaledAt : now - t >= DefaultScalingColdDown]_vars

\* Between passes the status on the server tells when the target was last scaled.
ScaleTimeRecorded ==
    job.pc = "idle" =>
        \A t \in ghost.scaledAt : LastScaled(t) => obj.status.lastScaleTime = t

\* What the target should have once everything has settled.
Goal == Clamp(load, [min |-> obj.spec.min, max |-> obj.spec.max])

\* Twice the loop may need a pass that gets past the cold-down: to take up the change, and
\* to forget, once the window is over, what was asked for before.
SettlingTime == Window + 2 * (DefaultScalingColdDown + RequeueDelayOnNormalState)

\* A change of load, spec or target is answered within SettlingTime, whatever cold-down,
\* panic mode, conflicts and retries do meanwhile: from then on the target has what the
\* load asks for.
SettlesInTime ==
    (Quiet /\ obj.phase = "live" /\ target.exists /\ obj.spec.min # Nil
     /\ now - ghost.disturbedAt >= SettlingTime) =>
        target.replicas = Goal

\* A new generation of the spec is observed, unless the target is missing or
\* the object is deleted or changed again.
GenerationObserved ==
    \A g \in 1..(Budget + 1) :
        (obj.phase = "live" /\ obj.generation = g) ~>
            \/ obj.status.observedGeneration = g
            \/ obj.generation # g \/ obj.phase # "live" \/ ~target.exists

\* "conditions is the set of conditions required for this autoscaler to scale its
\* target, and indicates whether or not those conditions are met": an autoscaler
\* whose last pass lacked its scaler or replicator, or failed to scale, is not Ready.
FailureIsNotReady ==
    (job.pc = "idle" /\ ghost.failed) => obj.status.conditions["Ready"].status # "True"
===========================================================================
