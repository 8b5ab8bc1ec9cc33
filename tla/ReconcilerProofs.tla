-------------------------- MODULE ReconcilerProofs --------------------------
(***************************************************************************)
(* Theorems about the reconcile loop, for every value of the constants.    *)
(***************************************************************************)
EXTENDS Reconciler, TLAPS

\* What SetCondition makes of a list of conditions is one.
LEMMA SetConditionType ==
    ASSUME NEW conditions \in Conditions(Times), NEW type \in ConditionTypes,
           NEW status \in Statuses, NEW reason \in Reasons, NEW when \in Times
    PROVE  SetCondition(conditions, type, status, reason, when) \in Conditions(Times)
<1>1. Initialized(conditions) \in Conditions(Times)
  BY DEF Initialized, Conditions, NoConditions, ConditionTypes, Statuses, Reasons
<1>2. QED
  BY <1>1 DEF SetCondition, Conditions

\* Setting the conditions of a status, whatever the rest of it is.
LEMMA ConditionsType ==
    ASSUME NEW status \in Status, NEW conditions \in Conditions(Times)
    PROVE  [status EXCEPT !.conditions = conditions] \in Status
BY DEF Status

LEMMA ReadyType ==
    ASSUME now \in Times, NEW status \in Status
    PROVE  WithReady(status) \in Status
<1>1. status.conditions \in Conditions(Times)
  BY DEF Status
<1>2. SetCondition(status.conditions, "Ready", "True", "", now) \in Conditions(Times)
  BY <1>1, SetConditionType DEF ConditionTypes, Statuses, Reasons
<1>3. QED
  BY <1>2, ConditionsType DEF WithReady

LEMMA NotReadyType ==
    ASSUME now \in Times, NEW status \in Status, NEW reason \in Reasons
    PROVE  WithNotReady(status, reason) \in Status
<1>1. status.conditions \in Conditions(Times)
  BY DEF Status
<1>2. SetCondition(status.conditions, "Ready", "False", reason, now) \in Conditions(Times)
  BY <1>1, SetConditionType DEF ConditionTypes, Statuses
<1>3. QED
  BY <1>2, ConditionsType DEF WithNotReady

\* A purge leaves an annotation that parses, or the garbled one.
LEMMA PurgeType ==
    ASSUME NEW annotation \in Patches \cup {Garbled}, NEW when
    PROVE  PurgeUnusedReplicaPatches(annotation, when) \in Patches \cup {Garbled}
BY DEF PurgeUnusedReplicaPatches, Patches

\* Merging fields of two statuses into a third gives a status.
LEMMA MergeStatusType ==
    ASSUME NEW server \in Status, NEW base \in Status, NEW new \in Status
    PROVE  MergeStatus(server, base, new) \in Status
BY DEF MergeStatus, MergeField, Status

LEMMA ObservedStatusType ==
    ASSUME TypeOK, NEW exhausted \in BOOLEAN
    PROVE  ObservedStatus(exhausted) \in Status
<1>1. cache.status \in Status /\ cache.generation \in Nat /\ target.observed \in Nat
      /\ now \in Times
  BY DEF TypeOK, Object, Target
<1>2. cache.status.conditions \in Conditions(Times)
  BY <1>1 DEF Status
<1>3. SetCondition(cache.status.conditions, "Exhausted", "True", "ExhaustedOnPending", now)
        \in Conditions(Times)
  BY <1>1, <1>2, SetConditionType DEF ConditionTypes, Statuses, Reasons
<1>4. SetCondition(cache.status.conditions, "Exhausted", "False", "", now)
        \in Conditions(Times)
  BY <1>1, <1>2, SetConditionType DEF ConditionTypes, Statuses, Reasons
<1>5. QED
  BY <1>1, <1>3, <1>4 DEF ObservedStatus, Status

-----------------------------------------------------------------------------
(* Type correctness                                                        *)

\* A pass that evaluates has a lower limit: without it Clamp would compare with
\* Nil, so the type invariant is not inductive on its own.
EvaluatesAutoscaled == job.pc = "evaluate" => job.observed.spec.min # Nil

TypeInv == TypeOK /\ EvaluatesAutoscaled

\* A failing call stays within the budget.
LEMMA FaultType ==
    ASSUME TypeOK, NEW kind, Fault(kind)
    PROVE  budget' \in 0..Budget
BY BoundsAssumption DEF TypeOK, Fault

\* A step that begins a pass.
LEMMA BeginType ==
    ASSUME TypeInv, budget' \in 0..Budget,
           NEW pc \in {"evaluate", "scale", "patch"}, NEW status \in Status,
           NEW scale \in Target, NEW desired \in Nat, NEW underPanic \in BOOLEAN,
           NEW delay \in Nat,
           pc = "evaluate" => cache.spec.min # Nil,
           Begin(Pass(pc, status, scale, desired, underPanic, delay))
    PROVE  TypeInv'
<1>1. /\ job' = Pass(pc, status, scale, desired, underPanic, delay)
      /\ queued' = FALSE
      /\ ghost' = [ghost EXCEPT !.failed = FALSE]
      /\ UNCHANGED <<now, obj, cache, stale, timer, target, moved, load, history>>
  BY DEF Begin
<1>2. TypeOK /\ cache \in Object
  BY DEF TypeInv, TypeOK
<1>3. PurgeUnusedReplicaPatches(cache.patches, now) \in Patches \cup {Garbled}
  BY <1>2, PurgeType DEF Object
<1>4. job' \in Job
  BY <1>1, <1>2, <1>3 DEF Pass, Job
<1>5. ghost' \in Ghost
  BY <1>1, <1>2 DEF TypeOK, Ghost
<1>6. EvaluatesAutoscaled'
  BY <1>1 DEF EvaluatesAutoscaled, Pass
<1>7. QED
  BY <1>1, <1>2, <1>4, <1>5, <1>6 DEF TypeInv, TypeOK

\* The worker is in a pass, so job is a record with all its fields.
LEMMA JobType ==
    ASSUME TypeOK, job.pc # "idle"
    PROVE  /\ job \in Job
           /\ job.observed \in Object /\ job.status \in Status
           /\ job.patches \in Patches \cup {Garbled}
           /\ job.scale \in Target /\ job.desired \in Nat
           /\ job.underPanic \in BOOLEAN /\ job.delay \in Nat
<1>1. job \in Job
  BY DEF TypeOK, NoJob
<1>2. QED
  BY <1>1 DEF Job

LEMMA ReturnType ==
    ASSUME TypeOK, job.pc # "idle", NEW status \in Status, NEW delay \in Nat,
           Return(status, delay)
    PROVE  job' \in Job /\ job'.pc = "patch" /\ moved' = FALSE
<1>1. job \in Job
  BY JobType
<1>2. NoScale \in Target
  BY DEF NoScale, Target
<1>3. QED
  BY <1>1, <1>2 DEF Return, Job

\* A working replica patch is a listed one, so the limits in force are numbers.
LEMMA LimitsType ==
    ASSUME TypeInv, job.pc = "evaluate", NEW limits \in Limits
    PROVE  limits.min \in Nat /\ limits.max \in Nat
<1>1. job.observed \in Object /\ job.patches \in Patches \cup {Garbled}
  BY JobType DEF TypeInv
<1>2. job.observed.spec \in SpecType /\ job.observed.spec.min # Nil
  BY <1>1, SpecsAssumption DEF TypeInv, EvaluatesAutoscaled, Object
<1>3. WorkingReplicaPatch(now, job.patches) \subseteq DOMAIN PatchTable
  BY <1>1 DEF WorkingReplicaPatch, GetReplicaPatch, Patches
<1>4. ASSUME NEW i \in WorkingReplicaPatch(now, job.patches)
      PROVE  PatchTable[i].min \in Nat /\ PatchTable[i].max \in Nat
  <2>1. PatchTable[i] \in ReplicaPatch
    BY <1>3, <1>4, PatchAssumption
  <2>2. QED
    BY <2>1 DEF ReplicaPatch
<1>5. CASE WorkingReplicaPatch(now, job.patches) = {}
  BY <1>2, <1>5 DEF Limits, SpecType
<1>6. CASE WorkingReplicaPatch(now, job.patches) # {}
  BY <1>4, <1>6 DEF Limits
<1>7. QED
  BY <1>5, <1>6

LEMMA ClampType ==
    ASSUME NEW n \in Nat, NEW limits, limits.min \in Nat, limits.max \in Nat
    PROVE  Clamp(n, limits) \in Nat
BY DEF Clamp, Capped

\* The conditions Evaluate and Scale set.
LEMMA EvaluatedConditionsType ==
    ASSUME now \in Times, NEW conditions \in Conditions(Times), NEW n, NEW limits
    PROVE  LimitedCondition(PatchedCondition(conditions), n, limits) \in Conditions(Times)
<1>1. PatchedCondition(conditions) \in Conditions(Times)
  <2>1. SetCondition(conditions, "ReplicaPatched", "False", "NoPatch", now)
          \in Conditions(Times)
    BY SetConditionType DEF ConditionTypes, Statuses, Reasons
  <2>2. SetCondition(SetCondition(conditions, "ReplicaPatched", "False", "NoPatch", now),
                     "ReplicaPatched", "True", "Applied", now) \in Conditions(Times)
    BY <2>1, SetConditionType DEF ConditionTypes, Statuses, Reasons
  <2>3. QED
    BY <2>1, <2>2 DEF PatchedCondition
<1>2. ASSUME NEW status \in Statuses, NEW reason \in Reasons
      PROVE  SetCondition(PatchedCondition(conditions), "ScaleLimited", status, reason, now)
               \in Conditions(Times)
  BY <1>1, SetConditionType DEF ConditionTypes
<1>3. QED
  BY <1>2 DEF LimitedCondition, Statuses, Reasons

LEMMA PanicConditionType ==
    ASSUME now \in Times, NEW conditions \in Conditions(Times)
    PROVE  PanicCondition(conditions) \in Conditions(Times)
<1>1. ASSUME NEW status \in Statuses
      PROVE  SetCondition(conditions, "PanicMode", status, "", now) \in Conditions(Times)
  BY SetConditionType DEF ConditionTypes, Reasons
<1>2. QED
  BY <1>1 DEF PanicCondition, Statuses

\* scaleReplicas has succeeded and the pass goes on to its end.
LEMMA ScaledType ==
    ASSUME TypeOK, job.pc # "idle", NEW status \in Status, Scaled(status)
    PROVE  job' \in Job /\ job'.pc = "patch" /\ moved' = FALSE
<1>1. now \in Times
  BY DEF TypeOK
<1>2. WithReady(status) \in Status
  BY <1>1, ReadyType
<1>3. status.conditions \in Conditions(Times)
  BY DEF Status
<1>4. [status EXCEPT !.conditions = PanicCondition(status.conditions)] \in Status
  BY <1>1, <1>3, PanicConditionType, ConditionsType
<1>5. WithReady([status EXCEPT !.conditions = PanicCondition(status.conditions)]) \in Status
  BY <1>1, <1>4, ReadyType
<1>6. NotRequeue \in Nat /\ DelayAfterScaling \in Nat
  BY DEF NotRequeue, DelayAfterScaling, RequeueDelayOnPanicState, DefaultRequeueDelay,
         RequeueDelayOnNormalState
<1>7. CASE job.observed.spec.min = Nil
  <2>1. Return(WithReady(status), NotRequeue)
    BY <1>7 DEF Scaled
  <2>2. QED
    BY <2>1, <1>2, <1>6, ReturnType
<1>8. CASE job.observed.spec.min # Nil
  <2>1. Return(WithReady([status EXCEPT !.conditions = PanicCondition(status.conditions)]),
               DelayAfterScaling)
    BY <1>8 DEF Scaled
  <2>2. QED
    BY <2>1, <1>5, <1>6, ReturnType
<1>9. QED
  BY <1>7, <1>8

LEMMA DecidedType ==
    ASSUME TypeOK, job.pc # "idle"
    PROVE  Decided \in Status /\ Stamped \in Status
<1>1. job.status \in Status /\ job.desired \in Nat /\ now \in Times
  BY JobType DEF TypeOK
<1>2. Decided \in Status
  BY <1>1 DEF Decided, Status
<1>3. QED
  BY <1>1, <1>2 DEF Stamped, Status

LEMMA FailedToScaleType ==
    ASSUME TypeOK, job.pc # "idle", FailedToScale
    PROVE  job' \in Job /\ job'.pc = "patch" /\ moved' = FALSE
<1>1. now \in Times
  BY DEF TypeOK
<1>2. WithNotReady(Decided, "FailedToScale") \in Status
  BY <1>1, DecidedType, NotReadyType DEF Reasons
<1>3. WithReady(WithNotReady(Decided, "FailedToScale")) \in Status
  BY <1>1, <1>2, ReadyType
<1>4. RequeueDelayOnErrorState \in Nat
  BY DEF RequeueDelayOnErrorState
<1>5. QED
  BY <1>3, <1>4, ReturnType DEF FailedToScale

\* An object as a user creates it.
LEMMA FreshType ==
    ASSUME NEW spec \in Specs, NEW annotation \in Patches \cup {Garbled},
           NEW dryRun \in {"unset", "true", "false"}
    PROVE  FreshObject(spec, annotation, dryRun) \in Object
<1>1. NoConditions \in Conditions(Times)
  BY DEF NoConditions, Conditions, Statuses, Reasons
<1>2. NoStatus \in Status
  BY <1>1 DEF NoStatus, Status
<1>3. QED
  BY <1>2 DEF FreshObject, Object

\* What the API server holds after a patch.
LEMMA PatchedObjectType ==
    ASSUME TypeOK, job.pc # "idle"
    PROVE  PatchedObject \in Object
<1>1. obj \in Object /\ obj.status \in Status
  BY DEF TypeOK, Object
<1>2. job.observed.status \in Status /\ job.status \in Status
      /\ job.patches \in Patches \cup {Garbled}
  BY JobType DEF Object
<1>3. MergeStatus(obj.status, job.observed.status, job.status) \in Status
  BY <1>1, <1>2, MergeStatusType
<1>4. QED
  BY <1>1, <1>2, <1>3 DEF PatchedObject, Object

\* One step per way a pass can begin.
LEMMA BeginStepType ==
    ASSUME TypeInv,
           \/ BeginDeleting \/ BeginWithoutTarget \/ BeginExhaustError \/ BeginStatic
           \/ BeginSelectorError \/ BeginColdDown \/ BeginAutoscaling
    PROVE  TypeInv'
<1> USE DEF NotRequeue, DefaultRequeueDelay, RequeueDelayOnNormalState,
            RequeueDelayOnErrorState
<1>1. /\ TypeOK /\ now \in Times /\ target \in Target /\ budget \in 0..Budget
      /\ cache.status \in Status /\ cache.spec \in SpecType
  BY SpecsAssumption DEF TypeInv, TypeOK, Object
<1>2. NoScale \in Target
  BY DEF NoScale, Target
<1>3. \A kind : Fault(kind) => budget' \in 0..Budget
  BY <1>1, FaultType
<1>4. \A exhausted \in ExhaustVerdicts : exhausted \in BOOLEAN
  BY DEF ExhaustVerdicts
<1>5. ASSUME NEW exhausted \in BOOLEAN
      PROVE  ObservedStatus(exhausted) \in Status /\ WithReady(ObservedStatus(exhausted)) \in Status
  BY <1>1, ObservedStatusType, ReadyType
<1>6. CASE BeginDeleting
  BY <1>1, <1>2, <1>6, BeginType DEF BeginDeleting
<1>7. CASE BeginWithoutTarget
  <2>1. WithNotReady(cache.status, "FailedToGetScaleTarget") \in Status
    BY <1>1, NotReadyType DEF Reasons
  <2>2. budget' \in 0..Budget
    BY <1>1, <1>3, <1>7 DEF BeginWithoutTarget
  <2>3. QED
    BY <1>2, <1>7, <2>1, <2>2, BeginType DEF BeginWithoutTarget
<1>8. CASE BeginExhaustError
  BY <1>1, <1>2, <1>3, <1>8, BeginType DEF BeginExhaustError
<1>9. CASE BeginStatic
  <2>1. PICK exhausted \in ExhaustVerdicts :
          Begin(Pass("scale", ObservedStatus(exhausted), target, cache.spec.max, FALSE,
                     NotRequeue))
    BY <1>9 DEF BeginStatic
  <2>2. cache.spec.max \in Nat
    BY <1>1 DEF SpecType
  <2>3. budget' \in 0..Budget
    BY <1>1, <1>9 DEF BeginStatic
  <2>4. QED
    BY <1>1, <1>4, <1>5, <2>1, <2>2, <2>3, BeginType
<1>10. CASE BeginSelectorError
  BY <1>2, <1>3, <1>5, <1>10, BeginType DEF BeginSelectorError
<1>11. CASE BeginColdDown
  <2>1. PICK exhausted \in ExhaustVerdicts :
          Begin(Pass("patch", WithReady(ObservedStatus(exhausted)), NoScale, 0, FALSE,
                     DefaultRequeueDelay))
    BY <1>11 DEF BeginColdDown
  <2>2. budget' \in 0..Budget
    BY <1>1, <1>11 DEF BeginColdDown
  <2>3. QED
    BY <1>2, <1>4, <1>5, <2>1, <2>2, BeginType
<1>12. CASE BeginAutoscaling
  <2>1. PICK exhausted \in ExhaustVerdicts :
          Begin(Pass("evaluate", ObservedStatus(exhausted), target, 0,
                     UnderPanicModeCurrently, NotRequeue))
    BY <1>12 DEF BeginAutoscaling
  <2>2. UnderPanicModeCurrently \in BOOLEAN
    BY DEF UnderPanicModeCurrently, StillInPanicMode
  <2>3. budget' \in 0..Budget /\ cache.spec.min # Nil
    BY <1>1, <1>12 DEF BeginAutoscaling
  <2>4. QED
    BY <1>1, <1>4, <1>5, <2>1, <2>2, <2>3, BeginType
<1>13. QED
  BY <1>6, <1>7, <1>8, <1>9, <1>10, <1>11, <1>12

\* One step per way a pass can evaluate.
LEMMA EvaluateStepType ==
    ASSUME TypeInv,
           \/ EvaluateFails \/ EvaluateWithoutScaler \/ EvaluateWithoutReplicator
           \/ Evaluate
    PROVE  TypeInv'
<1> USE DEF NotRequeue, DefaultRequeueDelay, RequeueDelayOnNormalState,
            RequeueDelayOnErrorState
<1>1. TypeOK /\ now \in Times /\ load \in Nat /\ history \in History /\ ghost \in Ghost
  BY DEF TypeInv, TypeOK
<1>2. job.pc = "evaluate"
  BY DEF EvaluateFails, EvaluateWithoutScaler, EvaluateWithoutReplicator, Evaluate
<1>3. job \in Job /\ job.status \in Status /\ job.scale \in Target
  BY <1>1, <1>2, JobType
<1>4. CASE EvaluateFails
  <2>1. WithReady(job.status) \in Status
    BY <1>1, <1>3, ReadyType
  <2>2. job' \in Job /\ job'.pc = "patch" /\ moved' = FALSE
    BY <1>1, <1>2, <1>4, <2>1, ReturnType DEF EvaluateFails
  <2>3. budget' \in 0..Budget
    BY <1>1, <1>4, FaultType DEF EvaluateFails
  <2>4. QED
    BY <1>1, <1>4, <2>2, <2>3 DEF EvaluateFails, TypeInv, TypeOK, EvaluatesAutoscaled
<1>5. ASSUME NEW reason \in Reasons
      PROVE  WithReady(WithNotReady(job.status, reason)) \in Status
  BY <1>1, <1>3, NotReadyType, ReadyType
<1>6. CASE EvaluateWithoutScaler
  <2>1. WithReady(WithNotReady(job.status, "ScalerNotExists")) \in Status
    BY <1>5 DEF Reasons
  <2>2. job' \in Job /\ job'.pc = "patch" /\ moved' = FALSE
    BY <1>1, <1>2, <1>6, <2>1, ReturnType DEF EvaluateWithoutScaler
  <2>3. ghost' \in Ghost
    BY <1>1, <1>6 DEF EvaluateWithoutScaler, Ghost
  <2>4. QED
    BY <1>1, <1>6, <2>2, <2>3 DEF EvaluateWithoutScaler, TypeInv, TypeOK, EvaluatesAutoscaled
<1>7. CASE EvaluateWithoutReplicator
  <2>1. WithReady(WithNotReady(job.status, "ReplicatorNotExists")) \in Status
    BY <1>5 DEF Reasons
  <2>2. job' \in Job /\ job'.pc = "patch" /\ moved' = FALSE
    BY <1>1, <1>2, <1>7, <2>1, ReturnType DEF EvaluateWithoutReplicator
  <2>3. ghost' \in Ghost
    BY <1>1, <1>7 DEF EvaluateWithoutReplicator, Ghost
  <2>4. QED
    BY <1>1, <1>7, <2>2, <2>3
       DEF EvaluateWithoutReplicator, TypeInv, TypeOK, EvaluatesAutoscaled
<1>8. CASE Evaluate
  <2> DEFINE newest == [timestamp |-> now, replicas |-> load]
             before == history.recent \cup Seed
  <2>1. newest \in Recs
    BY <1>1 DEF Recs, Recommendation
  <2>2. before \in SUBSET Recs
    BY <1>1, <1>3 DEF Seed, History, Recs, Recommendation, Target
  <2>3. history' = [seeded |-> TRUE, recent |-> before \cup {newest}]
        /\ ghost' = [ghost EXCEPT !.advised = @ \cup {newest}]
    BY <1>8 DEF Evaluate
  <2>4. history' \in History
    BY <2>1, <2>2, <2>3 DEF History
  <2>5. ghost' \in Ghost
    BY <1>1, <2>1, <2>3 DEF Ghost
  <2>6. PICK m \in {load} \cup {rec.replicas : rec \in before}, limits \in Limits :
          job' = [job EXCEPT
                    !.pc = "scale",
                    !.desired = Clamp(m, limits),
                    !.status.conditions = LimitedCondition(PatchedCondition(@), m, limits)]
    BY <1>8 DEF Evaluate
  <2>7. m \in Nat
    BY <1>1, <2>2 DEF Recs, Recommendation
  <2>8. Clamp(m, limits) \in Nat
    BY <1>2, <2>7, LimitsType, ClampType
  <2>9. job.status.conditions \in Conditions(Times)
    BY <1>3 DEF Status
  <2>10. LimitedCondition(PatchedCondition(job.status.conditions), m, limits)
            \in Conditions(Times)
    BY <1>1, <2>9, EvaluatedConditionsType
  <2>11. job' \in Job /\ job'.pc = "scale"
    <3> DEFINE conditions == LimitedCondition(PatchedCondition(job.status.conditions), m, limits)
    <3>1. [job.status EXCEPT !.conditions = conditions] \in Status
      BY <1>3, <2>10, ConditionsType
    <3>2. job' = [job EXCEPT !.pc = "scale", !.desired = Clamp(m, limits),
                             !.status = [job.status EXCEPT !.conditions = conditions]]
      BY <1>3, <2>6 DEF Job
    <3> HIDE DEF conditions
    <3>3. QED
      BY <1>3, <2>8, <3>1, <3>2 DEF Job
  <2>12. UNCHANGED <<now, obj, cache, stale, queued, timer, target, moved, load, budget>>
    BY <1>8 DEF Evaluate
  <2>13. QED
    BY <1>1, <2>4, <2>5, <2>11, <2>12 DEF TypeInv, TypeOK, EvaluatesAutoscaled
<1>9. QED
  BY <1>4, <1>6, <1>7, <1>8

\* One step per way scaleReplicas can end.
LEMMA ScaleStepType ==
    ASSUME TypeInv,
           ScaleNeedless \/ ScaleDryRun \/ Scale \/ ScaleFails \/ ScaleReplyLost
    PROVE  TypeInv'
<1>1. TypeOK /\ now \in Times /\ target \in Target /\ ghost \in Ghost /\ budget \in 0..Budget
  BY DEF TypeInv, TypeOK
<1>2. job.pc = "scale"
  BY DEF ScaleNeedless, ScaleDryRun, Scale, ScaleFails, ScaleReplyLost, MustScale
<1>3. job' \in Job /\ job'.pc = "patch" /\ moved' = FALSE
  <2>1. CASE ScaleNeedless
    BY <1>1, <1>2, <2>1, DecidedType, ScaledType DEF ScaleNeedless
  <2>2. CASE ScaleDryRun
    BY <1>1, <1>2, <2>2, DecidedType, ScaledType DEF ScaleDryRun
  <2>3. CASE Scale
    BY <1>1, <1>2, <2>3, DecidedType, ScaledType DEF Scale
  <2>4. CASE ScaleFails
    BY <1>1, <1>2, <2>4, FailedToScaleType DEF ScaleFails
  <2>5. CASE ScaleReplyLost
    BY <1>1, <1>2, <2>5, FailedToScaleType DEF ScaleReplyLost
  <2>6. QED
    BY <2>1, <2>2, <2>3, <2>4, <2>5
<1>4. target' \in Target
  <2>1. job.desired \in Nat
    BY <1>1, <1>2, JobType
  <2>2. QED
    BY <1>1, <2>1 DEF ScaleNeedless, ScaleDryRun, Scale, ScaleFails, ScaleReplyLost,
                      UpdateTarget, Target
<1>5. ghost' \in Ghost
  <2>1. CASE ScaleNeedless
    BY <1>1, <2>1 DEF ScaleNeedless
  <2>2. CASE ScaleDryRun
    BY <1>1, <2>2 DEF ScaleDryRun, Ghost
  <2>3. CASE Scale
    BY <1>1, <2>3 DEF Scale, Ghost
  <2>4. CASE ScaleFails
    BY <1>1, <2>4 DEF ScaleFails, Ghost
  <2>5. CASE ScaleReplyLost
    BY <1>1, <2>5 DEF ScaleReplyLost, Ghost
  <2>6. QED
    BY <2>1, <2>2, <2>3, <2>4, <2>5
<1>6. budget' \in 0..Budget
  <2>1. budget' = budget \/ Fault("update") \/ Fault("updateReply")
    BY DEF ScaleNeedless, ScaleDryRun, Scale, ScaleFails, ScaleReplyLost
  <2>2. QED
    BY <1>1, <2>1, FaultType
<1>7. UNCHANGED <<now, obj, cache, stale, queued, timer, load, history>>
  BY DEF ScaleNeedless, ScaleDryRun, Scale, ScaleFails, ScaleReplyLost
<1>8. QED
  BY <1>1, <1>3, <1>4, <1>5, <1>6, <1>7 DEF TypeInv, TypeOK, EvaluatesAutoscaled

\* One step per way a pass can end.
LEMMA PatchStepType ==
    ASSUME TypeInv, PatchNothing \/ Patch \/ PatchFails
    PROVE  TypeInv'
<1>1. TypeOK /\ now \in Times /\ obj \in Object /\ timer \in Nat \cup {Nil}
      /\ budget \in 0..Budget
  BY DEF TypeInv, TypeOK
<1>2. job.pc = "patch" /\ job' = NoJob
  BY DEF PatchNothing, Patch, PatchFails
<1>3. obj' \in Object
  BY <1>1, <1>2, PatchedObjectType DEF PatchNothing, Patch, PatchFails
<1>4. timer' \in Nat \cup {Nil}
  <2>1. job.delay \in Nat
    BY <1>1, <1>2, JobType
  <2>2. QED
    BY <1>1, <2>1, BoundsAssumption DEF PatchNothing, Patch, PatchFails, RequeueAfter, Times
<1>5. budget' \in 0..Budget
  <2>1. budget' = budget \/ Fault("patch") \/ Fault("patchReply")
    BY DEF PatchNothing, Patch, PatchFails
  <2>2. QED
    BY <1>1, <2>1, FaultType
<1>6. /\ queued' \in {queued, TRUE} /\ stale' \in {stale, TRUE}
      /\ UNCHANGED <<now, cache, target, moved, load, history, ghost>>
  BY <1>1 DEF PatchNothing, Patch, PatchFails, Watch, TypeOK
<1>7. QED
  BY <1>1, <1>2, <1>3, <1>4, <1>5, <1>6 DEF TypeInv, TypeOK, EvaluatesAutoscaled, NoJob

\* The informer, the queue, the target's controller and the clock.
LEMMA BackgroundStepType ==
    ASSUME TypeInv, CacheSync \/ TimerFires \/ TargetSync \/ Tick
    PROVE  TypeInv'
<1>1. TypeOK /\ EvaluatesAutoscaled
  BY DEF TypeInv
<1>2. job' = job
  BY DEF CacheSync, TimerFires, TargetSync, Tick
<1>3. CASE CacheSync
  BY <1>1, <1>2, <1>3 DEF CacheSync, TypeInv, TypeOK, EvaluatesAutoscaled
<1>4. CASE TimerFires
  BY <1>1, <1>2, <1>4 DEF TimerFires, TypeInv, TypeOK, EvaluatesAutoscaled
<1>5. CASE TargetSync
  <2>1. target' \in Target /\ moved' \in BOOLEAN
    BY <1>1, <1>5 DEF TargetSync, TypeOK, Target, Move
  <2>2. QED
    BY <1>1, <1>2, <1>5, <2>1 DEF TargetSync, TypeInv, TypeOK, EvaluatesAutoscaled
<1>6. CASE Tick
  <2>1. now' \in Times
    BY <1>1, <1>6, BoundsAssumption DEF Tick, TypeOK, Times
  <2>2. history' \in History
    BY <1>1, <1>6 DEF Tick, TypeOK, History, Recent
  <2>3. ghost' \in Ghost
    BY <1>1, <1>6 DEF Tick, TypeOK, Ghost, Recent
  <2>4. QED
    BY <1>1, <1>2, <1>6, <2>1, <2>2, <2>3 DEF Tick, TypeInv, TypeOK, EvaluatesAutoscaled
<1>7. QED
  BY <1>3, <1>4, <1>5, <1>6

\* Users, the cluster and crashes.
LEMMA EnvironmentStepType ==
    ASSUME TypeInv, Environment
    PROVE  TypeInv'
<1>1. TypeOK /\ EvaluatesAutoscaled /\ now \in Times /\ obj \in Object /\ target \in Target
  BY DEF TypeInv, TypeOK
<1>2. ASSUME NEW kind, Disturbance(kind)
      PROVE  ghost' \in Ghost /\ now' = now
  BY <1>1, <1>2 DEF Disturbance, TypeOK, Ghost
<1>3. ASSUME NEW kind, Disturb(kind)
      PROVE  ghost' \in Ghost /\ now' = now /\ budget' \in 0..Budget
  BY <1>1, <1>2, <1>3, BoundsAssumption DEF Disturb, TypeOK
<1>4. ASSUME NEW spec \in Specs, NEW annotation \in Annotations, NEW dryRun \in DryRuns
      PROVE  FreshObject(spec, annotation, dryRun) \in Object
  BY AnnotationsAssumption, DryRunsAssumption, FreshType
<1>5. ASSUME obj' \in Object, ghost' \in Ghost, now' = now, budget' \in 0..Budget, Watch,
             UNCHANGED <<cache, queued, timer, job, target, moved, load, history>>
      PROVE  TypeInv'
  <2>1. stale' \in BOOLEAN
    BY <1>1, <1>5 DEF Watch, TypeOK
  <2>2. QED
    BY <1>1, <1>5, <2>1 DEF TypeInv, TypeOK, EvaluatesAutoscaled
<1>6. ASSUME target' \in Target, load' \in Nat, ghost' \in Ghost, now' = now,
             budget' \in 0..Budget, UNCHANGED moved \/ Move,
             UNCHANGED <<obj, cache, stale, queued, timer, job, history>>
      PROVE  TypeInv'
  <2>1. moved' \in BOOLEAN
    <3>1. CASE UNCHANGED moved
      BY <1>1, <3>1 DEF TypeOK
    <3>2. CASE Move
      BY <3>2 DEF Move
    <3>3. QED
      BY <1>6, <3>1, <3>2
  <2>2. QED
    BY <1>1, <1>6, <2>1 DEF TypeInv, TypeOK, EvaluatesAutoscaled
<1>7. CASE EditSpec
  <2>1. obj' \in Object
    <3>1. PICK spec \in Specs :
            obj' = [obj EXCEPT !.spec = spec, !.generation = obj.generation + 1]
      BY <1>1, <1>7 DEF EditSpec, Object
    <3>2. obj.generation + 1 \in Nat
      BY <1>1 DEF Object
    <3>3. QED
      BY <1>1, <3>1, <3>2 DEF Object
  <2>2. QED
    BY <1>3, <1>5, <1>7, <2>1 DEF EditSpec
<1>8. CASE Annotate
  <2>1. obj' \in Object
    BY <1>1, <1>8, AnnotationsAssumption DEF Annotate, Object
  <2>2. QED
    BY <1>3, <1>5, <1>8, <2>1 DEF Annotate
<1>9. CASE SetDryRun
  <2>1. obj' \in Object
    BY <1>1, <1>9, DryRunsAssumption DEF SetDryRun, Object
  <2>2. QED
    BY <1>3, <1>5, <1>9, <2>1 DEF SetDryRun
<1>10. CASE Delete
  <2>1. obj' \in Object
    BY <1>1, <1>10 DEF Delete, Object
  <2>2. QED
    BY <1>3, <1>5, <1>10, <2>1 DEF Delete
<1>11. CASE Recreate
  <2>1. obj' \in Object
    BY <1>4, <1>11, SpecsAssumption DEF Recreate
  <2>2. budget' \in 0..Budget
    BY <1>1, <1>11 DEF Recreate, TypeOK
  <2>3. QED
    BY <1>2, <1>5, <1>11, <2>1, <2>2 DEF Recreate
<1>12. CASE ChangeLoad
  <2>1. load' \in Nat /\ target' \in Target
    BY <1>1, <1>12, SizesAssumption DEF ChangeLoad
  <2>2. QED
    BY <1>3, <1>6, <1>12, <2>1 DEF ChangeLoad
<1>13. CASE ResizeTarget
  <2>1. target' \in Target
    BY <1>1, <1>13, SizesAssumption DEF ResizeTarget, Target
  <2>2. QED
    BY <1>1, <1>3, <1>6, <1>13, <2>1 DEF ResizeTarget, TypeOK
<1>14. CASE ReplaceTarget
  <2>1. target' \in Target
    <3>1. NoScale \in Target
      BY DEF NoScale, Target
    <3>2. \A n \in TargetSizes : [exists |-> TRUE, replicas |-> n, observed |-> 0] \in Target
      BY SizesAssumption DEF Target
    <3>3. QED
      BY <1>14, <3>1, <3>2 DEF ReplaceTarget
  <2>2. QED
    BY <1>1, <1>3, <1>6, <1>14, <2>1 DEF ReplaceTarget, TypeOK
<1>15. CASE Crash
  <2>1. history' \in History
    BY <1>15 DEF Crash, History
  <2>2. ghost' \in Ghost /\ now' = now /\ budget' \in 0..Budget
    BY <1>3, <1>15 DEF Crash
  <2>3. QED
    BY <1>1, <1>15, <2>1, <2>2 DEF Crash, TypeInv, TypeOK, EvaluatesAutoscaled, NoJob
<1>16. QED
  BY <1>7, <1>8, <1>9, <1>10, <1>11, <1>12, <1>13, <1>14, <1>15 DEF Environment

LEMMA InitType == Init => TypeInv
<1> SUFFICES ASSUME Init PROVE TypeInv
  OBVIOUS
<1>1. obj \in Object
  BY FreshType, SpecsAssumption, AnnotationsAssumption, DryRunsAssumption DEF Init
<1>2. target \in Target
  BY SizesAssumption DEF Init, Target
<1>3. ghost \in Ghost /\ history \in History
  BY BoundsAssumption DEF Init, Ghost, History, Times
<1>4. now \in Times /\ load \in Nat /\ budget \in 0..Budget
  BY BoundsAssumption, SizesAssumption DEF Init, Times
<1>5. QED
  BY <1>1, <1>2, <1>3, <1>4 DEF Init, TypeInv, TypeOK, EvaluatesAutoscaled, NoJob

LEMMA TypeStep == TypeInv /\ [Next]_vars => TypeInv'
<1> SUFFICES ASSUME TypeInv, [Next]_vars PROVE TypeInv'
  OBVIOUS
<1>1. CASE Reconcile
  <2>1. CASE BeginNotFound
    BY <2>1 DEF BeginNotFound, vars, TypeInv, TypeOK, EvaluatesAutoscaled
  <2>2. QED
    BY <1>1, <2>1, BeginStepType, EvaluateStepType, ScaleStepType, PatchStepType
       DEF Reconcile
<1>2. CASE UNCHANGED vars
  BY <1>2 DEF vars, TypeInv, TypeOK, EvaluatesAutoscaled
<1>3. QED
  BY <1>1, <1>2, BackgroundStepType, EnvironmentStepType DEF Next

\* TypeInv holds in every reachable state.
THEOREM TypeInvariant == Spec => []TypeInv
<1>1. QED
  BY InitType, TypeStep, PTL DEF Spec

\* Every reachable state of the reconcile loop has its type: whatever the specs,
\* annotations, loads, faults and crashes, the passes write only well-formed
\* statuses, annotations and replica counts to the API server and the target.
THEOREM TypeCorrect == Spec => []TypeOK
<1>1. TypeInv => TypeOK
  BY DEF TypeInv
<1>2. QED
  BY <1>1, TypeInvariant, PTL

-----------------------------------------------------------------------------
(* Every stamp is justified                                                *)

\* The times a lastScaleTime may show.
Stamps == ghost.scaledAt \cup ghost.drilledAt \cup {Nil}

\* Not only the server's stamp but also the copies that may still be written back
\* to it: the informer's, from which passes begin, and the running pass's.
StampsJustified ==
    /\ obj.status.lastScaleTime \in Stamps
    /\ cache.status.lastScaleTime \in Stamps
    /\ job.pc # "idle" => job.status.lastScaleTime \in Stamps

\* Conditions leave the stamp alone.
LEMMA ConditionsKeepStamp ==
    ASSUME NEW status \in Status, NEW conditions
    PROVE  [status EXCEPT !.conditions = conditions].lastScaleTime = status.lastScaleTime
BY DEF Status

LEMMA ReadyKeepsStamp ==
    ASSUME NEW status \in Status
    PROVE  /\ WithReady(status).lastScaleTime = status.lastScaleTime
           /\ \A reason : WithNotReady(status, reason).lastScaleTime = status.lastScaleTime
BY ConditionsKeepStamp DEF WithReady, WithNotReady

LEMMA ObservedStatusKeepsStamp ==
    ASSUME TypeOK, NEW exhausted
    PROVE  ObservedStatus(exhausted).lastScaleTime = cache.status.lastScaleTime
<1>1. cache.status \in Status
  BY DEF TypeOK, Object
<1>2. QED
  BY <1>1 DEF ObservedStatus, Status

\* No step takes a scaling back.
LEMMA StampsGrow ==
    ASSUME TypeInv, [Next]_vars
    PROVE  Stamps \subseteq Stamps'
<1>1. ghost \in Ghost
  BY DEF TypeInv, TypeOK
<1>2. \/ ghost' = ghost
      \/ ghost' = [ghost EXCEPT !.failed = FALSE]
      \/ ghost' = [ghost EXCEPT !.failed = TRUE]
      \/ \E x : ghost' = [ghost EXCEPT !.advised = x]
      \/ \E x : ghost' = [ghost EXCEPT !.disturbedAt = x]
      \/ ghost' = [ghost EXCEPT !.drilledAt = ghost.drilledAt \cup {now}]
      \/ ghost' = [ghost EXCEPT !.scaledAt = ghost.scaledAt \cup {now}]
      \/ ghost' = [ghost EXCEPT !.scaledAt = ghost.scaledAt \cup {now}, !.failed = TRUE]
  <2>1. CASE Reconcile
    BY <2>1 DEF Reconcile, BeginNotFound, BeginDeleting, BeginWithoutTarget,
         BeginExhaustError, BeginStatic, BeginSelectorError, BeginColdDown,
         BeginAutoscaling, Begin, EvaluateFails, EvaluateWithoutScaler,
         EvaluateWithoutReplicator, Evaluate, ScaleNeedless, ScaleDryRun, Scale,
         ScaleFails, ScaleReplyLost, PatchNothing, Patch, PatchFails, vars
  <2>2. CASE Environment
    BY <2>2 DEF Environment, EditSpec, Annotate, SetDryRun, Delete, Recreate,
         ChangeLoad, ResizeTarget, ReplaceTarget, Crash, Disturb, Disturbance
  <2>3. CASE CacheSync \/ TimerFires \/ TargetSync \/ Tick \/ UNCHANGED vars
    BY <2>3 DEF CacheSync, TimerFires, TargetSync, Tick, vars
  <2>4. QED
    BY <2>1, <2>2, <2>3 DEF Next
<1>3. QED
  BY <1>1, <1>2 DEF Stamps, Ghost

\* A step of the worker that returns with a status.
LEMMA ReturnStamp ==
    ASSUME TypeOK, job.pc # "idle", NEW status, NEW delay, Return(status, delay)
    PROVE  job'.status = status
<1>1. job \in Job
  BY JobType
<1>2. QED
  BY <1>1 DEF Return, Job

LEMMA ScaledStamp ==
    ASSUME TypeOK, job.pc # "idle", NEW status \in Status, Scaled(status)
    PROVE  job'.status.lastScaleTime = status.lastScaleTime
<1> DEFINE panicked == [status EXCEPT !.conditions = PanicCondition(@)]
<1>1. now \in Times /\ status.conditions \in Conditions(Times)
  BY DEF TypeOK, Status
<1>2. panicked \in Status /\ panicked.lastScaleTime = status.lastScaleTime
  BY <1>1, PanicConditionType, ConditionsType, ConditionsKeepStamp
<1>3. job'.status = WithReady(status) \/ job'.status = WithReady(panicked)
  BY ReturnStamp DEF Scaled
<1>4. QED
  BY <1>2, <1>3, ReadyKeepsStamp

\* An evaluation, or the failure of one, leaves the stamp alone.
LEMMA EvaluateStamp ==
    ASSUME TypeOK,
           EvaluateFails \/ EvaluateWithoutScaler \/ EvaluateWithoutReplicator \/ Evaluate
    PROVE  job'.status.lastScaleTime = job.status.lastScaleTime
<1>1. job.pc = "evaluate"
  BY DEF EvaluateFails, EvaluateWithoutScaler, EvaluateWithoutReplicator, Evaluate
<1>2. job \in Job /\ job.status \in Status /\ now \in Times
  BY <1>1, JobType DEF TypeOK
<1>3. CASE EvaluateFails
  BY <1>1, <1>2, <1>3, ReturnStamp, ReadyKeepsStamp DEF EvaluateFails
<1>4. CASE EvaluateWithoutScaler
  <2>1. WithNotReady(job.status, "ScalerNotExists") \in Status
    BY <1>2, NotReadyType DEF Reasons
  <2>2. QED
    BY <1>1, <1>2, <1>4, <2>1, ReturnStamp, ReadyKeepsStamp DEF EvaluateWithoutScaler
<1>5. CASE EvaluateWithoutReplicator
  <2>1. WithNotReady(job.status, "ReplicatorNotExists") \in Status
    BY <1>2, NotReadyType DEF Reasons
  <2>2. QED
    BY <1>1, <1>2, <1>5, <2>1, ReturnStamp, ReadyKeepsStamp DEF EvaluateWithoutReplicator
<1>6. CASE Evaluate
  <2>1. \E n, conditions : job' = [job EXCEPT !.pc = "scale", !.desired = n,
                                     !.status.conditions = conditions]
    BY <1>6 DEF Evaluate
  <2>2. QED
    BY <1>2, <2>1 DEF Job, Status
<1>7. QED
  BY <1>3, <1>4, <1>5, <1>6

LEMMA DecidedStamp ==
    ASSUME TypeOK, job.pc # "idle"
    PROVE  /\ Decided.lastScaleTime = job.status.lastScaleTime
           /\ Stamped.lastScaleTime = now
<1>1. job.status \in Status
  BY JobType
<1>2. Decided \in Status
  BY DecidedType
<1>3. QED
  BY <1>1, <1>2 DEF Decided, Stamped, Status

LEMMA FailedToScaleStamp ==
    ASSUME TypeOK, job.pc # "idle", FailedToScale
    PROVE  job'.status.lastScaleTime = job.status.lastScaleTime
<1>1. job'.status = WithReady(WithNotReady(Decided, "FailedToScale"))
  BY ReturnStamp DEF FailedToScale
<1>2. now \in Times /\ Decided \in Status
  BY DecidedType DEF TypeOK
<1>3. WithNotReady(Decided, "FailedToScale") \in Status
  BY <1>2, NotReadyType DEF Reasons
<1>4. QED
  BY <1>1, <1>2, <1>3, ReadyKeepsStamp, DecidedStamp

\* A pass starts from the informer's stamp.
LEMMA BeginStamp ==
    ASSUME TypeInv,
           \/ BeginDeleting \/ BeginWithoutTarget \/ BeginExhaustError \/ BeginStatic
           \/ BeginSelectorError \/ BeginColdDown \/ BeginAutoscaling
    PROVE  job'.status.lastScaleTime = cache.status.lastScaleTime
<1>1. TypeOK /\ now \in Times /\ cache.status \in Status
  BY DEF TypeInv, TypeOK, Object
<1>2. ASSUME NEW exhausted \in BOOLEAN
      PROVE  /\ ObservedStatus(exhausted).lastScaleTime = cache.status.lastScaleTime
             /\ WithReady(ObservedStatus(exhausted)).lastScaleTime
                   = cache.status.lastScaleTime
  BY <1>1, ObservedStatusType, ObservedStatusKeepsStamp, ReadyKeepsStamp
<1>3. WithNotReady(cache.status, "FailedToGetScaleTarget").lastScaleTime
        = cache.status.lastScaleTime
  BY <1>1, ReadyKeepsStamp
<1>4. ASSUME NEW pc, NEW status, NEW scale, NEW desired, NEW underPanic, NEW delay,
             Begin(Pass(pc, status, scale, desired, underPanic, delay))
      PROVE  job'.status = status
  BY <1>4 DEF Begin, Pass
<1>5. \A exhausted \in ExhaustVerdicts : exhausted \in BOOLEAN
  BY DEF ExhaustVerdicts
<1>6. CASE BeginDeleting \/ BeginExhaustError
  BY <1>4, <1>6 DEF BeginDeleting, BeginExhaustError
<1>7. CASE BeginWithoutTarget
  BY <1>3, <1>4, <1>7 DEF BeginWithoutTarget
<1>8. CASE BeginStatic
  BY <1>2, <1>4, <1>5, <1>8 DEF BeginStatic
<1>9. CASE BeginAutoscaling
  BY <1>2, <1>4, <1>5, <1>9 DEF BeginAutoscaling
<1>10. CASE BeginSelectorError
  BY <1>2, <1>4, <1>10 DEF BeginSelectorError
<1>11. CASE BeginColdDown
  BY <1>2, <1>4, <1>5, <1>11 DEF BeginColdDown
<1>12. QED
  BY <1>6, <1>7, <1>8, <1>9, <1>10, <1>11

\* What a patch leaves on the server is the server's stamp or the pass's.
LEMMA PatchedStamp ==
    ASSUME TypeOK, job.pc # "idle"
    PROVE  PatchedObject.status.lastScaleTime
             \in {obj.status.lastScaleTime, job.status.lastScaleTime}
<1>1. obj \in Object
  BY DEF TypeOK
<1>2. MergeStatus(obj.status, job.observed.status, job.status).lastScaleTime
        \in {obj.status.lastScaleTime, job.status.lastScaleTime}
  BY DEF MergeStatus, MergeField
<1>3. QED
  BY <1>1, <1>2 DEF PatchedObject, Object

LEMMA StampsStep ==
    ASSUME TypeInv, StampsJustified, [Next]_vars
    PROVE  StampsJustified'
<1>1. TypeOK /\ obj \in Object /\ ghost \in Ghost
  BY DEF TypeInv, TypeOK
<1>2. Stamps \subseteq Stamps'
  BY StampsGrow
<1>3. CASE \/ BeginDeleting \/ BeginWithoutTarget \/ BeginExhaustError \/ BeginStatic
           \/ BeginSelectorError \/ BeginColdDown \/ BeginAutoscaling
  <2>1. UNCHANGED <<obj, cache>>
    BY <1>3 DEF BeginDeleting, BeginWithoutTarget, BeginExhaustError, BeginStatic,
         BeginSelectorError, BeginColdDown, BeginAutoscaling, Begin
  <2>2. job'.status.lastScaleTime = cache.status.lastScaleTime
    BY <1>3, BeginStamp
  <2>3. QED
    BY <1>2, <2>1, <2>2 DEF StampsJustified
<1>4. CASE EvaluateFails \/ EvaluateWithoutScaler \/ EvaluateWithoutReplicator \/ Evaluate
  <2>1. UNCHANGED <<obj, cache>> /\ job.pc = "evaluate"
    BY <1>4 DEF EvaluateFails, EvaluateWithoutScaler, EvaluateWithoutReplicator, Evaluate
  <2>2. job'.status.lastScaleTime = job.status.lastScaleTime
    BY <1>1, <1>4, EvaluateStamp
  <2>3. QED
    BY <1>2, <2>1, <2>2 DEF StampsJustified
<1>5. CASE ScaleNeedless \/ ScaleDryRun \/ Scale \/ ScaleFails \/ ScaleReplyLost
  <2>1. UNCHANGED <<obj, cache>> /\ job.pc = "scale"
    BY <1>5 DEF ScaleNeedless, ScaleDryRun, Scale, ScaleFails, ScaleReplyLost, MustScale
  <2>2. Decided \in Status /\ Stamped \in Status
    BY <1>1, <2>1, DecidedType
  <2>3. CASE ScaleNeedless
    BY <1>1, <1>2, <2>1, <2>2, <2>3, ScaledStamp, DecidedStamp
       DEF ScaleNeedless, StampsJustified
  <2>4. CASE ScaleDryRun \/ Scale
    <3>1. job'.status.lastScaleTime = now
      BY <1>1, <2>1, <2>2, <2>4, ScaledStamp, DecidedStamp DEF ScaleDryRun, Scale
    <3>2. now \in Stamps'
      BY <1>1, <2>4 DEF ScaleDryRun, Scale, Stamps, Ghost
    <3>3. QED
      BY <1>2, <2>1, <3>1, <3>2 DEF StampsJustified
  <2>5. CASE ScaleFails \/ ScaleReplyLost
    BY <1>1, <1>2, <2>1, <2>5, FailedToScaleStamp
       DEF ScaleFails, ScaleReplyLost, StampsJustified
  <2>6. QED
    BY <1>5, <2>3, <2>4, <2>5
<1>6. CASE PatchNothing \/ Patch \/ PatchFails
  <2>1. job.pc = "patch" /\ job' = NoJob /\ cache' = cache
        /\ (obj' = obj \/ obj' = PatchedObject)
    BY <1>6 DEF PatchNothing, Patch, PatchFails
  <2>2. obj'.status.lastScaleTime \in Stamps
    BY <1>1, <2>1, PatchedStamp DEF StampsJustified
  <2>3. QED
    BY <1>2, <2>1, <2>2 DEF StampsJustified, NoJob
<1>7. CASE CacheSync \/ TimerFires \/ TargetSync \/ Tick \/ BeginNotFound \/ UNCHANGED vars
  BY <1>2, <1>7 DEF CacheSync, TimerFires, TargetSync, Tick, BeginNotFound, vars,
                    StampsJustified
<1>8. CASE Environment
  <2>1. \/ obj'.status = obj.status
        \/ obj'.status = NoStatus
    <3>1. CASE EditSpec \/ Annotate \/ SetDryRun \/ Delete
      BY <1>1, <3>1 DEF EditSpec, Annotate, SetDryRun, Delete, Object
    <3>2. CASE Recreate
      BY <3>2 DEF Recreate, FreshObject
    <3>3. CASE ChangeLoad \/ ResizeTarget \/ ReplaceTarget \/ Crash
      BY <3>3 DEF ChangeLoad, ResizeTarget, ReplaceTarget, Crash
    <3>4. QED
      BY <1>8, <3>1, <3>2, <3>3 DEF Environment
  <2>2. \/ UNCHANGED <<cache, job>>
        \/ cache' = obj /\ job' = NoJob
    BY <1>8 DEF Environment, EditSpec, Annotate, SetDryRun, Delete, Recreate,
         ChangeLoad, ResizeTarget, ReplaceTarget, Crash
  <2>3. NoStatus.lastScaleTime \in Stamps
    BY DEF NoStatus, Stamps
  <2>4. QED
    BY <1>2, <2>1, <2>2, <2>3 DEF StampsJustified, NoJob
<1>9. QED
  BY <1>3, <1>4, <1>5, <1>6, <1>7, <1>8 DEF Next, Reconcile

\* The status on the server never shows a lastScaleTime at which no pass scaled
\* (or, in dry-run, decided to): for every spec, annotation, load, fault and crash,
\* and however stale the copy a pass began from.
THEOREM StampsAreJustified == Spec => []LastScaleTimeJustified
<1>1. Init => StampsJustified
  BY DEF Init, StampsJustified, Stamps, FreshObject, NoStatus, NoJob
<1>2. TypeInv /\ StampsJustified /\ [Next]_vars => StampsJustified'
  BY StampsStep
<1>3. StampsJustified => LastScaleTimeJustified
  BY DEF StampsJustified, Stamps, LastScaleTimeJustified
<1>4. QED
  BY <1>1, <1>2, <1>3, TypeInvariant, PTL DEF Spec

-----------------------------------------------------------------------------
(* The loop stops only on purpose                                          *)

OnPurpose(spec, status) ==
    \/ spec.min = Nil
    \/ spec.replicator = "unknown"
    \/ status.conditions["Ready"].reason = "FailedToGetScaleTarget"

\* Without an event on its way the informer is up to date.
CacheFresh == ~stale => cache = obj

\* A pass that no event has overtaken works on the informer's copy.
PassFresh == (job.pc # "idle" /\ ~queued) => cache = job.observed

\* A pass that asks for no requeue has a reason.
NoRequeueOnPurpose ==
    (job.pc = "patch" /\ job.delay = NotRequeue) => OnPurpose(job.observed.spec, job.status)

\* At rest the object on the server shows that reason.
RestsOnPurpose ==
    (job.pc = "idle" /\ ~queued /\ ~stale /\ timer = Nil /\ obj.phase = "live") =>
        OnPurpose(obj.spec, obj.status)

LoopInv == CacheFresh /\ PassFresh /\ NoRequeueOnPurpose /\ RestsOnPurpose

\* A delay that is not NotRequeue sets a timer.
LEMMA RequeueSetsTimer ==
    ASSUME TypeOK, NEW delay \in Nat, delay # NotRequeue, RequeueAfter(delay)
    PROVE  timer' # Nil
<1>1. now + delay \in Int
  BY BoundsAssumption DEF TypeOK, Times
<1>2. QED
  BY <1>1, NilAssumption DEF RequeueAfter

\* A field that changed is written, so a patch of an object that is still as the
\* pass observed it changes the object.
LEMMA PatchChangesObject ==
    ASSUME TypeOK, job.pc # "idle", obj = job.observed, ~(AnnotationsEqual /\ StatusEqual)
    PROVE  PatchedObject # obj
<1>1. obj \in Object /\ job.status \in Status
  BY JobType DEF TypeOK
<1>2. CASE ~AnnotationsEqual
  <2>1. PatchedObject.patches = job.patches
    BY <1>1, <1>2 DEF PatchedObject, Object
  <2>2. QED
    BY <1>2, <2>1 DEF AnnotationsEqual
<1>3. CASE AnnotationsEqual
  <2>1. PatchedObject.status = MergeStatus(obj.status, obj.status, job.status)
    BY <1>1, <1>3 DEF PatchedObject, Object
  <2>2. MergeStatus(obj.status, obj.status, job.status) = job.status
    BY <1>1 DEF MergeStatus, MergeField, Status
  <2>3. QED
    BY <1>3, <2>1, <2>2 DEF StatusEqual
<1>4. QED
  BY <1>2, <1>3

\* A step that begins a pass.
LEMMA BeginLoop ==
    ASSUME LoopInv, NEW pc \in {"evaluate", "scale", "patch"}, NEW status, NEW scale,
           NEW desired, NEW underPanic, NEW delay,
           (pc = "patch" /\ delay = NotRequeue) => OnPurpose(cache.spec, status),
           Begin(Pass(pc, status, scale, desired, underPanic, delay))
    PROVE  LoopInv'
<1>1. /\ job'.pc = pc /\ job'.observed = cache /\ job'.status = status /\ job'.delay = delay
      /\ UNCHANGED <<obj, cache, stale>>
  BY DEF Begin, Pass
<1>2. QED
  BY <1>1 DEF LoopInv, CacheFresh, PassFresh, NoRequeueOnPurpose, RestsOnPurpose, OnPurpose

\* A step after which reconcile has returned.
LEMMA ReturnLoop ==
    ASSUME TypeOK, LoopInv, job.pc # "idle", NEW status, NEW delay, Return(status, delay),
           UNCHANGED <<obj, cache, stale, queued>>,
           delay = NotRequeue => OnPurpose(job.observed.spec, status)
    PROVE  LoopInv'
<1>1. job \in Job
  BY JobType
<1>2. job'.pc = "patch" /\ job'.observed = job.observed /\ job'.status = status
      /\ job'.delay = delay
  BY <1>1 DEF Return, Job
<1>3. QED
  BY <1>2 DEF LoopInv, CacheFresh, PassFresh, NoRequeueOnPurpose, RestsOnPurpose, OnPurpose

\* A step outside a pass that leaves the worker alone.
LEMMA OutsideLoop ==
    ASSUME LoopInv, Watch \/ UNCHANGED <<obj, stale>>, UNCHANGED <<cache, queued, timer, job>>
    PROVE  LoopInv'
<1>1. ~stale' => ~stale /\ obj' = obj
  BY DEF Watch
<1>2. QED
  BY <1>1 DEF LoopInv, CacheFresh, PassFresh, NoRequeueOnPurpose, RestsOnPurpose, OnPurpose

\* A target that cannot be read is the reason the status gives.
LEMMA NotReadyReason ==
    ASSUME NEW status \in Status, NEW reason
    PROVE  WithNotReady(status, reason).conditions["Ready"].reason = reason
<1>1. status.conditions \in Conditions(Times)
  BY DEF Status
<1>2. Initialized(status.conditions) \in Conditions(Times)
  BY <1>1 DEF Initialized, Conditions, NoConditions, ConditionTypes, Statuses, Reasons
<1>3. SetCondition(status.conditions, "Ready", "False", reason, now)["Ready"].reason = reason
  BY <1>2 DEF SetCondition, Conditions, ConditionTypes
<1>4. QED
  BY <1>3 DEF WithNotReady, Status

LEMMA LoopStep ==
    ASSUME TypeInv, LoopInv, [Next]_vars
    PROVE  LoopInv'
<1>0. /\ DefaultRequeueDelay # NotRequeue
      /\ RequeueDelayOnErrorState # NotRequeue
      /\ RequeueDelayOnPanicState # NotRequeue
  BY DEF NotRequeue, DefaultRequeueDelay, RequeueDelayOnNormalState,
         RequeueDelayOnErrorState, RequeueDelayOnPanicState
<1>1. TypeOK /\ cache.status \in Status
  BY DEF TypeInv, TypeOK, Object
<1>2. CASE BeginDeleting
  BY <1>0, <1>2, BeginLoop DEF BeginDeleting
<1>3. CASE BeginWithoutTarget
  <2>1. OnPurpose(cache.spec, WithNotReady(cache.status, "FailedToGetScaleTarget"))
    BY <1>1, NotReadyReason DEF OnPurpose
  <2>2. QED
    BY <1>3, <2>1, BeginLoop DEF BeginWithoutTarget
<1>4. CASE BeginExhaustError
  BY <1>0, <1>4, BeginLoop DEF BeginExhaustError
<1>5. CASE BeginStatic
  BY <1>5, BeginLoop DEF BeginStatic
<1>6. CASE BeginSelectorError
  BY <1>0, <1>6, BeginLoop DEF BeginSelectorError
<1>7. CASE BeginColdDown
  BY <1>0, <1>7, BeginLoop DEF BeginColdDown
<1>8. CASE BeginAutoscaling
  BY <1>8, BeginLoop DEF BeginAutoscaling
<1>9. CASE EvaluateFails
  BY <1>0, <1>1, <1>9, ReturnLoop DEF EvaluateFails
<1>10. CASE EvaluateWithoutScaler
  BY <1>0, <1>1, <1>10, ReturnLoop DEF EvaluateWithoutScaler
<1>11. CASE EvaluateWithoutReplicator
  BY <1>1, <1>11, ReturnLoop DEF EvaluateWithoutReplicator, OnPurpose
<1>12. CASE Evaluate
  <2>1. job \in Job /\ job.pc = "evaluate" /\ UNCHANGED <<obj, cache, stale, queued>>
    BY <1>1, <1>12, JobType DEF Evaluate
  <2>2. job'.pc = "scale" /\ job'.observed = job.observed
    <3>1. \E n, conditions : job' = [job EXCEPT !.pc = "scale", !.desired = n,
                                       !.status.conditions = conditions]
      BY <1>12 DEF Evaluate
    <3>2. QED
      BY <2>1, <3>1 DEF Job
  <2>3. QED
    BY <2>1, <2>2 DEF LoopInv, CacheFresh, PassFresh, NoRequeueOnPurpose, RestsOnPurpose
<1>13. ASSUME NEW status, Scaled(status), job.pc = "scale",
              UNCHANGED <<obj, cache, stale, queued>>
       PROVE  LoopInv'
  BY <1>0, <1>1, <1>13, ReturnLoop DEF Scaled, DelayAfterScaling, OnPurpose
<1>14. CASE ScaleNeedless \/ ScaleDryRun \/ Scale
  BY <1>13, <1>14 DEF ScaleNeedless, ScaleDryRun, Scale, MustScale
<1>15. CASE ScaleFails \/ ScaleReplyLost
  BY <1>0, <1>1, <1>15, ReturnLoop DEF ScaleFails, ScaleReplyLost, MustScale, FailedToScale
<1>16. CASE PatchNothing
  <2>1. /\ job.pc = "patch" /\ job' = NoJob /\ StatusEqual /\ RequeueAfter(job.delay)
        /\ UNCHANGED <<obj, cache, stale, queued>>
    BY <1>16 DEF PatchNothing
  <2>2. job.delay \in Nat
    BY <1>1, <2>1, JobType
  <2>3. RestsOnPurpose'
    <3>1. SUFFICES ASSUME ~queued, ~stale, timer' = Nil
                   PROVE  OnPurpose(obj.spec, obj.status)
      BY <2>1 DEF RestsOnPurpose, OnPurpose
    <3>2. job.delay = NotRequeue
      BY <1>1, <2>1, <2>2, <3>1, RequeueSetsTimer
    <3>3. obj = job.observed
      BY <2>1, <3>1 DEF LoopInv, CacheFresh, PassFresh
    <3>4. QED
      BY <2>1, <3>2, <3>3 DEF LoopInv, NoRequeueOnPurpose, StatusEqual, OnPurpose
  <2>4. QED
    BY <2>1, <2>3 DEF LoopInv, CacheFresh, PassFresh, NoRequeueOnPurpose, NoJob
<1>17. CASE Patch
  <2>1. /\ job.pc = "patch" /\ job' = NoJob /\ obj' = PatchedObject /\ Watch
        /\ ~(AnnotationsEqual /\ StatusEqual)
        /\ UNCHANGED <<cache, queued>>
    BY <1>17 DEF Patch
  <2>2. queued \/ stale'
    <3>1. SUFFICES ASSUME ~queued, ~stale, obj' = obj PROVE FALSE
      BY <2>1 DEF Watch
    <3>2. obj = job.observed
      BY <2>1, <3>1 DEF LoopInv, CacheFresh, PassFresh
    <3>3. QED
      BY <1>1, <2>1, <3>1, <3>2, PatchChangesObject
  <2>3. CacheFresh'
    BY <2>1 DEF LoopInv, CacheFresh, Watch
  <2>4. QED
    BY <2>1, <2>2, <2>3
       DEF LoopInv, PassFresh, NoRequeueOnPurpose, RestsOnPurpose, NoJob
<1>18. CASE PatchFails
  BY <1>18 DEF PatchFails, Watch, LoopInv, CacheFresh, PassFresh, NoRequeueOnPurpose,
               RestsOnPurpose, NoJob
<1>19. CASE CacheSync
  BY <1>19 DEF CacheSync, LoopInv, CacheFresh, PassFresh, NoRequeueOnPurpose,
               RestsOnPurpose, OnPurpose
<1>20. CASE TimerFires
  BY <1>20 DEF TimerFires, LoopInv, CacheFresh, PassFresh, NoRequeueOnPurpose,
               RestsOnPurpose, OnPurpose
<1>21. CASE Crash
  BY <1>21 DEF Crash, LoopInv, CacheFresh, PassFresh, NoRequeueOnPurpose,
               RestsOnPurpose, NoJob
<1>22. CASE BeginNotFound \/ TargetSync \/ Tick \/ ChangeLoad \/ ResizeTarget
            \/ ReplaceTarget \/ UNCHANGED vars
  BY <1>22, OutsideLoop DEF BeginNotFound, TargetSync, Tick, ChangeLoad, ResizeTarget,
                            ReplaceTarget, vars
<1>23. CASE EditSpec \/ Annotate \/ SetDryRun \/ Delete \/ Recreate
  BY <1>23, OutsideLoop DEF EditSpec, Annotate, SetDryRun, Delete, Recreate
<1>24. QED
  BY <1>2, <1>3, <1>4, <1>5, <1>6, <1>7, <1>8, <1>9, <1>10, <1>11, <1>12, <1>14, <1>15,
     <1>16, <1>17, <1>18, <1>19, <1>20, <1>21, <1>22, <1>23 DEF Next, Reconcile, Environment

\* The reconcile loop of a live autoscaler never dies by accident: whatever order
\* events, timers, failed and lost patches, edits and crashes come in, with nothing
\* queued, on its way or scheduled the autoscaler is static, names no known
\* replicator, or says that its target could not be read.
THEOREM LoopNeverLost == Spec => []LoopStopsOnlyOnPurpose
<1>1. Init => LoopInv
  BY DEF Init, LoopInv, CacheFresh, PassFresh, NoRequeueOnPurpose, RestsOnPurpose, NoJob
<1>2. TypeInv /\ LoopInv /\ [Next]_vars => LoopInv'
  BY LoopStep
<1>3. LoopInv => LoopStopsOnlyOnPurpose
  BY DEF LoopInv, RestsOnPurpose, OnPurpose, LoopStopsOnlyOnPurpose, Stalled, Quiet
<1>4. QED
  BY <1>1, <1>2, <1>3, TypeInvariant, PTL DEF Spec
=============================================================================
