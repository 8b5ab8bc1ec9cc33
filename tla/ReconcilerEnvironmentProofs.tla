---------------------- MODULE ReconcilerEnvironmentProofs ----------------------
(***************************************************************************)
(* Theorems about the reconcile loop that hold as long as its environment  *)
(* keeps to something: users to their annotations, the API server to its   *)
(* answers, or other controllers to targets of their own.  Each one names  *)
(* what it asks for.                                                       *)
(***************************************************************************)
EXTENDS ReconcilerProofs

-----------------------------------------------------------------------------
(* The shapes of steps                                                     *)

BeginStep ==
    \/ BeginDeleting \/ BeginWithoutTarget \/ BeginExhaustError \/ BeginStatic
    \/ BeginSelectorError \/ BeginColdDown \/ BeginAutoscaling

EvaluateStep == EvaluateFails \/ EvaluateWithoutScaler \/ EvaluateWithoutReplicator \/ Evaluate

ScaleStep == ScaleNeedless \/ ScaleDryRun \/ Scale \/ ScaleFails \/ ScaleReplyLost

PatchStep == PatchNothing \/ Patch \/ PatchFails

\* Steps that neither belong to a pass nor touch the object or its copy.
OtherStep ==
    \/ BeginNotFound \/ TimerFires \/ TargetSync \/ ChangeLoad \/ ResizeTarget
    \/ ReplaceTarget \/ UNCHANGED vars

EditStep == EditSpec \/ Annotate \/ SetDryRun \/ Delete \/ Recreate

LEMMA StepCases ==
    ASSUME [Next]_vars
    PROVE  \/ BeginStep \/ EvaluateStep \/ ScaleStep \/ PatchStep \/ OtherStep \/ EditStep
           \/ CacheSync \/ Tick \/ Crash
BY DEF Next, Reconcile, Environment, BeginStep, EvaluateStep, ScaleStep, PatchStep,
       OtherStep, EditStep

\* A pass begins with the informer's copy.
LEMMA BeginShape ==
    ASSUME BeginStep
    PROVE  /\ job.pc = "idle" /\ job'.pc \in {"evaluate", "scale", "patch"}
           /\ InformerLag \/ ~stale
           /\ job'.observed = cache
           /\ job'.patches = PurgeUnusedReplicaPatches(cache.patches, now)
           /\ ghost' = [ghost EXCEPT !.failed = FALSE]
           /\ UNCHANGED <<now, obj, cache, stale, timer, target, moved, load, history>>
<1>1. ASSUME NEW pc \in {"evaluate", "scale", "patch"}, NEW status, NEW scale, NEW desired,
             NEW underPanic, NEW delay,
             Begin(Pass(pc, status, scale, desired, underPanic, delay))
      PROVE  /\ job'.pc \in {"evaluate", "scale", "patch"}
             /\ job'.observed = cache
             /\ job'.patches = PurgeUnusedReplicaPatches(cache.patches, now)
             /\ ghost' = [ghost EXCEPT !.failed = FALSE]
             /\ UNCHANGED <<now, obj, cache, stale, timer, target, moved, load, history>>
  BY <1>1 DEF Begin, Pass
<1>2. job.pc = "idle" /\ (InformerLag \/ ~stale)
  BY DEF BeginStep, BeginDeleting, BeginWithoutTarget, BeginExhaustError, BeginStatic,
         BeginSelectorError, BeginColdDown, BeginAutoscaling, Fetched
<1>3. QED
  BY <1>1, <1>2 DEF BeginStep, BeginDeleting, BeginWithoutTarget, BeginExhaustError,
         BeginStatic, BeginSelectorError, BeginColdDown, BeginAutoscaling

\* The rest of a pass keeps to the copy it began with.
LEMMA PassShape ==
    ASSUME TypeOK, EvaluateStep \/ ScaleStep
    PROVE  /\ job.pc \in {"evaluate", "scale"} /\ job'.pc \in {"scale", "patch"}
           /\ job'.observed = job.observed /\ job'.patches = job.patches
           /\ UNCHANGED <<now, obj, cache, stale>>
<1>1. job.pc \in {"evaluate", "scale"} /\ UNCHANGED <<now, obj, cache, stale>>
  BY DEF EvaluateStep, EvaluateFails, EvaluateWithoutScaler, EvaluateWithoutReplicator, Evaluate,
         ScaleStep, ScaleNeedless, ScaleDryRun, Scale, ScaleFails, ScaleReplyLost, MustScale
<1>2. job \in Job
  BY <1>1, JobType
<1>3. ASSUME NEW status, NEW delay, Return(status, delay)
      PROVE  job'.pc = "patch" /\ job'.observed = job.observed /\ job'.patches = job.patches
  BY <1>2, <1>3 DEF Return, Job
<1>4. CASE Evaluate
  <2>1. \E n, conditions : job' = [job EXCEPT !.pc = "scale", !.desired = n,
                                     !.status.conditions = conditions]
    BY <1>4 DEF Evaluate
  <2>2. QED
    BY <1>1, <1>2, <2>1 DEF Job
<1>5. CASE ~Evaluate
  BY <1>1, <1>3, <1>5 DEF EvaluateStep, EvaluateFails, EvaluateWithoutScaler,
         EvaluateWithoutReplicator, ScaleStep, ScaleNeedless, ScaleDryRun, Scale, ScaleFails,
         ScaleReplyLost, Scaled, FailedToScale
<1>6. QED
  BY <1>4, <1>5

\* A pass ends and may have written its patch.
LEMMA PatchShape ==
    ASSUME PatchStep
    PROVE  /\ job.pc = "patch" /\ job' = NoJob
           /\ obj' = obj \/ obj' = PatchedObject
           /\ UNCHANGED <<now, cache, target, moved, load, history, ghost>>
BY DEF PatchStep, PatchNothing, Patch, PatchFails

LEMMA OtherShape ==
    ASSUME OtherStep
    PROVE  UNCHANGED <<now, obj, cache, stale, job, history>>
BY DEF OtherStep, BeginNotFound, TimerFires, TargetSync, ChangeLoad, ResizeTarget, ReplaceTarget,
       Disturb, Disturbance, vars

LEMMA EditShape ==
    ASSUME EditStep
    PROVE  UNCHANGED <<now, cache, queued, timer, job, target, moved, load, history>>
BY DEF EditStep, EditSpec, Annotate, SetDryRun, Delete, Recreate, Disturb, Disturbance

-----------------------------------------------------------------------------
(* Replica patches are held                                                *)

\* Users leave the annotation alone, or there is only one they ever give.
Unedited ==
    \/ Disturbances \cap {"annotation", "recreate"} = {}
    \/ \A a, b \in Annotations : a = b

\* The same patches are still to be held.
Alike(a, b) == PurgeUnusedReplicaPatches(a, now) = PurgeUnusedReplicaPatches(b, now)

\* All copies of the annotation differ in nothing but patches that have expired: the
\* informer's, the one a pass is about to write, and any a user may give again.
AnnotationsAlike ==
    /\ Alike(cache.patches, obj.patches)
    /\ job.pc # "idle" => Alike(job.patches, obj.patches)
    /\ (\A a, b \in Annotations : a = b) => \A a \in Annotations : Alike(a, obj.patches)

\* A purge forgets nothing that a later purge would keep.
LEMMA PurgeTwice ==
    ASSUME NEW a \in Patches \cup {Garbled}, NEW s \in Times, NEW t \in Times, s <= t
    PROVE  PurgeUnusedReplicaPatches(PurgeUnusedReplicaPatches(a, s), t)
             = PurgeUnusedReplicaPatches(a, t)
<1>1. CASE a = Garbled
  BY <1>1 DEF PurgeUnusedReplicaPatches
<1>2. CASE a # Garbled
  <2>1. a \subseteq DOMAIN PatchTable /\ 0 \notin DOMAIN PatchTable
    BY <1>2, PatchAssumption DEF Patches
  <2>2. ASSUME NEW i \in a, Expired(PatchTable[i], s) PROVE Expired(PatchTable[i], t)
    <3>1. PatchTable[i] \in ReplicaPatch
      BY <2>1, PatchAssumption
    <3>2. PatchTable[i].end + PatchTable[i].retention \in Int
      BY <3>1 DEF ReplicaPatch
    <3>3. QED
      BY <2>2, <3>2, BoundsAssumption DEF Expired, ExpiredTime, Times
  <2>3. PurgeUnusedReplicaPatches(a, s) # Garbled
    BY <1>2, <2>1 DEF PurgeUnusedReplicaPatches, Garbled
  <2>4. QED
    BY <1>2, <2>2, <2>3 DEF PurgeUnusedReplicaPatches
<1>3. QED
  BY <1>1, <1>2

LEMMA AlikeStep ==
    ASSUME Unedited, TypeInv, AnnotationsAlike, [Next]_vars
    PROVE  AnnotationsAlike'
<1>1. /\ TypeOK /\ now \in Times /\ obj \in Object
      /\ obj.patches \in Patches \cup {Garbled} /\ cache.patches \in Patches \cup {Garbled}
      /\ job.pc # "idle" => job.patches \in Patches \cup {Garbled}
  BY JobType DEF TypeInv, TypeOK, Object
<1>2. now <= now
  BY <1>1 DEF Times
<1>3. CASE BeginStep
  <2>1. Alike(job'.patches, cache.patches)
    BY <1>1, <1>2, <1>3, BeginShape, PurgeTwice DEF Alike
  <2>2. QED
    BY <1>3, <2>1, BeginShape DEF AnnotationsAlike, Alike
<1>4. CASE EvaluateStep \/ ScaleStep
  BY <1>1, <1>4, PassShape DEF AnnotationsAlike, Alike
<1>5. CASE PatchStep
  <2>1. obj'.patches = obj.patches \/ obj'.patches = job.patches
    BY <1>1, <1>5, PatchShape DEF PatchedObject, Object
  <2>2. QED
    BY <1>5, <2>1, PatchShape DEF AnnotationsAlike, Alike, NoJob
<1>6. CASE OtherStep
  BY <1>6, OtherShape DEF AnnotationsAlike, Alike
<1>7. CASE EditStep
  <2>1. \/ obj'.patches = obj.patches
        \/ obj'.patches \in Annotations /\ \A a, b \in Annotations : a = b
    <3>1. CASE EditSpec \/ SetDryRun \/ Delete
      BY <1>1, <3>1 DEF EditSpec, SetDryRun, Delete, Object
    <3>2. CASE Annotate
      BY <1>1, <3>2 DEF Annotate, Disturb, Disturbance, Unedited, Object
    <3>3. CASE Recreate
      BY <3>3 DEF Recreate, Disturbance, Unedited, FreshObject
    <3>4. QED
      BY <1>7, <3>1, <3>2, <3>3 DEF EditStep
  <2>2. Alike(obj'.patches, obj.patches)
    BY <2>1 DEF AnnotationsAlike, Alike
  <2>3. QED
    BY <1>7, <2>2, EditShape DEF AnnotationsAlike, Alike
<1>8. CASE CacheSync
  BY <1>8 DEF CacheSync, AnnotationsAlike, Alike
<1>9. CASE Tick
  <2>1. now' = now + 1 /\ now' \in Times /\ now <= now' /\ UNCHANGED <<obj, cache, job>>
    BY <1>1, <1>9, BoundsAssumption DEF Tick, Times
  <2>2. ASSUME NEW a \in Patches \cup {Garbled}, NEW b \in Patches \cup {Garbled}, Alike(a, b)
        PROVE  Alike(a, b)'
    BY <1>1, <2>1, <2>2, PurgeTwice DEF Alike
  <2>3. QED
    BY <1>1, <2>1, <2>2, AnnotationsAssumption DEF AnnotationsAlike
<1>10. CASE Crash
  BY <1>10 DEF Crash, Disturb, Disturbance, AnnotationsAlike, Alike, NoJob
<1>11. QED
  BY <1>3, <1>4, <1>5, <1>6, <1>7, <1>8, <1>9, <1>10, StepCases

\* As long as nobody edits the annotation under the controller, none of its writes takes a
\* replica patch away before it has expired, however old the copy of a pass is, whichever
\* writes are lost or repeated, and whatever else is edited.
THEOREM PatchesHeld == Unedited => (Spec => PatchHeldUntilExpiry)
<1> SUFFICES ASSUME Unedited PROVE Spec => PatchHeldUntilExpiry
  OBVIOUS
<1>1. Init => AnnotationsAlike
  BY DEF Init, FreshObject, AnnotationsAlike, Alike, NoJob
<1>2. TypeInv /\ AnnotationsAlike /\ [Next]_vars => AnnotationsAlike'
  BY AlikeStep
<1>3. TypeInv /\ AnnotationsAlike /\ [Next]_vars =>
        [(job.pc = "patch" /\ job'.pc = "idle" /\ obj.patches # Garbled) =>
          \A i \in obj.patches :
              ~Expired(PatchTable[i], now) => obj'.patches # Garbled /\ i \in obj'.patches]_vars
  <2> SUFFICES ASSUME TypeInv, AnnotationsAlike, [Next]_vars, job.pc = "patch", job'.pc = "idle",
                      obj.patches # Garbled, NEW i \in obj.patches, ~Expired(PatchTable[i], now)
               PROVE  obj'.patches # Garbled /\ i \in obj'.patches
    OBVIOUS
  <2>1. /\ TypeOK /\ obj \in Object /\ obj.patches \subseteq DOMAIN PatchTable
        /\ 0 \notin DOMAIN PatchTable
    BY PatchAssumption DEF TypeInv, TypeOK, Object, Patches
  <2>2. obj'.patches = obj.patches \/ obj'.patches = job.patches
    <3>1. CASE PatchStep
      BY <2>1, <3>1, PatchShape DEF PatchedObject, Object
    <3>2. CASE BeginStep \/ EvaluateStep \/ ScaleStep
      BY <2>1, <3>2, BeginShape, PassShape
    <3>3. CASE OtherStep \/ EditStep
      BY <3>3, OtherShape, EditShape
    <3>4. CASE CacheSync \/ Tick \/ Crash
      BY <3>4 DEF CacheSync, Tick, Crash
    <3>5. QED
      BY <3>1, <3>2, <3>3, <3>4, StepCases
  <2>3. i \in PurgeUnusedReplicaPatches(obj.patches, now)
    BY DEF PurgeUnusedReplicaPatches
  <2>4. i \in PurgeUnusedReplicaPatches(job.patches, now)
    BY <2>3 DEF AnnotationsAlike, Alike
  <2>5. i # 0
    BY <2>1
  <2>6. job.patches # Garbled /\ i \in job.patches
    BY <2>4, <2>5 DEF PurgeUnusedReplicaPatches, Garbled
  <2>7. QED
    BY <2>2, <2>6
<1>4. QED
  BY <1>1, <1>2, <1>3, TypeInvariant, PTL DEF Spec, PatchHeldUntilExpiry

-----------------------------------------------------------------------------
(* Scalings are recorded, and the cold-down between them is kept           *)

\* Nothing comes between an update of the target and the record of it: passes are not cut
\* off, answers of updates and patches arrive, nobody drills, and no annotation has to be
\* purged in the patch that should carry the status.
NothingLost ==
    /\ Disturbances \cap {"crash", "delete"} = {}
    /\ Faults \cap {"updateReply", "patch"} = {}
    /\ DryRuns \subseteq {"false"}
    /\ \A a \in Annotations, t \in Times : PurgeUnusedReplicaPatches(a, t) = a

\* What NothingLost means for an object and its copies.
Steady(o) == o.dryRun = "false" /\ o.patches \in Annotations

SteadyInv ==
    /\ obj.phase = "live" /\ Steady(obj) /\ Steady(cache)
    /\ job.pc # "idle" => Steady(job.observed) /\ job.patches = job.observed.patches

\* lastScaleTime never goes back.
NotAfter(a, b) == a.status.lastScaleTime # Nil =>
    b.status.lastScaleTime # Nil /\ a.status.lastScaleTime <= b.status.lastScaleTime

\* The lastScaleTime the server will show when the pass has ended.
Written ==
    IF job.pc = "patch"
    THEN MergeField(obj.status.lastScaleTime, job.observed.status.lastScaleTime,
                    job.status.lastScaleTime)
    ELSE obj.status.lastScaleTime

\* t is the last moment at which the target was scaled, or Nil.
IsLastScaling(t) ==
    /\ t # Nil => t \in ghost.scaledAt
    /\ \A u \in ghost.scaledAt : t # Nil /\ u <= t

\* Copies of the object may be old, but not ahead of it, so that what a pass has scaled is
\* written even when it began with an old copy.
RecordInv ==
    /\ \A t \in ghost.scaledAt : t <= now
    /\ obj.status.lastScaleTime # Nil => obj.status.lastScaleTime \in ghost.scaledAt
    /\ NotAfter(cache, obj)
    /\ job.pc # "idle" => NotAfter(job.observed, obj)
    /\ job.pc \in {"evaluate", "scale"} =>
          job.status.lastScaleTime = job.observed.status.lastScaleTime
    /\ IsLastScaling(Written)

\* A pass that has come past the cold-down stays past it.
ColdDownInv ==
    (job.pc \in {"evaluate", "scale"} /\ ~job.underPanic /\ job.observed.spec.min # Nil) =>
        \A t \in ghost.scaledAt : now - t >= DefaultScalingColdDown

LEMMA SteadyStep ==
    ASSUME NothingLost, TypeInv, SteadyInv, [Next]_vars
    PROVE  SteadyInv'
<1>1. TypeOK /\ obj \in Object /\ now \in Times
  BY DEF TypeInv, TypeOK
<1>2. CASE BeginStep
  <2>1. PurgeUnusedReplicaPatches(cache.patches, now) = cache.patches
    BY <1>1 DEF NothingLost, SteadyInv, Steady
  <2>2. QED
    BY <1>2, <2>1, BeginShape DEF SteadyInv
<1>3. CASE EvaluateStep \/ ScaleStep
  BY <1>1, <1>3, PassShape DEF SteadyInv
<1>4. CASE PatchStep
  <2>1. obj'.phase = obj.phase /\ obj'.dryRun = obj.dryRun /\ obj'.patches = obj.patches
    <3>1. job.patches = job.observed.patches
      BY <1>4, PatchShape DEF SteadyInv
    <3>2. QED
      BY <1>1, <1>4, <3>1, PatchShape DEF PatchedObject, AnnotationsEqual, Object
  <2>2. QED
    BY <1>4, <2>1, PatchShape DEF SteadyInv, Steady, NoJob
<1>5. CASE OtherStep
  BY <1>5, OtherShape DEF SteadyInv
<1>6. CASE EditStep
  <2>1. obj'.phase = "live" /\ Steady(obj')
    <3>1. CASE EditSpec \/ Annotate \/ SetDryRun
      BY <1>1, <3>1 DEF EditSpec, Annotate, SetDryRun, NothingLost, SteadyInv, Steady, Object
    <3>2. CASE Delete
      BY <3>2 DEF Delete, Disturb, Disturbance, NothingLost
    <3>3. CASE Recreate
      BY <3>3 DEF Recreate, SteadyInv
    <3>4. QED
      BY <1>6, <3>1, <3>2, <3>3 DEF EditStep
  <2>2. QED
    BY <1>6, <2>1, EditShape DEF SteadyInv
<1>7. CASE CacheSync \/ Tick
  BY <1>7 DEF CacheSync, Tick, SteadyInv
<1>8. CASE Crash
  BY <1>8 DEF Crash, Disturb, Disturbance, NothingLost
<1>9. QED
  BY <1>2, <1>3, <1>4, <1>5, <1>6, <1>7, <1>8, StepCases

\* Only an update of the target is a scaling.
LEMMA ScaledAtKept ==
    ASSUME TypeInv, [Next]_vars, ~Scale, ~ScaleReplyLost
    PROVE  ghost'.scaledAt = ghost.scaledAt
<1>1. ghost \in Ghost
  BY DEF TypeInv, TypeOK
<1>2. \/ ghost' = ghost
      \/ ghost' = [ghost EXCEPT !.failed = FALSE]
      \/ ghost' = [ghost EXCEPT !.failed = TRUE]
      \/ \E x : ghost' = [ghost EXCEPT !.advised = x]
      \/ \E x : ghost' = [ghost EXCEPT !.disturbedAt = x]
      \/ ghost' = [ghost EXCEPT !.drilledAt = ghost.drilledAt \cup {now}]
  <2>1. CASE BeginStep \/ PatchStep
    BY <2>1, BeginShape, PatchShape
  <2>2. CASE EvaluateStep
    BY <2>2 DEF EvaluateStep, EvaluateFails, EvaluateWithoutScaler, EvaluateWithoutReplicator,
                Evaluate
  <2>3. CASE ScaleStep
    BY <2>3 DEF ScaleStep, ScaleNeedless, ScaleDryRun, ScaleFails
  <2>4. CASE OtherStep
    BY <2>4 DEF OtherStep, BeginNotFound, TimerFires, TargetSync, ChangeLoad, ResizeTarget,
                ReplaceTarget, Disturb, Disturbance, vars
  <2>5. CASE EditStep
    BY <2>5 DEF EditStep, EditSpec, Annotate, SetDryRun, Delete, Recreate, Disturb, Disturbance
  <2>6. CASE CacheSync \/ Tick \/ Crash
    BY <2>6 DEF CacheSync, Tick, Crash, Disturb, Disturbance
  <2>7. QED
    BY <2>1, <2>2, <2>3, <2>4, <2>5, <2>6, StepCases
<1>3. QED
  BY <1>1, <1>2 DEF Ghost

\* The stamps of an object, its copies and a pass.
LEMMA StampType ==
    ASSUME TypeOK
    PROVE  /\ obj.status.lastScaleTime \in Times \cup {Nil}
           /\ cache.status.lastScaleTime \in Times \cup {Nil}
           /\ job.pc # "idle" => /\ job.observed.status.lastScaleTime \in Times \cup {Nil}
                                 /\ job.status.lastScaleTime \in Times \cup {Nil}
           /\ now \in Times /\ ghost.scaledAt \subseteq Times
<1>1. ASSUME NEW o \in Object PROVE o.status.lastScaleTime \in Times \cup {Nil}
  BY DEF Object, Status
<1>2. job.pc # "idle" => job.observed \in Object /\ job.status \in Status
  BY JobType
<1>3. job.pc # "idle" => job.status.lastScaleTime \in Times \cup {Nil}
  BY <1>2 DEF Status
<1>4. QED
  BY <1>1, <1>2, <1>3 DEF TypeOK, Ghost

\* A step that leaves the stamps alone: those of the object and its copy, of the pass or
\* of no pass, and the scalings.
LEMMA RecordKept ==
    ASSUME TypeOK, RecordInv, ghost'.scaledAt = ghost.scaledAt, now <= now', now' \in Times,
           obj'.status.lastScaleTime = obj.status.lastScaleTime,
           NotAfter(cache', obj'),
           job.pc = "patch" => job' = job,
           job'.pc # "idle" =>
               /\ NotAfter(job'.observed, obj')
               /\ job' = job \/ job'.status.lastScaleTime = job'.observed.status.lastScaleTime
    PROVE  RecordInv'
<1>1. Written' = Written
  BY DEF Written, MergeField
<1>2. IsLastScaling(Written)'
  BY <1>1 DEF RecordInv, IsLastScaling
<1>3. \A t \in ghost'.scaledAt : t <= now'
  BY StampType DEF RecordInv, Times
<1>4. QED
  BY <1>2, <1>3 DEF RecordInv

\* A patch leaves on the server what the pass was about to write.
LEMMA PatchWrites ==
    ASSUME NothingLost, TypeOK, SteadyInv, PatchStep
    PROVE  obj'.status.lastScaleTime = Written
<1>1. /\ job.pc = "patch" /\ obj \in Object /\ AnnotationsEqual
      /\ obj' = PatchedObject \/ (obj' = obj /\ StatusEqual)
  <2>1. job.pc = "patch" /\ obj \in Object /\ obj.phase = "live"
    BY PatchShape DEF TypeOK, SteadyInv
  <2>2. AnnotationsEqual
    BY <2>1 DEF SteadyInv, AnnotationsEqual
  <2>3. ~Fault("patch")
    BY DEF Fault, NothingLost
  <2>4. QED
    BY <2>1, <2>2, <2>3 DEF PatchStep, PatchNothing, Patch, PatchFails
<1>2. CASE obj' = PatchedObject
  BY <1>1, <1>2 DEF PatchedObject, Object, MergeStatus, Written
<1>3. CASE obj' = obj /\ StatusEqual
  BY <1>1, <1>3 DEF StatusEqual, Written, MergeField
<1>4. QED
  BY <1>1, <1>2, <1>3

LEMMA RecordStep ==
    ASSUME NothingLost, TypeInv, SteadyInv, RecordInv, [Next]_vars
    PROVE  RecordInv'
<1>1. /\ TypeOK /\ obj \in Object /\ now \in Times /\ now <= now
      /\ NotAfter(obj, obj) /\ NotAfter(cache, cache)
  BY StampType, BoundsAssumption DEF TypeInv, TypeOK, Times, NotAfter
<1>2. CASE BeginStep
  <2>1. job'.status.lastScaleTime = cache.status.lastScaleTime
    BY <1>2, BeginStamp DEF BeginStep
  <2>2. ghost'.scaledAt = ghost.scaledAt
    BY <1>2, BeginShape DEF TypeInv, TypeOK, Ghost
  <2>3. job.pc # "patch"
    BY <1>2, BeginShape
  <2>4. QED
    BY <1>1, <1>2, <2>1, <2>2, <2>3, BeginShape, RecordKept DEF RecordInv
<1>3. CASE (EvaluateStep \/ ScaleStep) /\ ~Scale
  <2>1. ~ScaleReplyLost /\ ~ScaleDryRun
    BY DEF ScaleReplyLost, ScaleDryRun, MustScale, Fault, NothingLost, SteadyInv, Steady
  <2>2. ghost'.scaledAt = ghost.scaledAt
    BY <1>3, <2>1, ScaledAtKept
  <2>3. /\ job.pc \in {"evaluate", "scale"}
        /\ job.status.lastScaleTime = job.observed.status.lastScaleTime
    BY <1>1, <1>3, PassShape DEF RecordInv
  <2>4. job'.status.lastScaleTime = job.status.lastScaleTime
    <3>1. CASE EvaluateStep
      BY <1>1, <3>1, EvaluateStamp DEF EvaluateStep
    <3>2. CASE ScaleNeedless
      BY <1>1, <2>3, <3>2, ScaledStamp, DecidedStamp, DecidedType DEF ScaleNeedless
    <3>3. CASE ScaleFails
      BY <1>1, <2>3, <3>3, FailedToScaleStamp DEF ScaleFails
    <3>4. QED
      BY <1>3, <2>1, <3>1, <3>2, <3>3 DEF ScaleStep
  <2>5. QED
    BY <1>1, <1>3, <2>2, <2>3, <2>4, PassShape, RecordKept DEF RecordInv
<1>4. CASE Scale
  <2>1. /\ job.pc = "scale" /\ job'.observed = job.observed /\ job'.pc \in {"scale", "patch"}
        /\ UNCHANGED <<now, obj, cache>>
    BY <1>1, <1>4, PassShape DEF ScaleStep, Scale, MustScale
  <2>2. job'.status.lastScaleTime = now
    <3>1. Stamped \in Status
      BY <1>1, <2>1, DecidedType
    <3>2. QED
      BY <1>1, <1>4, <2>1, <3>1, ScaledStamp, DecidedStamp DEF Scale
  <2>3. job'.pc = "patch"
    <3>1. job \in Job
      BY <1>1, <2>1, JobType
    <3>2. QED
      BY <1>4, <3>1 DEF Scale, Scaled, Return, Job
  <2>4. ghost'.scaledAt = ghost.scaledAt \cup {now}
    BY <1>1, <1>4 DEF Scale, TypeOK, Ghost
  <2>5. Written' = now
    <3>1. CASE now = job.observed.status.lastScaleTime
      <4>1. obj.status.lastScaleTime # Nil /\ now <= obj.status.lastScaleTime
        BY <1>1, <2>1, <3>1, NilAssumption DEF RecordInv, NotAfter, Times
      <4>2. obj.status.lastScaleTime <= now /\ obj.status.lastScaleTime \in Times
        BY <1>1, <4>1, StampType DEF RecordInv
      <4>3. obj.status.lastScaleTime = now
        BY <1>1, <4>1, <4>2 DEF Times
      <4>4. QED
        BY <2>1, <2>2, <2>3, <4>3 DEF Written, MergeField
    <3>2. CASE now # job.observed.status.lastScaleTime
      BY <2>1, <2>2, <2>3, <3>2 DEF Written, MergeField
    <3>3. QED
      BY <3>1, <3>2
  <2>6. \A t \in ghost'.scaledAt : t <= now
    BY <1>1, <2>4 DEF RecordInv
  <2>7. IsLastScaling(Written)'
    BY <1>1, <2>4, <2>5, <2>6, NilAssumption DEF IsLastScaling, Times
  <2>8. QED
    BY <2>1, <2>3, <2>4, <2>6, <2>7 DEF RecordInv, NotAfter
<1>5. CASE PatchStep
  <2>1. /\ job.pc = "patch" /\ job'.pc = "idle" /\ UNCHANGED <<now, cache, ghost>>
        /\ obj'.status.lastScaleTime = Written
    BY <1>1, <1>5, PatchShape, PatchWrites DEF NoJob
  <2>2. Written' = Written
    BY <2>1 DEF Written
  <2>3. NotAfter(obj, obj')
    BY <2>1 DEF RecordInv, IsLastScaling, NotAfter
  <2>4. obj'.status.lastScaleTime \in Times \cup {Nil}
    BY <1>1, <2>1, StampType DEF Written, MergeField
  <2>5. NotAfter(cache, obj')
    BY <1>1, <2>3, <2>4, StampType, BoundsAssumption, NilAssumption DEF RecordInv, NotAfter, Times
  <2>6. IsLastScaling(Written)'
    BY <2>1, <2>2 DEF RecordInv, IsLastScaling
  <2>7. QED
    BY <2>1, <2>5, <2>6 DEF RecordInv, IsLastScaling, NotAfter
<1>6. CASE OtherStep
  <2>1. ghost'.scaledAt = ghost.scaledAt
    BY <1>1, <1>6 DEF OtherStep, TypeOK, Ghost, BeginNotFound, TimerFires,
           TargetSync, ChangeLoad, ResizeTarget, ReplaceTarget, Disturb, Disturbance, vars
  <2>2. QED
    BY <1>1, <1>6, <2>1, OtherShape, RecordKept DEF RecordInv, NotAfter
<1>7. CASE EditStep
  <2>1. obj'.status = obj.status
    BY <1>1, <1>7 DEF EditStep, EditSpec, Annotate, SetDryRun, Delete, Recreate, SteadyInv, Object
  <2>2. ghost'.scaledAt = ghost.scaledAt
    BY <1>1, <1>7 DEF EditStep, EditSpec, Annotate, SetDryRun, Delete, Recreate, Disturb,
                      Disturbance, TypeOK, Ghost
  <2>3. QED
    BY <1>1, <1>7, <2>1, <2>2, EditShape, RecordKept DEF RecordInv, NotAfter
<1>8. CASE CacheSync
  <2>1. UNCHANGED <<now, obj, job, ghost>> /\ cache' = obj
    BY <1>8 DEF CacheSync
  <2>2. QED
    BY <1>1, <2>1, RecordKept DEF RecordInv, NotAfter
<1>9. CASE Tick
  <2>1. /\ UNCHANGED <<obj, cache, job>> /\ now <= now' /\ now' \in Times
        /\ ghost'.scaledAt = ghost.scaledAt
    BY <1>1, <1>9, BoundsAssumption DEF Tick, Times, TypeOK, Ghost
  <2>2. QED
    BY <1>1, <2>1, RecordKept DEF RecordInv, NotAfter
<1>10. CASE Crash
  BY <1>10 DEF Crash, Disturb, Disturbance, NothingLost
<1>11. QED
  BY <1>2, <1>3, <1>4, <1>5, <1>6, <1>7, <1>8, <1>9, <1>10, StepCases DEF ScaleStep

LEMMA RecordInit ==
    ASSUME NothingLost, Init
    PROVE  SteadyInv /\ RecordInv
<1>1. /\ obj.phase = "live" /\ obj.dryRun \in DryRuns /\ obj.patches \in Annotations
      /\ obj.status.lastScaleTime = Nil /\ cache = obj /\ job.pc = "idle"
      /\ ghost.scaledAt = {}
  BY DEF Init, FreshObject, NoStatus, NoJob
<1>2. SteadyInv
  BY <1>1 DEF NothingLost, SteadyInv, Steady
<1>3. IsLastScaling(Written)
  BY <1>1 DEF Written, IsLastScaling
<1>4. QED
  BY <1>1, <1>2, <1>3 DEF RecordInv, NotAfter

\* When nothing is lost, the status on the server tells between passes when the target was
\* last scaled, even when passes begin with old copies and write their status over newer
\* ones.
THEOREM ScalingsRecorded == NothingLost => (Spec => []ScaleTimeRecorded)
<1> SUFFICES ASSUME NothingLost PROVE Spec => []ScaleTimeRecorded
  OBVIOUS
<1>1. Init => SteadyInv /\ RecordInv
  BY RecordInit
<1>2. TypeInv /\ SteadyInv /\ RecordInv /\ [Next]_vars => (SteadyInv /\ RecordInv)'
  BY SteadyStep, RecordStep
<1>3. TypeInv /\ RecordInv => ScaleTimeRecorded
  <2> SUFFICES ASSUME TypeInv, RecordInv, job.pc = "idle", NEW t \in ghost.scaledAt, LastScaled(t)
               PROVE  obj.status.lastScaleTime = t
    BY DEF ScaleTimeRecorded
  <2>1. Written = obj.status.lastScaleTime
    BY DEF Written
  <2>2. obj.status.lastScaleTime \in ghost.scaledAt /\ t <= obj.status.lastScaleTime
    BY <2>1 DEF RecordInv, IsLastScaling
  <2>3. t \in Int /\ obj.status.lastScaleTime \in Int
    BY <2>2, StampType DEF TypeInv, Times
  <2>4. QED
    BY <2>2, <2>3 DEF LastScaled
<1>4. QED
  BY <1>1, <1>2, <1>3, TypeInvariant, PTL DEF Spec

\* Where passes do not begin with old copies, one that goes past the cold-down knows the
\* last scaling.
LEMMA ColdDownStep ==
    ASSUME NothingLost, ~InformerLag, TypeInv, LoopInv, RecordInv, ColdDownInv, [Next]_vars
    PROVE  ColdDownInv'
<1>1. TypeOK /\ now \in Times /\ ghost.scaledAt \subseteq Times
  BY StampType DEF TypeInv
<1>2. CASE BeginAutoscaling
  <2>1. /\ job.pc = "idle" /\ cache = obj /\ ~InColdDown
        /\ UNCHANGED now /\ ghost'.scaledAt = ghost.scaledAt
        /\ job'.underPanic = UnderPanicModeCurrently
    BY <1>1, <1>2 DEF BeginAutoscaling, Fetched, Begin, Pass, LoopInv, CacheFresh, TypeOK, Ghost
  <2>2. SUFFICES ASSUME ~UnderPanicModeCurrently, NEW t \in ghost.scaledAt
                 PROVE  now - t >= DefaultScalingColdDown
    BY <2>1 DEF ColdDownInv
  <2>3. /\ obj.status.lastScaleTime # Nil /\ t <= obj.status.lastScaleTime
        /\ obj.status.lastScaleTime \in Times
    BY <1>1, <2>1, <2>2, StampType DEF RecordInv, IsLastScaling, Written
  <2>4. now - obj.status.lastScaleTime >= DefaultScalingColdDown
    BY <1>1, <2>1, <2>2, <2>3 DEF InColdDown, Times, DefaultScalingColdDown
  <2>5. QED
    BY <1>1, <2>2, <2>3, <2>4 DEF Times, DefaultScalingColdDown
<1>3. CASE BeginStep /\ ~BeginAutoscaling
  <2>1. ASSUME NEW pc, NEW status, NEW scale, NEW desired, NEW underPanic, NEW delay,
               Begin(Pass(pc, status, scale, desired, underPanic, delay))
        PROVE  job'.pc = pc /\ job'.observed = cache
    BY <2>1 DEF Begin, Pass
  <2>2. job'.pc = "patch" \/ job'.observed.spec.min = Nil
    BY <1>3, <2>1 DEF BeginStep, BeginDeleting, BeginWithoutTarget, BeginExhaustError,
                      BeginStatic, BeginSelectorError, BeginColdDown
  <2>3. QED
    BY <2>2 DEF ColdDownInv
<1>4. CASE EvaluateStep
  <2>1. /\ job.pc = "evaluate" /\ job'.observed = job.observed /\ UNCHANGED now
        /\ ghost'.scaledAt = ghost.scaledAt
    BY <1>1, <1>4, PassShape DEF EvaluateStep, EvaluateFails, EvaluateWithoutScaler,
           EvaluateWithoutReplicator, Evaluate, TypeOK, Ghost
  <2>2. job \in Job
    BY <1>1, <2>1, JobType
  <2>3. job'.pc = "patch" \/ job'.underPanic = job.underPanic
    <3>1. CASE Evaluate
      <4>1. \E n, conditions : job' = [job EXCEPT !.pc = "scale", !.desired = n,
                                         !.status.conditions = conditions]
        BY <3>1 DEF Evaluate
      <4>2. QED
        BY <2>2, <4>1 DEF Job
    <3>2. CASE ~Evaluate
      BY <1>4, <2>2, <3>2 DEF EvaluateStep, EvaluateFails, EvaluateWithoutScaler,
                              EvaluateWithoutReplicator, Return, Job
    <3>3. QED
      BY <3>1, <3>2
  <2>4. QED
    BY <2>1, <2>3 DEF ColdDownInv
<1>5. CASE ScaleStep
  <2>1. job \in Job
    BY <1>1, <1>5, PassShape, JobType
  <2>2. job'.pc = "patch"
    BY <1>5, <2>1 DEF ScaleStep, ScaleNeedless, ScaleDryRun, Scale, ScaleFails, ScaleReplyLost,
                      Scaled, FailedToScale, Return, Job
  <2>3. QED
    BY <2>2 DEF ColdDownInv
<1>6. CASE PatchStep
  BY <1>6, PatchShape DEF NoJob, ColdDownInv
<1>7. CASE OtherStep \/ EditStep \/ CacheSync \/ Tick
  <2>1. UNCHANGED job
    BY <1>7, OtherShape, EditShape DEF CacheSync, Tick
  <2>2. now <= now' /\ now' \in Int
    BY <1>1, <1>7, OtherShape, EditShape DEF CacheSync, Tick, Times
  <2>3. ghost'.scaledAt = ghost.scaledAt
    <3>1. CASE OtherStep
      BY <1>1, <3>1 DEF OtherStep, TypeOK, Ghost, BeginNotFound, TimerFires,
             TargetSync, ChangeLoad, ResizeTarget, ReplaceTarget, Disturb, Disturbance, vars
    <3>2. CASE EditStep \/ CacheSync \/ Tick
      BY <1>1, <3>2 DEF EditStep, EditSpec, Annotate, SetDryRun, Delete, Recreate, Disturb,
                        Disturbance, CacheSync, Tick, TypeOK, Ghost
    <3>3. QED
      BY <1>7, <3>1, <3>2
  <2>4. ASSUME NEW t \in ghost.scaledAt, now - t >= DefaultScalingColdDown
        PROVE  now' - t >= DefaultScalingColdDown
    BY <1>1, <2>2, <2>4 DEF Times, DefaultScalingColdDown
  <2>5. QED
    BY <2>1, <2>3, <2>4 DEF ColdDownInv
<1>8. CASE Crash
  BY <1>8 DEF Crash, Disturb, Disturbance, NothingLost
<1>9. QED
  BY <1>2, <1>3, <1>4, <1>5, <1>6, <1>7, <1>8, StepCases

\* When nothing is lost and passes begin with the object as it is, two updates of the target
\* outside panic mode are at least the cold-down apart, however long a pass takes.
THEOREM ColdDownKept == NothingLost /\ ~InformerLag => (Spec => ColdDownRespected)
<1> SUFFICES ASSUME NothingLost, ~InformerLag PROVE Spec => ColdDownRespected
  OBVIOUS
<1> DEFINE IInv == LoopInv /\ SteadyInv /\ RecordInv /\ ColdDownInv
<1>1. Init => IInv
  <2>1. Init => LoopInv /\ ColdDownInv
    BY DEF Init, LoopInv, CacheFresh, PassFresh, NoRequeueOnPurpose, RestsOnPurpose, NoJob,
           ColdDownInv
  <2>2. QED
    BY <2>1, RecordInit
<1>2. TypeInv /\ IInv /\ [Next]_vars => IInv'
  BY LoopStep, SteadyStep, RecordStep, ColdDownStep
<1>3. IInv /\ [Next]_vars =>
        [(target' # target /\ job.pc = "scale" /\ job'.pc = "patch"
          /\ job.observed.spec.min # Nil /\ ~job.underPanic) =>
            \A t \in ghost.scaledAt : now - t >= DefaultScalingColdDown]_vars
  BY DEF ColdDownInv
<1> HIDE DEF IInv
<1>4. QED
  BY <1>1, <1>2, <1>3, TypeInvariant, PTL DEF Spec, ColdDownRespected

-----------------------------------------------------------------------------
(* Advice outlives the process that got it                                 *)

\* Every lower limit the annotation can set is floor.
Floored(annotation, floor) ==
    annotation # Garbled => \A i \in annotation : PatchTable[i].min = floor

\* Nobody but the controller changes the size of the target, and the lower limit is floor,
\* whichever spec or replica patch is in force.
OnlyControllerScales(floor) ==
    /\ Disturbances \cap {"resize", "target"} = {}
    /\ \A spec \in Specs : spec.min = floor
    /\ \A annotation \in Annotations : Floored(annotation, floor)

FlooredInv(floor) ==
    /\ Floored(obj.patches, floor) /\ Floored(cache.patches, floor)
    /\ job.pc # "idle" => Floored(job.patches, floor)

\* The size a pass compares with is the one the target has.
ScaleCurrent == job.pc \in {"evaluate", "scale"} => job.scale.replicas = target.replicas

\* What a process that died was advised.
Lost == ghost.advised \ history.recent

\* What was lost is not younger than what the replicator remembers, so it does not outlast
\* it in the window.
LostFirst ==
    /\ \A rec \in ghost.advised : rec.timestamp <= now
    /\ \A lost \in Lost, rec \in history.recent : lost.timestamp <= rec.timestamp

\* The replicator remembers a recommendation for so many replicas.
Remembered(n) == \E rec \in history.recent : n <= rec.replicas

\* As long as something lost would still count, the replicator remembers a recommendation
\* for the replicas the target has: its seed, or a later one.
SeedStandsIn(floor) ==
    (history.seeded /\ Lost # {}) =>
        /\ target.replicas <= floor \/ Remembered(target.replicas)
        /\ job.pc = "scale" => job.desired <= floor \/ Remembered(job.desired)

\* Limits are monotone, and a clamped number is not below the lower limit.
LEMMA ClampMonotone ==
    ASSUME NEW limits, limits.min \in Nat, limits.max \in Nat, NEW m \in Nat, NEW n \in Nat, n <= m
    PROVE  Clamp(n, limits) <= Clamp(m, limits) /\ limits.min <= Clamp(n, limits)
BY DEF Clamp, Capped

\* Only the upper limit lowers a number, and it lowers every number as far.
LEMMA ClampLowers ==
    ASSUME NEW limits, limits.min \in Nat, limits.max \in Nat, NEW m \in Nat, NEW n \in Nat,
           Clamp(m, limits) < m
    PROVE  Clamp(n, limits) <= Clamp(m, limits)
BY DEF Clamp, Capped

\* What an evaluation decides and remembers.
LEMMA EvaluateShape ==
    ASSUME TypeInv, Evaluate
    PROVE  \E limits \in Limits, m \in Nat :
             /\ limits.min \in Nat /\ limits.max \in Nat
             /\ job'.pc = "scale" /\ job'.desired = Clamp(m, limits)
             /\ job'.scale = job.scale /\ job.scale.replicas \in Nat
             /\ history'.seeded
             /\ history.recent \cup Seed \subseteq history'.recent
             /\ history'.recent
                  = history.recent \cup Seed \cup {[timestamp |-> now, replicas |-> load]}
             /\ \A rec \in Recent(history.recent \cup Seed, now, Window) : rec.replicas <= m
             /\ \E rec \in history'.recent : m <= rec.replicas
             /\ ghost' = [ghost EXCEPT !.advised
                            = ghost.advised \cup {[timestamp |-> now, replicas |-> load]}]
             /\ UNCHANGED <<now, obj, cache, target>>
<1> DEFINE newest == [timestamp |-> now, replicas |-> load]
           before == history.recent \cup Seed
<1>1. /\ job.pc = "evaluate"
      /\ history' = [seeded |-> TRUE, recent |-> before \cup {newest}]
      /\ ghost' = [ghost EXCEPT !.advised = ghost.advised \cup {newest}]
      /\ UNCHANGED <<now, obj, cache, target>>
  BY DEF Evaluate
<1>2. PICK m \in {load} \cup {rec.replicas : rec \in before}, limits \in Limits :
        /\ IsMaxRecommendation(m, load, before, now, Window)
        /\ \E conditions : job' = [job EXCEPT !.pc = "scale", !.desired = Clamp(m, limits),
                                              !.status.conditions = conditions]
  BY DEF Evaluate
<1>3. job \in Job /\ job.scale.replicas \in Nat
  BY <1>1, JobType DEF TypeInv, Target
<1>4. job'.pc = "scale" /\ job'.desired = Clamp(m, limits) /\ job'.scale = job.scale
  BY <1>2, <1>3 DEF Job
<1>5. \A rec \in before : rec.replicas \in Nat
  BY <1>3 DEF TypeInv, TypeOK, History, Recs, Recommendation, Seed
<1>6. load \in Nat /\ m \in Nat
  BY <1>2, <1>5 DEF TypeInv, TypeOK
<1>7. \A rec \in Recent(before, now, Window) : rec.replicas <= m
  BY <1>2 DEF IsMaxRecommendation
<1>8. \E rec \in before \cup {newest} : m <= rec.replicas
  <2>1. CASE m = load
    <3>1. newest \in before \cup {newest} /\ m <= newest.replicas
      BY <1>6, <2>1
    <3>2. QED
      BY <3>1
  <2>2. CASE m # load
    <3>1. PICK rec \in before : m = rec.replicas
      BY <1>2, <2>2
    <3>2. rec \in before \cup {newest} /\ m <= rec.replicas
      BY <1>6, <3>1
    <3>3. QED
      BY <3>2
  <2>3. QED
    BY <2>1, <2>2
<1>9. limits.min \in Nat /\ limits.max \in Nat
  BY <1>1, <1>2, LimitsType
<1>10. QED
  BY <1>1, <1>2, <1>3, <1>4, <1>6, <1>7, <1>8, <1>9

\* A process that has not died remembers everything it was advised.
AllRemembered == ghost.advised \subseteq history.recent

LEMMA AdviceKept ==
    ASSUME TypeInv, [Next]_vars, ~Evaluate, ~Tick
    PROVE  ghost'.advised = ghost.advised
<1>1. ghost \in Ghost
  BY DEF TypeInv, TypeOK
<1>2. CASE BeginStep \/ PatchStep
  BY <1>1, <1>2, BeginShape, PatchShape DEF Ghost
<1>3. CASE EvaluateStep
  BY <1>1, <1>3 DEF EvaluateStep, EvaluateFails, EvaluateWithoutScaler,
                    EvaluateWithoutReplicator, Ghost
<1>4. CASE ScaleStep
  BY <1>1, <1>4 DEF ScaleStep, ScaleNeedless, ScaleDryRun, Scale, ScaleFails, ScaleReplyLost, Ghost
<1>5. CASE OtherStep
  BY <1>1, <1>5 DEF OtherStep, BeginNotFound, TimerFires, TargetSync, ChangeLoad, ResizeTarget,
                    ReplaceTarget, Disturb, Disturbance, vars, Ghost
<1>6. CASE EditStep
  BY <1>1, <1>6 DEF EditStep, EditSpec, Annotate, SetDryRun, Delete, Recreate, Disturb,
                    Disturbance, Ghost
<1>7. CASE CacheSync \/ Crash
  BY <1>1, <1>7 DEF CacheSync, Crash, Disturb, Disturbance, Ghost
<1>8. QED
  BY <1>2, <1>3, <1>4, <1>5, <1>6, <1>7, StepCases

LEMMA HistoryKept ==
    ASSUME [Next]_vars, ~Evaluate, ~Tick, ~Crash
    PROVE  history' = history
<1>1. CASE EvaluateStep
  BY <1>1 DEF EvaluateStep, EvaluateFails, EvaluateWithoutScaler, EvaluateWithoutReplicator
<1>2. CASE ScaleStep
  BY <1>2 DEF ScaleStep, ScaleNeedless, ScaleDryRun, Scale, ScaleFails, ScaleReplyLost
<1>3. CASE BeginStep \/ PatchStep \/ OtherStep \/ EditStep
  BY <1>3, BeginShape, PatchShape, OtherShape, EditShape
<1>4. CASE CacheSync
  BY <1>4 DEF CacheSync
<1>5. QED
  BY <1>1, <1>2, <1>3, <1>4, StepCases

\* As time passes, what leaves the window leaves it on both sides.
LEMMA TickForgets ==
    ASSUME TypeInv, Tick
    PROVE  /\ ghost'.advised = Recent(ghost.advised, now', Window)
           /\ history'.recent = Recent(history.recent, now', Window)
           /\ history'.seeded = history.seeded
           /\ now' = now + 1 /\ UNCHANGED <<obj, cache, job, target>>
BY DEF Tick, TypeInv, TypeOK, Ghost, History

LEMMA RememberedStep ==
    ASSUME "crash" \notin Disturbances, TypeInv, AllRemembered, [Next]_vars
    PROVE  AllRemembered'
<1>1. CASE Evaluate
  <2>1. /\ history'.recent
             = history.recent \cup Seed \cup {[timestamp |-> now, replicas |-> load]}
        /\ ghost' = [ghost EXCEPT !.advised
                       = ghost.advised \cup {[timestamp |-> now, replicas |-> load]}]
    BY <1>1, EvaluateShape
  <2>2. ghost'.advised = ghost.advised \cup {[timestamp |-> now, replicas |-> load]}
    BY <2>1 DEF TypeInv, TypeOK, Ghost
  <2>3. QED
    BY <2>1, <2>2 DEF AllRemembered
<1>2. CASE Tick
  BY <1>2, TickForgets DEF AllRemembered, Recent
<1>3. CASE ~Evaluate /\ ~Tick
  <2>1. ~Crash
    BY DEF Crash, Disturb, Disturbance
  <2>2. QED
    BY <1>3, <2>1, AdviceKept, HistoryKept DEF AllRemembered
<1>4. QED
  BY <1>1, <1>2, <1>3

\* Only an evaluation decides.
LEMMA OnlyEvaluateDecides ==
    ASSUME TypeInv, [Next]_vars, job.pc = "evaluate", job'.pc = "scale"
    PROVE  Evaluate
<1>1. job \in Job
  BY JobType DEF TypeInv
<1>2. CASE BeginStep \/ PatchStep
  BY <1>2, BeginShape, PatchShape
<1>3. CASE EvaluateStep
  BY <1>1, <1>3 DEF EvaluateStep, EvaluateFails, EvaluateWithoutScaler,
                    EvaluateWithoutReplicator, Return, Job
<1>4. CASE ScaleStep
  BY <1>4 DEF ScaleStep, ScaleNeedless, ScaleDryRun, Scale, ScaleFails, ScaleReplyLost, MustScale
<1>5. CASE OtherStep \/ EditStep \/ CacheSync \/ Tick
  BY <1>5, OtherShape, EditShape DEF CacheSync, Tick
<1>6. CASE Crash
  BY <1>6 DEF Crash, NoJob
<1>7. QED
  BY <1>2, <1>3, <1>4, <1>5, <1>6, StepCases

\* A decision to go down does not go below advice that is remembered, and whatever the seed
\* or a remembered recommendation covers is lowered by the upper limit alone.
LEMMA DecisionCovers ==
    ASSUME TypeInv, Evaluate, job'.desired < job.scale.replicas,
           NEW advice \in Recent(ghost.advised, now, Window),
           \/ advice \in history.recent
           \/ ~history.seeded
           \/ \E rec \in Recent(history.recent, now, Window) : job.scale.replicas <= rec.replicas
    PROVE  \E limits \in Limits : job'.desired >= Clamp(advice.replicas, limits)
<1>1. PICK limits \in Limits, m \in Nat :
        /\ limits.min \in Nat /\ limits.max \in Nat
        /\ job'.desired = Clamp(m, limits)
        /\ job.scale.replicas \in Nat
        /\ \A rec \in Recent(history.recent \cup Seed, now, Window) : rec.replicas <= m
  BY EvaluateShape
<1>2. /\ advice.replicas \in Nat /\ now \in Nat /\ Window \in Nat
      /\ \A rec \in history.recent : rec.replicas \in Nat
  BY BoundsAssumption
     DEF TypeInv, TypeOK, Ghost, History, Recs, Recommendation, Recent, Times
<1>3. Clamp(advice.replicas, limits) <= Clamp(m, limits)
  <2>1. CASE advice \in history.recent
    <3>1. advice \in Recent(history.recent \cup Seed, now, Window)
      BY <2>1 DEF Recent
    <3>2. QED
      BY <1>1, <1>2, <3>1, ClampMonotone
  <2>2. CASE job.scale.replicas <= m
    <3>1. Clamp(m, limits) \in Nat /\ Clamp(m, limits) < job.scale.replicas
      BY <1>1, ClampType
    <3>2. Clamp(m, limits) < m
      BY <1>1, <2>2, <3>1
    <3>3. QED
      BY <1>1, <1>2, <3>2, ClampLowers
  <2>3. CASE ~history.seeded
    <3>1. [timestamp |-> now, replicas |-> job.scale.replicas] \in Seed
      BY <2>3 DEF Seed
    <3>2. [timestamp |-> now, replicas |-> job.scale.replicas]
            \in Recent(history.recent \cup Seed, now, Window)
      BY <1>2, <3>1 DEF Recent, IsOld
    <3>3. job.scale.replicas <= m
      BY <1>1, <3>2
    <3>4. QED
      BY <2>2, <3>3
  <2>4. CASE \E rec \in Recent(history.recent, now, Window) : job.scale.replicas <= rec.replicas
    <3>1. PICK rec \in Recent(history.recent, now, Window) : job.scale.replicas <= rec.replicas
      BY <2>4
    <3>2. rec \in Recent(history.recent \cup Seed, now, Window) /\ rec.replicas \in Nat
      BY <1>2, <3>1 DEF Recent
    <3>3. job.scale.replicas <= m
      BY <1>1, <3>1, <3>2
    <3>4. QED
      BY <2>2, <3>3
  <2>5. QED
    BY <2>1, <2>3, <2>4
<1>4. Clamp(advice.replicas, limits) \in Nat /\ Clamp(m, limits) \in Nat
  BY <1>1, <1>2, ClampType
<1>5. QED
  BY <1>1, <1>3, <1>4

\* As long as the process lives, no pass lowers the target below what the scalers asked for
\* within the window, whatever users, other controllers and failing calls do.
THEOREM AdviceHeeded == "crash" \notin Disturbances => (Spec => NoEarlyDownscale)
<1> SUFFICES ASSUME "crash" \notin Disturbances PROVE Spec => NoEarlyDownscale
  OBVIOUS
<1>1. Init => AllRemembered
  BY DEF Init, AllRemembered
<1>2. TypeInv /\ AllRemembered /\ [Next]_vars => AllRemembered'
  BY RememberedStep
<1>3. TypeInv /\ AllRemembered /\ [Next]_vars =>
        [(job.pc = "evaluate" /\ job'.pc = "scale" /\ job'.desired < job.scale.replicas) =>
          \A rec \in Recent(ghost.advised, now, Window) : \E limits \in Limits :
              job'.desired >= Clamp(rec.replicas, limits)]_vars
  <2> SUFFICES ASSUME TypeInv, AllRemembered, [Next]_vars, job.pc = "evaluate", job'.pc = "scale",
                      job'.desired < job.scale.replicas,
                      NEW advice \in Recent(ghost.advised, now, Window)
               PROVE  \E limits \in Limits : job'.desired >= Clamp(advice.replicas, limits)
    OBVIOUS
  <2>1. Evaluate
    BY OnlyEvaluateDecides
  <2>2. advice \in history.recent
    BY DEF AllRemembered, Recent
  <2>3. QED
    BY <2>1, <2>2, DecisionCovers
<1>4. QED
  BY <1>1, <1>2, <1>3, TypeInvariant, PTL DEF Spec, NoEarlyDownscale

\* A pass is on its way to scale because it has begun or decided in this step, or was
\* before.
LEMMA PassScale ==
    ASSUME TypeInv, [Next]_vars, job'.pc \in {"evaluate", "scale"}
    PROVE  \/ BeginStep /\ job'.scale = target /\ (job'.pc = "scale" => cache.spec.min = Nil)
           \/ Evaluate
           \/ job' = job
<1>1. TypeOK
  BY DEF TypeInv
<1>2. CASE BeginStep
  <2>1. ASSUME NEW pc, NEW status, NEW scale, NEW desired, NEW underPanic, NEW delay,
               Begin(Pass(pc, status, scale, desired, underPanic, delay))
        PROVE  job'.pc = pc /\ job'.scale = scale
    BY <2>1 DEF Begin, Pass
  <2>2. BeginStatic \/ BeginAutoscaling
    BY <1>2, <2>1 DEF BeginStep, BeginDeleting, BeginWithoutTarget, BeginExhaustError,
                      BeginSelectorError, BeginColdDown
  <2>3. QED
    BY <1>2, <2>1, <2>2 DEF BeginStatic, BeginAutoscaling
<1>3. CASE (EvaluateStep \/ ScaleStep) /\ ~Evaluate
  <2>1. job \in Job
    BY <1>1, <1>3, PassShape, JobType
  <2>2. job'.pc = "patch"
    BY <1>3, <2>1 DEF EvaluateStep, EvaluateFails, EvaluateWithoutScaler, EvaluateWithoutReplicator,
           ScaleStep, ScaleNeedless, ScaleDryRun, Scale, ScaleFails, ScaleReplyLost, Scaled,
           FailedToScale, Return, Job
  <2>3. QED
    BY <2>2
<1>4. CASE PatchStep \/ Crash
  BY <1>4, PatchShape DEF Crash, NoJob
<1>5. CASE OtherStep \/ EditStep \/ CacheSync \/ Tick
  BY <1>5, OtherShape, EditShape DEF CacheSync, Tick
<1>6. QED
  BY <1>2, <1>3, <1>4, <1>5, StepCases

\* Where only the controller scales, only its updates change the size of the target.
LEMMA TargetKept ==
    ASSUME NEW floor, OnlyControllerScales(floor), TypeInv, [Next]_vars, ~Scale, ~ScaleReplyLost
    PROVE  target'.replicas = target.replicas
<1>1. CASE TargetSync
  BY <1>1 DEF TargetSync, TypeInv, TypeOK, Target
<1>2. ~ResizeTarget /\ ~ReplaceTarget
  BY DEF ResizeTarget, ReplaceTarget, Disturb, Disturbance, OnlyControllerScales
<1>3. CASE OtherStep /\ ~TargetSync
  BY <1>2, <1>3 DEF OtherStep, BeginNotFound, TimerFires, ChangeLoad, vars
<1>4. CASE BeginStep \/ PatchStep \/ EditStep
  BY <1>4, BeginShape, PatchShape, EditShape
<1>5. CASE EvaluateStep \/ ScaleStep
  BY <1>5 DEF EvaluateStep, EvaluateFails, EvaluateWithoutScaler, EvaluateWithoutReplicator,
              Evaluate, ScaleStep, ScaleNeedless, ScaleDryRun, ScaleFails
<1>6. CASE CacheSync \/ Tick \/ Crash
  BY <1>6 DEF CacheSync, Tick, Crash
<1>7. QED
  BY <1>1, <1>3, <1>4, <1>5, <1>6, StepCases

LEMMA UpdateEndsPass ==
    ASSUME TypeInv, Scale \/ ScaleReplyLost
    PROVE  job.pc = "scale" /\ job'.pc = "patch" /\ target'.replicas = job.desired
<1>1. job.pc = "scale"
  BY DEF Scale, ScaleReplyLost, MustScale
<1>2. job \in Job
  BY <1>1, JobType DEF TypeInv
<1>3. job'.pc = "patch"
  BY <1>2 DEF Scale, ScaleReplyLost, Scaled, FailedToScale, Return, Job
<1>4. target'.replicas = job.desired
  BY DEF Scale, ScaleReplyLost, UpdateTarget, TypeInv, TypeOK, Target
<1>5. QED
  BY <1>1, <1>3, <1>4

LEMMA ScaleCurrentStep ==
    ASSUME NEW floor, OnlyControllerScales(floor), TypeInv, ScaleCurrent, [Next]_vars
    PROVE  ScaleCurrent'
<1>1. SUFFICES ASSUME job'.pc \in {"evaluate", "scale"}
               PROVE  job'.scale.replicas = target'.replicas
  BY DEF ScaleCurrent
<1>2. ~Scale /\ ~ScaleReplyLost
  BY <1>1, UpdateEndsPass
<1>3. target'.replicas = target.replicas
  BY <1>2, TargetKept
<1>4. CASE Evaluate
  BY <1>3, <1>4, EvaluateShape DEF Evaluate, ScaleCurrent
<1>5. CASE BeginStep /\ job'.scale = target
  BY <1>3, <1>5
<1>6. CASE job' = job
  BY <1>1, <1>3, <1>6 DEF ScaleCurrent
<1>7. QED
  BY <1>1, <1>4, <1>5, <1>6, PassScale

LEMMA FlooredStep ==
    ASSUME NEW floor, OnlyControllerScales(floor), TypeInv, FlooredInv(floor), [Next]_vars
    PROVE  FlooredInv(floor)'
<1>1. TypeOK /\ obj \in Object
  BY DEF TypeInv, TypeOK
<1>2. CASE BeginStep
  <2>1. ASSUME NEW a, Floored(a, floor)
        PROVE  Floored(PurgeUnusedReplicaPatches(a, now), floor)
    BY <2>1 DEF Floored, PurgeUnusedReplicaPatches
  <2>2. QED
    BY <1>2, <2>1, BeginShape DEF FlooredInv
<1>3. CASE EvaluateStep \/ ScaleStep
  BY <1>1, <1>3, PassShape DEF FlooredInv
<1>4. CASE PatchStep
  <2>1. obj'.patches = obj.patches \/ obj'.patches = job.patches
    BY <1>1, <1>4, PatchShape DEF PatchedObject, Object
  <2>2. QED
    BY <1>4, <2>1, PatchShape DEF FlooredInv, NoJob
<1>5. CASE OtherStep
  BY <1>5, OtherShape DEF FlooredInv
<1>6. CASE EditStep
  <2>1. obj'.patches = obj.patches \/ obj'.patches \in Annotations
    <3>1. CASE EditSpec \/ SetDryRun \/ Delete
      BY <1>1, <3>1 DEF EditSpec, SetDryRun, Delete, Object
    <3>2. CASE Annotate
      BY <1>1, <3>2 DEF Annotate, Object
    <3>3. CASE Recreate
      BY <3>3 DEF Recreate, FreshObject
    <3>4. QED
      BY <1>6, <3>1, <3>2, <3>3 DEF EditStep
  <2>2. QED
    BY <1>6, <2>1, EditShape DEF FlooredInv, OnlyControllerScales
<1>7. CASE CacheSync \/ Tick \/ Crash
  BY <1>7 DEF CacheSync, Tick, Crash, FlooredInv, NoJob
<1>8. QED
  BY <1>2, <1>3, <1>4, <1>5, <1>6, <1>7, StepCases

\* The lower limit in force is floor.
LEMMA LimitsFloor ==
    ASSUME NEW floor, OnlyControllerScales(floor), TypeInv, FlooredInv(floor),
           job.pc = "evaluate", NEW limits \in Limits
    PROVE  limits.min = floor
<1>1. job.observed.spec \in Specs /\ Floored(job.patches, floor)
  BY JobType DEF TypeInv, FlooredInv, Object
<1>2. \A i \in WorkingReplicaPatch(now, job.patches) : PatchTable[i].min = floor
  BY <1>1 DEF Floored, WorkingReplicaPatch, GetReplicaPatch
<1>3. QED
  BY <1>1, <1>2 DEF Limits, OnlyControllerScales

LEMMA LostFirstStep ==
    ASSUME TypeInv, LostFirst, [Next]_vars
    PROVE  LostFirst'
<1>1. /\ now \in Int /\ \A rec \in ghost.advised : rec.timestamp \in Int
      /\ \A rec \in history.recent : rec.timestamp \in Int
  BY BoundsAssumption DEF TypeInv, TypeOK, Ghost, History, Recs, Recommendation, Times
<1>2. CASE Evaluate
  <2> DEFINE newest == [timestamp |-> now, replicas |-> load]
  <2>1. /\ history'.recent = history.recent \cup Seed \cup {newest} /\ now' = now
        /\ ghost' = [ghost EXCEPT !.advised = ghost.advised \cup {newest}]
    BY <1>2, EvaluateShape
  <2>2. ghost'.advised = ghost.advised \cup {newest}
    BY <2>1 DEF TypeInv, TypeOK, Ghost
  <2>3. newest.timestamp = now /\ \A rec \in Seed : rec.timestamp = now
    BY DEF Seed
  <2>4. \A rec \in ghost'.advised : rec.timestamp <= now
    BY <1>1, <2>2, <2>3 DEF LostFirst
  <2>5. ASSUME NEW lost \in Lost', NEW rec \in history'.recent
        PROVE  lost.timestamp <= rec.timestamp
    <3>1. lost \in Lost
      BY <2>1, <2>2 DEF Lost
    <3>2. CASE rec \in history.recent
      BY <3>1, <3>2 DEF LostFirst
    <3>3. CASE rec \notin history.recent
      <4>1. rec.timestamp = now
        BY <2>1, <2>3, <3>3
      <4>2. QED
        BY <3>1, <4>1 DEF LostFirst, Lost
    <3>4. QED
      BY <3>2, <3>3
  <2>6. QED
    BY <2>1, <2>4, <2>5 DEF LostFirst
<1>3. CASE Tick
  <2>1. /\ ghost'.advised \subseteq ghost.advised /\ history'.recent \subseteq history.recent
        /\ now' = now + 1
    BY <1>3, TickForgets DEF Recent
  <2>2. Lost' \subseteq Lost
    BY <1>3, TickForgets DEF Lost, Recent
  <2>3. \A rec \in ghost'.advised : rec.timestamp <= now'
    BY <1>1, <2>1 DEF LostFirst
  <2>4. QED
    BY <2>1, <2>2, <2>3 DEF LostFirst
<1>4. CASE Crash
  BY <1>4 DEF Crash, Disturb, Disturbance, LostFirst, TypeInv, TypeOK, Ghost
<1>5. CASE ~Evaluate /\ ~Tick /\ ~Crash
  <2>1. ghost'.advised = ghost.advised /\ history' = history
    BY <1>5, AdviceKept, HistoryKept
  <2>2. now' = now
    <3>1. CASE BeginStep \/ EvaluateStep \/ ScaleStep \/ PatchStep
      BY <3>1, BeginShape, PassShape, PatchShape DEF TypeInv
    <3>2. CASE OtherStep \/ EditStep \/ CacheSync
      BY <3>2, OtherShape, EditShape DEF CacheSync
    <3>3. QED
      BY <1>5, <3>1, <3>2, StepCases
  <2>3. QED
    BY <2>1, <2>2 DEF LostFirst, Lost
<1>6. QED
  BY <1>2, <1>3, <1>4, <1>5

LEMMA SeedStandsInStep ==
    ASSUME NEW floor \in Nat, OnlyControllerScales(floor), TypeInv, FlooredInv(floor), ScaleCurrent,
           LostFirst, SeedStandsIn(floor), [Next]_vars
    PROVE  SeedStandsIn(floor)'
<1> SUFFICES ASSUME history'.seeded, Lost' # {}
             PROVE  /\ target'.replicas <= floor \/ Remembered(target.replicas)'
                    /\ job'.pc = "scale" => job'.desired <= floor \/ Remembered(job.desired)'
  BY DEF SeedStandsIn
<1>1. CASE Evaluate
  <2>1. PICK limits \in Limits, m \in Nat :
          /\ limits.min \in Nat /\ limits.max \in Nat
          /\ job'.desired = Clamp(m, limits)
          /\ history.recent \cup Seed \subseteq history'.recent
          /\ history'.recent
               = history.recent \cup Seed \cup {[timestamp |-> now, replicas |-> load]}
          /\ \E rec \in history'.recent : m <= rec.replicas
          /\ ghost' = [ghost EXCEPT !.advised
                         = ghost.advised \cup {[timestamp |-> now, replicas |-> load]}]
          /\ UNCHANGED target
    BY <1>1, EvaluateShape
  <2>2. target'.replicas <= floor \/ Remembered(target.replicas)'
    <3>1. CASE history.seeded
      <4>1. ghost'.advised = ghost.advised \cup {[timestamp |-> now, replicas |-> load]}
        BY <2>1 DEF TypeInv, TypeOK, Ghost
      <4>2. Lost # {}
        BY <2>1, <4>1 DEF Lost
      <4>3. target.replicas <= floor \/ Remembered(target.replicas)
        BY <3>1, <4>2 DEF SeedStandsIn
      <4>4. QED
        BY <2>1, <4>3 DEF Remembered
    <3>2. CASE ~history.seeded
      <4> DEFINE seed == [timestamp |-> now, replicas |-> job.scale.replicas]
      <4>1. seed \in history'.recent
        BY <2>1, <3>2 DEF Seed
      <4>2. job.scale.replicas = target.replicas /\ target.replicas \in Nat
        BY <1>1 DEF Evaluate, ScaleCurrent, TypeInv, TypeOK, Target
      <4>3. target'.replicas <= seed.replicas
        BY <2>1, <4>2
      <4>4. QED
        BY <4>1, <4>3 DEF Remembered
    <3>3. QED
      BY <3>1, <3>2
  <2>3. job'.desired <= floor \/ Remembered(job.desired)'
    <3>1. limits.min = floor
      BY <1>1, <2>1, LimitsFloor DEF Evaluate
    <3>2. job'.desired <= floor \/ job'.desired <= m
      BY <2>1, <3>1 DEF Clamp, Capped
    <3>3. PICK rec \in history'.recent : m <= rec.replicas
      BY <2>1
    <3>4. rec.replicas \in Nat /\ job'.desired \in Nat
      <4>1. TypeInv'
        BY TypeStep
      <4>2. rec.replicas \in Nat
        BY <3>3, <4>1 DEF TypeInv, TypeOK, History, Recs, Recommendation
      <4>3. QED
        BY <2>1, <4>2, ClampType
    <3>5. job'.desired <= m => job'.desired <= rec.replicas
      BY <3>3, <3>4
    <3>6. QED
      BY <3>2, <3>3, <3>5 DEF Remembered
  <2>4. QED
    BY <2>2, <2>3
<1>2. CASE Tick
  <2>1. Lost' \subseteq Lost /\ history.seeded /\ UNCHANGED <<job, target>>
    BY <1>2, TickForgets DEF Lost, Recent
  <2>2. PICK lost \in Lost' : TRUE
    OBVIOUS
  <2>3. ASSUME NEW rec \in history.recent PROVE rec \in history'.recent
    <3>1. lost.timestamp <= rec.timestamp
      BY <2>1, <2>2 DEF LostFirst
    <3>2. ~IsOld(lost, now', Window)
      BY <1>2, <2>2, TickForgets DEF Lost, Recent
    <3>3. lost.timestamp \in Int /\ rec.timestamp \in Int /\ now' \in Int /\ Window \in Int
      BY <1>2, <2>1, <2>2, TickForgets, BoundsAssumption
         DEF TypeInv, TypeOK, Ghost, History, Recs, Recommendation, Times, Lost
    <3>4. ~IsOld(rec, now', Window)
      BY <3>1, <3>2, <3>3 DEF IsOld
    <3>5. QED
      BY <1>2, <3>4, TickForgets DEF Recent
  <2>4. QED
    BY <2>1, <2>2, <2>3 DEF SeedStandsIn, Remembered
<1>3. CASE Crash
  BY <1>3 DEF Crash
<1>4. CASE ~Evaluate /\ ~Tick /\ ~Crash
  <2>1. ghost'.advised = ghost.advised /\ history' = history
    BY <1>4, AdviceKept, HistoryKept
  <2>2. history.seeded /\ Lost # {}
    BY <2>1 DEF Lost
  <2>3. target'.replicas <= floor \/ Remembered(target.replicas)'
    <3>1. CASE Scale \/ ScaleReplyLost
      BY <2>1, <2>2, <3>1, UpdateEndsPass DEF SeedStandsIn, Remembered
    <3>2. CASE ~Scale /\ ~ScaleReplyLost
      BY <2>1, <2>2, <3>2, TargetKept DEF SeedStandsIn, Remembered
    <3>3. QED
      BY <3>1, <3>2
  <2>4. ASSUME job'.pc = "scale" PROVE job'.desired <= floor \/ Remembered(job.desired)'
    <3>1. cache.spec.min # Nil
      BY NilAssumption DEF OnlyControllerScales, TypeInv, TypeOK, Object
    <3>2. job' = job
      BY <1>4, <2>4, <3>1, PassScale
    <3>3. QED
      BY <2>1, <2>2, <2>4, <3>2 DEF SeedStandsIn, Remembered
  <2>5. QED
    BY <2>3, <2>4
<1>5. QED
  BY <1>1, <1>2, <1>3, <1>4

\* Where nobody else scales the target and the lower limit stays, advice outlives the process
\* that got it: after any number of crashes, at any point of a pass, no pass lowers the target
\* below what the scalers asked for within the window.  The seed, taken from the target,
\* stands in for the history that was lost, as long as any of that would count.
THEOREM AdviceOutlivesCrashes ==
    (\E floor \in Nat : OnlyControllerScales(floor)) => (Spec => NoEarlyDownscale)
<1> SUFFICES ASSUME NEW CONSTANT floor \in Nat, OnlyControllerScales(floor)
             PROVE  Spec => NoEarlyDownscale
  OBVIOUS
<1> DEFINE IInv == FlooredInv(floor) /\ ScaleCurrent /\ LostFirst /\ SeedStandsIn(floor)
<1>1. Init => IInv
  BY DEF Init, FreshObject, NoJob, OnlyControllerScales, FlooredInv, ScaleCurrent, LostFirst, Lost,
         SeedStandsIn
<1>2. TypeInv /\ IInv /\ [Next]_vars => IInv'
  BY FlooredStep, ScaleCurrentStep, LostFirstStep, SeedStandsInStep
<1>3. TypeInv /\ IInv /\ [Next]_vars =>
        [(job.pc = "evaluate" /\ job'.pc = "scale" /\ job'.desired < job.scale.replicas) =>
          \A rec \in Recent(ghost.advised, now, Window) : \E limits \in Limits :
              job'.desired >= Clamp(rec.replicas, limits)]_vars
  <2> SUFFICES ASSUME TypeInv, IInv, [Next]_vars, job.pc = "evaluate", job'.pc = "scale",
                      job'.desired < job.scale.replicas,
                      NEW advice \in Recent(ghost.advised, now, Window)
               PROVE  \E limits \in Limits : job'.desired >= Clamp(advice.replicas, limits)
    OBVIOUS
  <2>1. Evaluate
    BY OnlyEvaluateDecides
  <2>2. CASE advice \in history.recent \/ ~history.seeded
    BY <2>1, <2>2, DecisionCovers
  <2>3. CASE advice \notin history.recent /\ history.seeded
    <3>1. advice \in Lost
      BY <2>3 DEF Lost, Recent
    <3>2. job.scale.replicas <= floor \/ Remembered(job.scale.replicas)
      BY <2>3, <3>1 DEF SeedStandsIn, ScaleCurrent
    <3>3. ~(job.scale.replicas <= floor)
      <4>1. PICK limits \in Limits, m \in Nat :
              /\ limits.min \in Nat /\ limits.max \in Nat
              /\ job'.desired = Clamp(m, limits)
              /\ job.scale.replicas \in Nat
        BY <2>1, EvaluateShape
      <4>2. limits.min = floor
        BY <4>1, LimitsFloor
      <4>3. floor <= job'.desired /\ job'.desired \in Nat
        BY <4>1, <4>2, ClampMonotone, ClampType
      <4>4. QED
        BY <4>1, <4>3
    <3>4. PICK rec \in history.recent : job.scale.replicas <= rec.replicas
      BY <3>2, <3>3 DEF Remembered
    <3>5. rec \in Recent(history.recent, now, Window)
      <4>1. advice.timestamp <= rec.timestamp
        BY <3>1, <3>4 DEF LostFirst
      <4>2. /\ advice.timestamp \in Int /\ rec.timestamp \in Int /\ now \in Int /\ Window \in Int
            /\ ~IsOld(advice, now, Window)
        BY <3>4, BoundsAssumption
           DEF TypeInv, TypeOK, Ghost, History, Recs, Recommendation, Times, Recent
      <4>3. QED
        BY <3>4, <4>1, <4>2 DEF Recent, IsOld
    <3>6. QED
      BY <2>1, <3>4, <3>5, DecisionCovers
  <2>4. QED
    BY <2>2, <2>3
<1> HIDE DEF IInv
<1>4. QED
  BY <1>1, <1>2, <1>3, TypeInvariant, PTL DEF Spec, NoEarlyDownscale

-----------------------------------------------------------------------------
(* The target settles in time                                              *)

\* Passes are prompt and begin with the object as it is, no call fails, the target stays,
\* the engine has what specs name, and no annotation keeps a pass from scaling or
\* overrides the limits of the spec.  Everything else may happen: edits, changes of the load,
\* others that scale the target, crashes, deletions.
Undelayed ==
    /\ Prompt /\ ~InformerLag
    /\ Faults = {} /\ "target" \notin Disturbances
    /\ \A spec \in Specs : spec.metric = "known" /\ spec.replicator = "known"
    /\ DryRuns \subseteq {"false"} /\ Annotations \subseteq {{}, Garbled}

\* The longest time without a pass that gets past the cold-down: one comes just before its
\* end, the next a requeue later.
Respite == DefaultScalingColdDown - 1 + RequeueDelayOnNormalState

\* From when on the replicator has a history, and from when on there is nothing in it but
\* what the scalers ask for now.
SeededBy == ghost.disturbedAt + Respite
ForgottenBy == SeededBy + Window

\* An object with nothing in its annotations that would keep a pass from scaling to the
\* limits of the spec.
Effective(o) == o.dryRun = "false" /\ o.patches \in {{}, Garbled}

EffectiveInv ==
    /\ target.exists
    /\ Effective(obj) /\ Effective(cache)
    /\ job.pc # "idle" => Effective(job.observed) /\ job.patches = job.observed.patches

\* Only a static autoscaler rests, and the others do so for one requeue period at most.
RestInv ==
    /\ timer # Nil => now <= timer /\ timer <= now + RequeueDelayOnNormalState
    /\ job.pc = "patch" => job.delay <= RequeueDelayOnNormalState
    /\ (job.pc = "patch" /\ job.delay = NotRequeue) => job.observed.spec.min = Nil
    /\ (job.pc = "idle" /\ ~queued /\ ~stale /\ timer = Nil /\ obj.phase = "live") =>
          obj.spec.min = Nil

\* Since the last disturbance nothing has overtaken the pass but the target's own controller.
PassInv ==
    /\ ghost.disturbedAt <= now
    /\ job.pc \in {"evaluate", "scale"} => job.observed.phase = "live"
    /\ moved => job.pc \in {"evaluate", "scale"}
    /\ ghost.disturbedAt < now =>
          /\ job.pc # "idle" => /\ job.observed.spec = obj.spec
                                /\ job.observed.phase = obj.phase
          /\ job.pc \in {"evaluate", "scale"} => job.scale.replicas = target.replicas
          /\ moved => target.observed = target.replicas

\* A stamp since the last disturbance is that of a scaling by an evaluation, and one from
\* when the rest is forgotten is that of the scaling to the goal.
StampInv(stamp) ==
    stamp # Nil =>
        /\ stamp <= now
        /\ (ghost.disturbedAt < stamp /\ obj.spec.min # Nil) => history.seeded
        /\ (ForgottenBy < stamp /\ obj.spec.min # Nil) => target.replicas = Goal

StampsInv ==
    /\ StampInv(obj.status.lastScaleTime)
    /\ StampInv(cache.status.lastScaleTime)
    /\ job.pc # "idle" => StampInv(job.status.lastScaleTime)
    /\ (job.pc = "scale" /\ job.observed.spec.min # Nil) => history.seeded

\* Something will start a pass, or goes on in one, no later than limit.
Due(limit, pcs) ==
    \/ stale \/ queued \/ job.pc \in pcs
    \/ timer # Nil /\ timer <= limit

Autoscaled == obj.phase = "live" /\ obj.spec.min # Nil

SeedInv ==
    (ghost.disturbedAt + DefaultScalingColdDown <= now /\ Autoscaled /\ ~history.seeded) =>
        now <= SeededBy /\ Due(SeededBy, {"evaluate"})

\* What the replicator remembers.
MemoryInv ==
    /\ \A rec \in history.recent :
          rec.timestamp <= now /\ (SeededBy < rec.timestamp => rec.replicas = load)
    /\ (job.pc = "scale" /\ job.observed.spec.min # Nil /\ ForgottenBy < now) =>
          job.desired = Clamp(load, [min |-> job.observed.spec.min, max |-> job.observed.spec.max])

\* An attempt to scale to the goal is due in time.
FirstAttempt ==
    /\ now <= ForgottenBy + Respite
    /\ Due(ForgottenBy + Respite, {"evaluate", "scale"})

\* It met a conflict with the report of the target's own controller, and another attempt is
\* due.  There is no other report to come.
LastAttempt ==
    /\ target.observed = target.replicas /\ ~moved
    /\ now <= ForgottenBy + Respite + RequeueDelayOnErrorState
    /\ \/ Due(ForgottenBy + Respite + RequeueDelayOnErrorState, {"evaluate", "scale"})
       \/ /\ job.pc = "patch" /\ job.delay # NotRequeue
          /\ now + job.delay <= ForgottenBy + Respite + RequeueDelayOnErrorState

GoalInv ==
    (ForgottenBy + DefaultScalingColdDown <= now /\ Autoscaled /\ target.replicas # Goal) =>
        FirstAttempt \/ LastAttempt

\* A step from which on time counts anew.
Disturbing == EditStep \/ ChangeLoad \/ ResizeTarget \/ Crash

\* The beginnings of passes that need no call to fail and no target to be missing.
Beginning == BeginDeleting \/ BeginStatic \/ BeginColdDown \/ BeginAutoscaling

LEMMA DisturbingShape ==
    ASSUME Undelayed, TypeInv, Disturbing
    PROVE  now' = now /\ ghost'.disturbedAt = now
<1>1. Prompt /\ ghost \in Ghost
  BY DEF Undelayed, TypeInv, TypeOK
<1>2. now' = now /\ ghost' = [ghost EXCEPT !.disturbedAt = now]
  BY <1>1 DEF Disturbing, EditStep, EditSpec, Annotate, SetDryRun, Delete, Recreate, ChangeLoad,
              ResizeTarget, Crash, Disturb, Disturbance
<1>3. QED
  BY <1>1, <1>2 DEF Ghost

\* What can happen, then, and from when on time counts.
LEMMA UndelayedCases ==
    ASSUME Undelayed, TypeInv, EffectiveInv, [Next]_vars
    PROVE  \/ Disturbing
           \/ /\ \/ Beginning \/ Evaluate
                 \/ ScaleNeedless \/ Scale \/ (ScaleFails /\ moved)
                 \/ PatchStep \/ CacheSync \/ TimerFires \/ TargetSync \/ Tick
                 \/ UNCHANGED vars
              /\ ghost'.disturbedAt = ghost.disturbedAt
<1>1. /\ \A kind : ~Fault(kind)
      /\ ~Disturbance("target")
      /\ ghost \in Ghost /\ target.exists
  BY DEF Undelayed, Fault, Disturbance, TypeInv, TypeOK, EffectiveInv
<1>2. CASE BeginStep
  <2>1. Beginning
    BY <1>1, <1>2 DEF BeginStep, Beginning, BeginWithoutTarget, BeginExhaustError, BeginSelectorError
  <2>2. QED
    BY <1>1, <1>2, <2>1, BeginShape DEF Ghost
<1>3. CASE EvaluateStep
  <2>1. job.pc = "evaluate"
    BY <1>3 DEF EvaluateStep, EvaluateFails, EvaluateWithoutScaler, EvaluateWithoutReplicator,
                Evaluate
  <2>2. job.observed.spec \in Specs
    BY <2>1, JobType DEF TypeInv, Object
  <2>3. Evaluate
    BY <1>1, <1>3, <2>2 DEF Undelayed, EvaluateStep, EvaluateFails, EvaluateWithoutScaler,
                            EvaluateWithoutReplicator
  <2>4. QED
    BY <1>1, <2>3 DEF Evaluate, Ghost
<1>4. CASE ScaleStep
  <2>1. ~ScaleDryRun /\ ~ScaleReplyLost
    BY <1>1 DEF ScaleDryRun, ScaleReplyLost, MustScale, EffectiveInv, Effective
  <2>2. ScaleFails => moved
    BY <1>1 DEF ScaleFails
  <2>3. ghost'.disturbedAt = ghost.disturbedAt
    BY <1>1, <1>4, <2>1 DEF ScaleStep, ScaleNeedless, Scale, ScaleFails, Ghost
  <2>4. QED
    BY <1>4, <2>1, <2>2, <2>3 DEF ScaleStep
<1>5. CASE PatchStep
  BY <1>5, PatchShape
<1>6. CASE OtherStep
  <2>1. ~ReplaceTarget
    BY <1>1 DEF ReplaceTarget, Disturb
  <2>2. BeginNotFound => UNCHANGED vars
    BY DEF BeginNotFound
  <2>3. TimerFires \/ TargetSync \/ UNCHANGED vars => ghost' = ghost
    BY DEF TimerFires, TargetSync, vars
  <2>4. QED
    BY <1>6, <2>1, <2>2, <2>3 DEF OtherStep, Disturbing
<1>7. CASE CacheSync \/ Tick
  BY <1>1, <1>7 DEF CacheSync, Tick, Ghost
<1>8. QED
  BY <1>2, <1>3, <1>4, <1>5, <1>6, <1>7, StepCases DEF Disturbing

\* An annotation that is empty or does not parse is left alone.
LEMMA EffectivePurge ==
    ASSUME NEW o, Effective(o)
    PROVE  PurgeUnusedReplicaPatches(o.patches, now) = o.patches
BY DEF Effective, PurgeUnusedReplicaPatches

LEMMA EffectiveStep ==
    ASSUME Undelayed, TypeInv, EffectiveInv, [Next]_vars
    PROVE  EffectiveInv'
<1>1. TypeOK /\ obj \in Object /\ target \in Target
  BY DEF TypeInv, TypeOK
<1>2. target'.exists
  <2>1. CASE Disturbing
    BY <1>1, <2>1, EditShape DEF Disturbing, ChangeLoad, ResizeTarget, Crash, EffectiveInv, Target
  <2>2. CASE Beginning \/ PatchStep
    BY <2>2, BeginShape, PatchShape DEF Beginning, BeginStep, EffectiveInv
  <2>3. CASE Evaluate \/ ScaleNeedless \/ Scale \/ ScaleFails
    BY <1>1, <2>3 DEF Evaluate, ScaleNeedless, Scale, ScaleFails, UpdateTarget, EffectiveInv, Target
  <2>4. CASE CacheSync \/ TimerFires \/ TargetSync \/ Tick \/ UNCHANGED vars
    BY <1>1, <2>4 DEF CacheSync, TimerFires, TargetSync, Tick, vars, EffectiveInv, Target
  <2>5. QED
    BY <2>1, <2>2, <2>3, <2>4, UndelayedCases
<1>3. CASE BeginStep
  BY <1>2, <1>3, BeginShape, EffectivePurge DEF EffectiveInv
<1>4. CASE EvaluateStep \/ ScaleStep
  BY <1>1, <1>2, <1>4, PassShape DEF EffectiveInv
<1>5. CASE PatchStep
  <2>1. obj'.dryRun = obj.dryRun /\ obj'.patches = obj.patches
    <3>1. job.patches = job.observed.patches
      BY <1>5, PatchShape DEF EffectiveInv
    <3>2. QED
      BY <1>1, <1>5, <3>1, PatchShape DEF PatchedObject, AnnotationsEqual, Object
  <2>2. QED
    BY <1>2, <1>5, <2>1, PatchShape DEF EffectiveInv, Effective, NoJob
<1>6. CASE OtherStep
  BY <1>2, <1>6, OtherShape DEF EffectiveInv
<1>7. CASE EditStep
  <2>1. Effective(obj')
    <3>1. CASE EditSpec \/ Delete
      BY <1>1, <3>1 DEF EditSpec, Delete, EffectiveInv, Effective, Object
    <3>2. CASE Annotate
      BY <1>1, <3>2 DEF Annotate, Undelayed, EffectiveInv, Effective, Object
    <3>3. CASE SetDryRun
      BY <1>1, <3>3 DEF SetDryRun, Undelayed, EffectiveInv, Effective, Object
    <3>4. CASE Recreate
      <4>1. PICK spec \in InitialSpecs, annotation \in Annotations, dryRun \in DryRuns :
              obj' = FreshObject(spec, annotation, dryRun)
        BY <3>4 DEF Recreate
      <4>2. obj'.dryRun = dryRun /\ obj'.patches = annotation
        BY <4>1 DEF FreshObject
      <4>3. QED
        BY <4>2 DEF Undelayed, Effective
    <3>5. QED
      BY <1>7, <3>1, <3>2, <3>3, <3>4 DEF EditStep
  <2>2. QED
    BY <1>2, <1>7, <2>1, EditShape DEF EffectiveInv
<1>8. CASE CacheSync \/ Tick \/ Crash
  BY <1>2, <1>8 DEF CacheSync, Tick, Crash, NoJob, EffectiveInv
<1>9. QED
  BY <1>3, <1>4, <1>5, <1>6, <1>7, <1>8, StepCases

\* A requeue never postpones the next pass.
LEMMA RequeueBounds ==
    ASSUME TypeOK, NEW delay \in Nat, RequeueAfter(delay)
    PROVE  /\ timer # Nil => timer' # Nil /\ timer' <= timer
           /\ delay # NotRequeue => timer' # Nil /\ timer' <= now + delay
           /\ (timer' # Nil /\ timer' # timer) => timer' = now + delay
<1>1. now \in Int /\ now + delay \in Int /\ now + delay # Nil
  BY BoundsAssumption, NilAssumption DEF TypeOK, Times
<1>2. timer # Nil => timer \in Int
  BY DEF TypeOK
<1>3. QED
  BY <1>1, <1>2 DEF RequeueAfter

\* How a pass ends: it is repeated at once, or after the delay it asks for.
LEMMA PatchOutcome ==
    ASSUME TypeInv, LoopInv, PatchStep
    PROVE  /\ job.pc = "patch" /\ job' = NoJob
           /\ obj'.spec = obj.spec /\ obj'.phase = obj.phase
           /\ UNCHANGED <<now, cache, target, moved, load, history, ghost>>
           /\ stale => stale'
           /\ queued => queued'
           /\ RequeueAfter(job.delay) \/ (queued' /\ timer' = timer /\ obj.phase = "gone")
                                      \/ (queued' /\ timer' = timer /\ Faults # {})
           /\ queued' \/ stale' \/ (obj' = obj /\ obj = job.observed)
<1>1. /\ TypeOK /\ obj \in Object
      /\ job.pc = "patch" /\ job' = NoJob /\ (obj' = obj \/ obj' = PatchedObject)
      /\ UNCHANGED <<now, cache, target, moved, load, history, ghost>>
  BY PatchShape DEF TypeInv, TypeOK
<1>2. obj'.spec = obj.spec /\ obj'.phase = obj.phase
  BY <1>1 DEF PatchedObject, Object
<1>3. (stale => stale') /\ (queued => queued')
  <2>1. \/ UNCHANGED <<stale, queued>>
        \/ Watch /\ queued' = queued
        \/ Watch /\ queued' = TRUE
    BY DEF PatchStep, PatchNothing, Patch, PatchFails
  <2>2. Watch => (stale => stale')
    BY DEF Watch
  <2>3. QED
    BY <2>1, <2>2
<1>4. RequeueAfter(job.delay) \/ (queued' /\ timer' = timer /\ obj.phase = "gone")
                              \/ (queued' /\ timer' = timer /\ Faults # {})
  BY DEF PatchStep, PatchNothing, Patch, PatchFails, Fault
<1>5. queued' \/ stale' \/ (obj' = obj /\ obj = job.observed)
  <2>1. SUFFICES ASSUME ~queued', ~stale' PROVE obj' = obj /\ obj = job.observed
    OBVIOUS
  <2>2. ~queued /\ ~stale
    BY <1>3, <2>1
  <2>3. obj = job.observed
    BY <1>1, <2>2 DEF LoopInv, CacheFresh, PassFresh
  <2>4. obj' = obj
    BY <2>1 DEF PatchStep, PatchNothing, Patch, PatchFails, Watch
  <2>5. QED
    BY <2>3, <2>4
<1>6. QED
  BY <1>1, <1>2, <1>3, <1>4, <1>5

\* A pass asks for a requeue within the normal period, unless the autoscaler is static.
LEMMA DelayShort ==
    ASSUME Undelayed, TypeInv, Beginning \/ Evaluate \/ ScaleNeedless \/ Scale \/ ScaleFails
    PROVE  /\ job'.pc # "idle"
           /\ job'.pc = "patch" =>
                 /\ job'.delay <= RequeueDelayOnNormalState
                 /\ job'.delay = NotRequeue => job'.observed.spec.min = Nil
           /\ ScaleFails => job'.pc = "patch" /\ job'.delay = RequeueDelayOnErrorState
           /\ UNCHANGED <<now, obj, cache, stale, timer>>
           /\ ~Beginning => queued' = queued
<1> USE DEF NotRequeue, DefaultRequeueDelay, RequeueDelayOnNormalState, RequeueDelayOnErrorState,
            RequeueDelayOnPanicState
<1>1. TypeOK
  BY DEF TypeInv
<1>2. CASE Beginning
  <2>1. ASSUME NEW pc, NEW status, NEW scale, NEW desired, NEW underPanic, NEW delay,
               Begin(Pass(pc, status, scale, desired, underPanic, delay))
        PROVE  job'.pc = pc /\ job'.delay = delay
    BY <2>1 DEF Begin, Pass
  <2>2. job.pc = "idle"
    BY <1>2, BeginShape DEF Beginning, BeginStep
  <2>3. ~ScaleFails /\ job'.pc # "idle" /\ UNCHANGED <<now, obj, cache, stale, timer>>
    BY <1>2, <2>2, BeginShape DEF ScaleFails, MustScale, Beginning, BeginStep
  <2>4. job'.pc = "patch" => job'.delay = 4
    <3>1. CASE BeginDeleting
      BY <2>1, <3>1 DEF BeginDeleting
    <3>2. CASE BeginStatic
      <4>1. \E status, scale, desired, underPanic, delay :
              Begin(Pass("scale", status, scale, desired, underPanic, delay))
        BY <3>2, Zenon DEF BeginStatic
      <4>2. QED
        BY <2>1, <4>1
    <3>3. CASE BeginColdDown
      BY <2>1, <3>3 DEF BeginColdDown
    <3>4. CASE BeginAutoscaling
      BY <2>1, <3>4 DEF BeginAutoscaling
    <3>5. QED
      BY <1>2, <3>1, <3>2, <3>3, <3>4 DEF Beginning
  <2>5. QED
    BY <1>2, <2>3, <2>4
<1>3. CASE Evaluate
  <2>1. job.pc = "evaluate" /\ UNCHANGED <<now, obj, cache, stale, timer, queued>>
    BY <1>3 DEF Evaluate
  <2>2. job'.pc = "scale"
    BY <1>3, EvaluateShape
  <2>3. ~ScaleFails
    BY <2>1 DEF ScaleFails, MustScale
  <2>4. QED
    BY <2>1, <2>2, <2>3
<1>4. CASE ScaleNeedless \/ Scale \/ ScaleFails
  <2>1. job.pc = "scale" /\ UNCHANGED <<now, obj, cache, stale, timer, queued>>
    BY <1>4 DEF ScaleNeedless, Scale, ScaleFails, MustScale
  <2>2. job \in Job
    BY <1>1, <2>1, JobType
  <2>3. ASSUME NEW status, NEW delay, Return(status, delay)
        PROVE  job'.pc = "patch" /\ job'.delay = delay /\ job'.observed = job.observed
    BY <2>2, <2>3 DEF Return, Job
  <2>4. CASE ScaleFails
    <3>1. FailedToScale
      BY <2>4 DEF ScaleFails
    <3>2. job'.pc = "patch" /\ job'.delay = RequeueDelayOnErrorState
      BY <2>3, <3>1 DEF FailedToScale
    <3>3. QED
      BY <2>1, <3>2
  <2>5. CASE (ScaleNeedless \/ Scale) /\ ~ScaleFails
    <3>1. PICK status : Scaled(status)
      BY <2>5 DEF ScaleNeedless, Scale
    <3>2. /\ job'.pc = "patch" /\ job'.observed = job.observed
          /\ job'.delay \in {1, 4} \/ (job'.delay = 0 /\ job.observed.spec.min = Nil)
      BY <2>3, <3>1 DEF Scaled, DelayAfterScaling
    <3>3. QED
      BY <2>1, <2>5, <3>2
  <2>6. QED
    BY <1>4, <2>4, <2>5
<1>5. QED
  BY <1>2, <1>3, <1>4

LEMMA RestStep ==
    ASSUME Undelayed, TypeInv, LoopInv, EffectiveInv, RestInv, [Next]_vars
    PROVE  RestInv'
<1>1. TypeOK /\ now \in Int /\ (timer # Nil => timer \in Int)
  BY DEF TypeInv, TypeOK, Times
<1>2. CASE Beginning \/ Evaluate \/ ScaleNeedless \/ Scale \/ ScaleFails
  BY <1>2, DelayShort DEF RestInv
<1>3. CASE PatchStep
  <2>1. /\ job.pc = "patch" /\ job'.pc = "idle" /\ now' = now
        /\ obj'.spec = obj.spec /\ obj'.phase = obj.phase
        /\ RequeueAfter(job.delay) \/ (queued' /\ timer' = timer)
        /\ queued' \/ stale' \/ (obj' = obj /\ obj = job.observed)
    BY <1>3, PatchOutcome DEF NoJob
  <2>2. job.delay \in Nat /\ job.delay <= RequeueDelayOnNormalState
    BY <1>1, <2>1, JobType DEF RestInv
  <2>3. timer' # Nil => now <= timer' /\ timer' <= now + RequeueDelayOnNormalState
    <3>1. CASE timer' = timer
      BY <3>1 DEF RestInv
    <3>2. CASE timer' # timer /\ timer' # Nil
      <4>1. timer' = now + job.delay
        BY <1>1, <2>1, <2>2, <3>2, RequeueBounds
      <4>2. QED
        BY <1>1, <2>2, <4>1 DEF RequeueDelayOnNormalState
    <3>3. QED
      BY <3>1, <3>2
  <2>4. ASSUME ~queued', ~stale', timer' = Nil PROVE obj'.spec.min = Nil
    <3>1. RequeueAfter(job.delay) /\ obj' = job.observed
      BY <2>1, <2>4
    <3>2. job.delay = NotRequeue
      BY <1>1, <2>2, <2>4, <3>1, RequeueBounds
    <3>3. QED
      BY <2>1, <3>1, <3>2 DEF RestInv
  <2>5. QED
    BY <2>1, <2>3, <2>4 DEF RestInv
<1>4. CASE CacheSync \/ TimerFires \/ TargetSync \/ UNCHANGED vars
  BY <1>4 DEF CacheSync, TimerFires, TargetSync, vars, RestInv
<1>5. CASE Tick
  <2>1. /\ now' = now + 1 /\ job.pc = "idle" /\ (timer # Nil => timer > now)
        /\ UNCHANGED <<obj, stale, queued, timer, job>>
    BY <1>5 DEF Tick, Undelayed, Quiet
  <2>2. timer # Nil => now' <= timer /\ timer <= now' + RequeueDelayOnNormalState
    BY <1>1, <2>1 DEF RestInv, RequeueDelayOnNormalState
  <2>3. QED
    BY <2>1, <2>2 DEF RestInv
<1>6. CASE EditStep
  <2>1. UNCHANGED <<now, queued, timer, job>> /\ (~stale' => ~stale /\ obj' = obj)
    BY <1>6, EditShape
       DEF EditStep, EditSpec, Annotate, SetDryRun, Delete, Recreate, Watch
  <2>2. QED
    BY <2>1 DEF RestInv
<1>7. CASE ChangeLoad \/ ResizeTarget
  BY <1>7 DEF ChangeLoad, ResizeTarget, Disturb, Disturbance, RestInv
<1>8. CASE Crash
  BY <1>8 DEF Crash, NoJob, RestInv
<1>9. QED
  BY <1>2, <1>3, <1>4, <1>5, <1>6, <1>7, <1>8, UndelayedCases DEF Disturbing

\* How a pass begins.
LEMMA BeginningShape ==
    ASSUME Undelayed, LoopInv, Beginning
    PROVE  /\ job.pc = "idle" /\ queued /\ cache = obj /\ job'.observed = obj
           /\ job'.pc \in {"evaluate", "scale"} =>
                 job'.scale = target /\ obj.phase = "live"
           /\ job'.pc = "scale" => obj.spec.min = Nil
           /\ UNCHANGED <<now, obj, cache, stale, timer, target, moved, load, history>>
<1>1. /\ job.pc = "idle" /\ ~stale /\ job'.observed = cache
      /\ UNCHANGED <<now, obj, cache, stale, timer, target, moved, load, history>>
  BY BeginShape DEF Beginning, BeginStep, Undelayed
<1>2. cache = obj
  BY <1>1 DEF LoopInv, CacheFresh
<1>3. queued
  BY DEF Beginning, BeginDeleting, BeginStatic, BeginColdDown, BeginAutoscaling, Fetched
<1>4. ASSUME NEW pc, NEW status, NEW scale, NEW desired, NEW underPanic, NEW delay,
             Begin(Pass(pc, status, scale, desired, underPanic, delay))
      PROVE  job'.pc = pc /\ job'.scale = scale
  BY <1>4 DEF Begin, Pass
<1>5. CASE BeginDeleting
  BY <1>1, <1>2, <1>3, <1>4, <1>5 DEF BeginDeleting
<1>6. CASE BeginColdDown
  BY <1>1, <1>2, <1>3, <1>4, <1>6 DEF BeginColdDown
<1>7. CASE BeginStatic
  <2>1. /\ cache.phase = "live" /\ cache.spec.min = Nil
        /\ \E status, desired, underPanic, delay :
             Begin(Pass("scale", status, target, desired, underPanic, delay))
    BY <1>7, Zenon DEF BeginStatic, Fetched
  <2>2. job'.scale = target
    BY <1>4, <2>1
  <2>3. QED
    BY <1>1, <1>2, <1>3, <2>1, <2>2
<1>8. CASE BeginAutoscaling
  <2>1. /\ cache.phase = "live"
        /\ \E status, desired, underPanic, delay :
             Begin(Pass("evaluate", status, target, desired, underPanic, delay))
    BY <1>8, Zenon DEF BeginAutoscaling, Fetched
  <2>2. job'.pc = "evaluate" /\ job'.scale = target
    BY <1>4, <2>1
  <2>3. QED
    BY <1>1, <1>2, <1>3, <2>1, <2>2
<1>9. QED
  BY <1>5, <1>6, <1>7, <1>8 DEF Beginning

\* How a pass goes on.
LEMMA ScalingShape ==
    ASSUME TypeInv, ScaleNeedless \/ Scale \/ ScaleFails
    PROVE  /\ job.pc = "scale" /\ job'.pc = "patch" /\ moved' = FALSE
           /\ job'.observed = job.observed
           /\ UNCHANGED <<now, obj, cache, stale, queued, timer, load, history>>
           /\ ~Scale => target' = target
<1>1. /\ job.pc = "scale" /\ UNCHANGED <<now, obj, cache, stale, queued, timer, load, history>>
      /\ \E status, delay : Return(status, delay)
  BY DEF ScaleNeedless, Scale, ScaleFails, MustScale, Scaled, FailedToScale
<1>2. job \in Job
  BY <1>1, JobType DEF TypeInv
<1>3. job'.pc = "patch" /\ moved' = FALSE /\ job'.observed = job.observed
  BY <1>1, <1>2 DEF Return, Job
<1>4. ~Scale => target' = target
  BY DEF ScaleNeedless, ScaleFails
<1>5. QED
  BY <1>1, <1>3, <1>4

LEMMA EvaluationShape ==
    ASSUME TypeInv, Evaluate
    PROVE  /\ job.pc = "evaluate" /\ job'.pc = "scale" /\ history'.seeded
           /\ job'.observed = job.observed /\ job'.scale = job.scale
           /\ UNCHANGED <<now, obj, cache, stale, queued, timer, target, moved, load>>
<1>1. /\ job.pc = "evaluate"
      /\ UNCHANGED <<now, obj, cache, stale, queued, timer, target, moved, load>>
  BY DEF Evaluate
<1>2. job'.pc = "scale" /\ job'.scale = job.scale /\ history'.seeded
  BY EvaluateShape
<1>3. job'.observed = job.observed
  BY PassShape DEF EvaluateStep, TypeInv
<1>4. QED
  BY <1>1, <1>2, <1>3

LEMMA PassStep ==
    ASSUME Undelayed, TypeInv, LoopInv, EffectiveInv, PassInv, [Next]_vars
    PROVE  PassInv'
<1>1. TypeOK /\ now \in Int /\ target \in Target /\ ghost.disturbedAt \in Int
  BY DEF TypeInv, TypeOK, Times, Ghost
<1>2. CASE Disturbing
  <2>1. now' = now /\ ghost'.disturbedAt = now
    BY <1>2, DisturbingShape
  <2>2. \/ job' = job /\ (moved' => moved \/ job.pc \in {"evaluate", "scale"})
        \/ job'.pc = "idle" /\ ~moved'
    <3>1. CASE EditStep \/ ChangeLoad
      BY <3>1, EditShape DEF ChangeLoad
    <3>2. CASE ResizeTarget
      BY <3>2 DEF ResizeTarget, Move
    <3>3. CASE Crash
      BY <3>3 DEF Crash, NoJob
    <3>4. QED
      BY <1>2, <3>1, <3>2, <3>3 DEF Disturbing
  <2>3. QED
    BY <1>1, <2>1, <2>2 DEF PassInv
<1>3. CASE Beginning /\ ghost'.disturbedAt = ghost.disturbedAt
  BY <1>3, BeginningShape DEF PassInv
<1>4. CASE Evaluate /\ ghost'.disturbedAt = ghost.disturbedAt
  BY <1>4, EvaluationShape DEF PassInv
<1>5. CASE (ScaleNeedless \/ Scale \/ ScaleFails) /\ ghost'.disturbedAt = ghost.disturbedAt
  BY <1>5, ScalingShape DEF PassInv
<1>6. CASE PatchStep /\ ghost'.disturbedAt = ghost.disturbedAt
  BY <1>6, PatchOutcome DEF PassInv, NoJob
<1>7. CASE (CacheSync \/ TimerFires \/ UNCHANGED vars) /\ ghost'.disturbedAt = ghost.disturbedAt
  <2>1. UNCHANGED <<now, obj, job, target, moved>>
    BY <1>7 DEF CacheSync, TimerFires, vars
  <2>2. QED
    BY <1>7, <2>1 DEF PassInv
<1>8. CASE TargetSync /\ ghost'.disturbedAt = ghost.disturbedAt
  <2>1. /\ UNCHANGED <<now, obj, job>> /\ moved' = (job.pc \in {"evaluate", "scale"})
        /\ target'.replicas = target.replicas /\ target'.observed = target.replicas
    BY <1>1, <1>8 DEF TargetSync, Move, Target
  <2>2. QED
    BY <1>8, <2>1 DEF PassInv
<1>9. CASE Tick /\ ghost'.disturbedAt = ghost.disturbedAt
  <2>1. job.pc = "idle" /\ now' = now + 1 /\ UNCHANGED <<job, moved>>
    BY <1>9 DEF Tick, Undelayed, Quiet
  <2>2. QED
    BY <1>1, <1>9, <2>1 DEF PassInv
<1>10. QED
  BY <1>2, <1>3, <1>4, <1>5, <1>6, <1>7, <1>8, <1>9, UndelayedCases

LEMMA SettlingTypes ==
    ASSUME TypeInv
    PROVE  /\ now \in Nat /\ ghost.disturbedAt \in Nat /\ Window \in Nat
           /\ timer # Nil => timer \in Int
           /\ SeededBy = ghost.disturbedAt + 5 /\ ForgottenBy = ghost.disturbedAt + 5 + Window
           /\ Respite = 5
<1>1. now \in Nat /\ ghost.disturbedAt \in Nat /\ Window \in Nat /\ (timer # Nil => timer \in Int)
  BY BoundsAssumption DEF TypeInv, TypeOK, Times, Ghost
<1>2. Respite = 5
  BY DEF Respite, DefaultScalingColdDown, RequeueDelayOnNormalState
<1>3. QED
  BY <1>1, <1>2 DEF SeededBy, ForgottenBy

\* What is due stays due.
LEMMA DueKept ==
    ASSUME TypeInv, LoopInv, NEW limit \in Int,
           stale \/ queued \/ (timer # Nil /\ timer <= limit),
           PatchStep \/ CacheSync \/ TimerFires \/ TargetSync \/ UNCHANGED vars
    PROVE  stale' \/ queued' \/ (timer' # Nil /\ timer' <= limit)
<1>1. CASE PatchStep
  <2>1. /\ stale => stale'
        /\ queued => queued'
        /\ RequeueAfter(job.delay) \/ timer' = timer
        /\ job.pc = "patch"
    BY <1>1, PatchOutcome
  <2>2. job.delay \in Nat /\ TypeOK /\ now \in Int
    BY <2>1, JobType, SettlingTypes DEF TypeInv
  <2>3. timer # Nil => timer' # Nil /\ timer' <= timer
    BY <2>1, <2>2, RequeueBounds, SettlingTypes
  <2>4. timer' # Nil => timer' \in Int
    BY <2>1, <2>2, RequeueBounds, SettlingTypes
  <2>5. QED
    BY <2>1, <2>3, <2>4, SettlingTypes
<1>2. CASE CacheSync \/ TimerFires
  BY <1>2 DEF CacheSync, TimerFires
<1>3. CASE TargetSync \/ UNCHANGED vars
  <2>1. UNCHANGED <<stale, queued, timer>>
    BY <1>3 DEF TargetSync, vars
  <2>2. QED
    BY <2>1
<1>4. QED
  BY <1>1, <1>2, <1>3

\* A pass that no scaling has come close before gets past the cold-down.
LEMMA PastColdDown ==
    ASSUME Undelayed, TypeInv, LoopInv, Beginning, Autoscaled, NEW m \in Int,
           m + DefaultScalingColdDown <= now,
           obj.status.lastScaleTime # Nil => obj.status.lastScaleTime <= m
    PROVE  job'.pc = "evaluate"
<1>1. cache = obj
  BY BeginningShape
<1>2. ~BeginDeleting /\ ~BeginStatic
  BY <1>1 DEF BeginDeleting, BeginStatic, Fetched, Autoscaled
<1>3. ~InColdDown
  <2>1. obj.status.lastScaleTime # Nil => obj.status.lastScaleTime \in Int
    BY StampType DEF TypeInv, Times
  <2>2. QED
    BY <1>1, <2>1, SettlingTypes DEF InColdDown, DefaultScalingColdDown
<1>4. BeginAutoscaling
  BY <1>2, <1>3 DEF Beginning, BeginColdDown
<1>5. \E status, scale, desired, underPanic, delay :
        Begin(Pass("evaluate", status, scale, desired, underPanic, delay))
  BY <1>4, Zenon DEF BeginAutoscaling
<1>6. QED
  BY <1>5 DEF Begin, Pass

\* A step that is not a disturbance leaves the goal and, but for an evaluation, the history
\* alone.
LEMMA CalmKeeps ==
    ASSUME TypeInv, LoopInv, Undelayed,
           \/ Beginning \/ Evaluate \/ ScaleNeedless \/ Scale \/ ScaleFails \/ PatchStep
           \/ CacheSync \/ TimerFires \/ TargetSync \/ Tick \/ UNCHANGED vars
    PROVE  /\ obj'.spec = obj.spec /\ obj'.phase = obj.phase /\ load' = load
           /\ ~Tick => now' = now
           /\ ~Tick /\ ~Evaluate => history' = history
           /\ ~Evaluate => history'.seeded = history.seeded
           /\ ~Scale => target'.replicas = target.replicas
<1>1. CASE Beginning
  BY <1>1, BeginningShape
<1>2. CASE Evaluate
  BY <1>2, EvaluationShape
<1>3. CASE ScaleNeedless \/ Scale \/ ScaleFails
  BY <1>3, ScalingShape
<1>4. CASE PatchStep
  BY <1>4, PatchOutcome
<1>5. CASE CacheSync \/ TimerFires \/ UNCHANGED vars
  BY <1>5 DEF CacheSync, TimerFires, vars
<1>6. CASE TargetSync
  BY <1>6 DEF TargetSync, TypeInv, TypeOK, Target
<1>7. CASE Tick
  <2>1. UNCHANGED <<obj, load, target>>
    BY <1>7 DEF Tick
  <2>2. QED
    BY <1>7, <2>1, TickForgets
<1>8. QED
  BY <1>1, <1>2, <1>3, <1>4, <1>5, <1>6, <1>7

LEMMA SeedStep ==
    ASSUME Undelayed, TypeInv, LoopInv, EffectiveInv, RestInv, StampsInv, SeedInv, [Next]_vars
    PROVE  SeedInv'
<1>1. SUFFICES ASSUME ghost'.disturbedAt + DefaultScalingColdDown <= now', Autoscaled',
                      ~history'.seeded
               PROVE  now' <= SeededBy' /\ Due(SeededBy, {"evaluate"})'
  BY DEF SeedInv
<1>2. ~Disturbing
  BY <1>1, DisturbingShape, SettlingTypes DEF DefaultScalingColdDown
<1>3. ghost'.disturbedAt = ghost.disturbedAt /\ SeededBy' = SeededBy /\ SeededBy \in Int
  BY <1>2, UndelayedCases, SettlingTypes DEF SeededBy
<1>4. ~Evaluate
  BY <1>1, EvaluationShape
<1>5. Autoscaled /\ ~history.seeded /\ (~Tick => now' = now)
  BY <1>1, <1>2, <1>4, UndelayedCases, CalmKeeps DEF Autoscaled
<1>6. CASE Tick
  <2>1. /\ now' = now + 1 /\ job.pc = "idle" /\ ~queued /\ ~stale /\ (timer # Nil => timer > now)
        /\ timer' = timer
    BY <1>6 DEF Tick, Undelayed, Quiet
  <2>2. timer # Nil /\ timer <= now + RequeueDelayOnNormalState
    BY <1>5, <2>1 DEF RestInv, Autoscaled
  <2>3. timer <= SeededBy
    <3>1. CASE now = ghost.disturbedAt + 1
      BY <2>2, <3>1, SettlingTypes DEF RequeueDelayOnNormalState
    <3>2. CASE ghost.disturbedAt + DefaultScalingColdDown <= now
      BY <1>5, <2>1, <3>2 DEF SeedInv, Due
    <3>3. QED
      BY <1>1, <1>3, <2>1, <3>1, <3>2, SettlingTypes DEF DefaultScalingColdDown
  <2>4. QED
    BY <1>3, <2>1, <2>2, <2>3, SettlingTypes DEF Due
<1>7. CASE ~Tick
  <2>1. now' <= SeededBy' /\ Due(SeededBy, {"evaluate"})
    BY <1>1, <1>3, <1>5, <1>7 DEF SeedInv
  <2>2. CASE Beginning
    <3>1. obj.status.lastScaleTime # Nil => obj.status.lastScaleTime <= ghost.disturbedAt
      BY <1>5, StampType, SettlingTypes DEF StampsInv, StampInv, Autoscaled, TypeInv, Times
    <3>2. job'.pc = "evaluate"
      BY <1>1, <1>3, <1>5, <1>7, <2>2, <3>1, PastColdDown, SettlingTypes
    <3>3. QED
      BY <2>1, <3>2 DEF Due
  <2>3. CASE ScaleNeedless \/ Scale \/ ScaleFails
    BY <1>3, <2>1, <2>3, ScalingShape DEF Due
  <2>4. CASE PatchStep \/ CacheSync \/ TimerFires \/ TargetSync \/ UNCHANGED vars
    <3>1. CASE job.pc = "evaluate"
      <4>1. job'.pc = "evaluate"
        BY <2>4, <3>1, PatchShape DEF CacheSync, TimerFires, TargetSync, vars
      <4>2. QED
        BY <2>1, <4>1 DEF Due
    <3>2. CASE job.pc # "evaluate"
      <4>1. stale' \/ queued' \/ (timer' # Nil /\ timer' <= SeededBy)
        BY <1>3, <2>1, <2>4, <3>2, DueKept DEF Due
      <4>2. QED
        BY <1>3, <2>1, <4>1 DEF Due
    <3>3. QED
      BY <3>1, <3>2
  <2>5. QED
    BY <1>2, <1>4, <1>7, <2>2, <2>3, <2>4, UndelayedCases
<1>8. QED
  BY <1>6, <1>7

\* Without a working replica patch the limits are those of the spec, and when all that is
\* remembered is what the scalers ask for now, the evaluation decides for it.
LEMMA EvaluatesToGoal ==
    ASSUME TypeInv, EffectiveInv, Evaluate,
           \A rec \in Recent(history.recent \cup Seed, now, Window) : rec.replicas = load
    PROVE  job'.desired
             = Clamp(load, [min |-> job.observed.spec.min, max |-> job.observed.spec.max])
<1>1. job.pc = "evaluate"
  BY DEF Evaluate
<1>2. job \in Job
  BY <1>1, JobType DEF TypeInv
<1>3. WorkingReplicaPatch(now, job.patches) = {}
  BY <1>1 DEF EffectiveInv, Effective, WorkingReplicaPatch, GetReplicaPatch
<1>4. Limits = {[min |-> job.observed.spec.min, max |-> job.observed.spec.max]}
  BY <1>3 DEF Limits
<1>5. PICK m \in {load} \cup {rec.replicas : rec \in history.recent \cup Seed}, limits \in Limits :
        /\ IsMaxRecommendation(m, load, history.recent \cup Seed, now, Window)
        /\ \E conditions : job' = [job EXCEPT !.pc = "scale", !.desired = Clamp(m, limits),
                                              !.status.conditions = conditions]
  BY DEF Evaluate
<1>6. m = load
  BY <1>5 DEF IsMaxRecommendation
<1>7. job'.desired = Clamp(m, limits)
  BY <1>2, <1>5 DEF Job
<1>8. QED
  BY <1>4, <1>5, <1>6, <1>7

\* An evaluation that would need a seed comes no later than SeededBy.
LEMMA EvaluatedInTime ==
    ASSUME TypeInv, PassInv, SeedInv, job.pc = "evaluate", SeededBy < now
    PROVE  history.seeded
<1>1. ghost.disturbedAt < now /\ ghost.disturbedAt + DefaultScalingColdDown <= now
  BY SettlingTypes DEF DefaultScalingColdDown
<1>2. Autoscaled
  BY <1>1 DEF PassInv, TypeInv, EvaluatesAutoscaled, Autoscaled
<1>3. ~(now <= SeededBy)
  BY SettlingTypes
<1>4. QED
  BY <1>1, <1>2, <1>3 DEF SeedInv

LEMMA RecType ==
    ASSUME TypeInv, NEW rec \in history.recent
    PROVE  rec.timestamp \in Nat /\ rec.replicas \in Nat
BY BoundsAssumption DEF TypeInv, TypeOK, History, Recs, Recommendation, Times

LEMMA MemoryStep ==
    ASSUME Undelayed, TypeInv, LoopInv, EffectiveInv, PassInv, SeedInv, MemoryInv, [Next]_vars
    PROVE  MemoryInv'
<1>1. CASE Disturbing
  <2>1. now' = now /\ SeededBy' = now + 5 /\ ForgottenBy' = now + 5 + Window
    BY <1>1, DisturbingShape DEF SeededBy, ForgottenBy, Respite, DefaultScalingColdDown,
                                 RequeueDelayOnNormalState
  <2>2. history'.recent \subseteq history.recent
    BY <1>1, EditShape DEF Disturbing, ChangeLoad, ResizeTarget, Crash
  <2>3. \A rec \in history'.recent : rec.timestamp <= now' /\ ~(SeededBy' < rec.timestamp)
    BY <2>1, <2>2, RecType, SettlingTypes DEF MemoryInv
  <2>4. ~(ForgottenBy' < now')
    BY <2>1, SettlingTypes
  <2>5. QED
    BY <2>3, <2>4 DEF MemoryInv
<1>2. CASE Evaluate /\ ghost'.disturbedAt = ghost.disturbedAt
  <2>1. /\ job.pc = "evaluate" /\ job'.observed = job.observed /\ UNCHANGED <<now, load>>
        /\ SeededBy' = SeededBy /\ ForgottenBy' = ForgottenBy
    BY <1>2, EvaluationShape DEF SeededBy, ForgottenBy
  <2>2. history'.recent = history.recent \cup Seed \cup {[timestamp |-> now, replicas |-> load]}
    BY <1>2, EvaluateShape
  <2>3. \A rec \in history.recent \cup Seed :
          rec.timestamp <= now /\ (SeededBy < rec.timestamp => rec.replicas = load)
    <3>1. SUFFICES ASSUME NEW rec \in Seed
                   PROVE  rec.timestamp <= now /\ ~(SeededBy < rec.timestamp)
      BY DEF MemoryInv
    <3>2. rec.timestamp = now /\ ~history.seeded
      BY DEF Seed
    <3>3. QED
      BY <2>1, <3>2, EvaluatedInTime, SettlingTypes
  <2>4. \A rec \in history'.recent :
          rec.timestamp <= now' /\ (SeededBy' < rec.timestamp => rec.replicas = load')
    BY <2>1, <2>2, <2>3, SettlingTypes
  <2>5. ASSUME ForgottenBy < now
        PROVE  job'.desired
                 = Clamp(load, [min |-> job.observed.spec.min, max |-> job.observed.spec.max])
    <3>1. \A rec \in Recent(history.recent \cup Seed, now, Window) : rec.replicas = load
      <4>1. SUFFICES ASSUME NEW rec \in history.recent \cup Seed, ~IsOld(rec, now, Window)
                     PROVE  rec.replicas = load
        BY DEF Recent
      <4>2. rec.timestamp \in Int
        BY RecType, SettlingTypes DEF Seed
      <4>3. SeededBy < rec.timestamp
        BY <2>5, <4>1, <4>2, SettlingTypes DEF IsOld
      <4>4. QED
        BY <2>3, <4>3
    <3>2. QED
      BY <1>2, <3>1, EvaluatesToGoal
  <2>6. QED
    BY <2>1, <2>4, <2>5 DEF MemoryInv
<1>3. CASE Tick /\ ghost'.disturbedAt = ghost.disturbedAt
  <2>1. now' = now + 1 /\ job'.pc = "idle" /\ load' = load /\ SeededBy' = SeededBy
    BY <1>3 DEF Tick, Undelayed, Quiet, SeededBy
  <2>2. history'.recent \subseteq history.recent
    BY <1>3, TickForgets DEF Recent
  <2>3. QED
    BY <2>1, <2>2, RecType, SettlingTypes DEF MemoryInv
<1>4. CASE /\ ~Evaluate /\ ~Tick /\ ~Disturbing
           /\ ghost'.disturbedAt = ghost.disturbedAt
  <2>1. /\ UNCHANGED <<now, load, history>>
        /\ SeededBy' = SeededBy /\ ForgottenBy' = ForgottenBy
    BY <1>4, UndelayedCases, CalmKeeps DEF SeededBy, ForgottenBy
  <2>2. \/ job' = job
        \/ job'.pc = "scale" => job'.observed.spec.min = Nil
    <3>1. CASE Beginning
      BY <3>1, BeginningShape
    <3>2. CASE ScaleNeedless \/ Scale \/ ScaleFails
      BY <3>2, ScalingShape
    <3>3. CASE PatchStep
      BY <3>3, PatchShape DEF NoJob
    <3>4. CASE CacheSync \/ TimerFires \/ TargetSync \/ UNCHANGED vars
      BY <3>4 DEF CacheSync, TimerFires, TargetSync, vars
    <3>5. QED
      BY <1>4, <3>1, <3>2, <3>3, <3>4, UndelayedCases
  <2>3. QED
    BY <2>1, <2>2 DEF MemoryInv
<1>5. QED
  BY <1>1, <1>2, <1>3, <1>4, UndelayedCases

\* What a pass is about to scale to when the rest is forgotten.
LEMMA ScalesToGoal ==
    ASSUME TypeInv, PassInv, MemoryInv, job.pc = "scale", ForgottenBy < now, obj.spec.min # Nil
    PROVE  job.desired = Goal
<1>1. ghost.disturbedAt < now
  BY SettlingTypes
<1>2. job.observed.spec = obj.spec
  BY <1>1 DEF PassInv
<1>3. QED
  BY <1>2 DEF MemoryInv, Goal

\* A step that is no disturbance leaves a stamp with what it says.
LEMMA StampKept ==
    ASSUME Undelayed, TypeInv, LoopInv, EffectiveInv, PassInv, MemoryInv, [Next]_vars, ~Disturbing,
           NEW stamp \in Times \cup {Nil}, StampInv(stamp), stamp # Nil
    PROVE  /\ stamp <= now'
           /\ (ghost'.disturbedAt < stamp /\ obj'.spec.min # Nil) => history'.seeded
           /\ (ForgottenBy' < stamp /\ obj'.spec.min # Nil) => target'.replicas = Goal'
<1>1. stamp \in Int /\ stamp <= now
  BY DEF Times, StampInv
<1>2. ghost'.disturbedAt = ghost.disturbedAt /\ ForgottenBy' = ForgottenBy
  BY UndelayedCases DEF ForgottenBy, SeededBy
<1>3. obj'.spec = obj.spec /\ Goal' = Goal
  BY UndelayedCases, CalmKeeps DEF Goal
<1>4. stamp <= now'
  <2>1. CASE Tick
    BY <1>1, <2>1, TickForgets, SettlingTypes
  <2>2. CASE ~Tick
    BY <1>1, <2>2, UndelayedCases, CalmKeeps
  <2>3. QED
    BY <2>1, <2>2
<1>5. history.seeded => history'.seeded
  BY UndelayedCases, CalmKeeps, EvaluationShape
<1>6. ASSUME ForgottenBy < stamp, obj.spec.min # Nil
      PROVE  target'.replicas = Goal
  <2>1. target.replicas = Goal
    BY <1>6 DEF StampInv
  <2>2. CASE Scale
    <3>1. ForgottenBy < now
      BY <1>1, <1>6, SettlingTypes
    <3>2. job.pc = "scale" /\ target'.replicas = job.desired
      BY <2>2, UpdateEndsPass
    <3>3. QED
      BY <1>6, <3>1, <3>2, ScalesToGoal
  <2>3. CASE ~Scale
    BY <2>1, <2>3, UndelayedCases, CalmKeeps
  <2>4. QED
    BY <2>2, <2>3
<1>7. QED
  BY <1>2, <1>3, <1>4, <1>5, <1>6 DEF StampInv

\* The stamp of the pass after a step of it.
LEMMA PassStamp ==
    ASSUME Undelayed, TypeInv, LoopInv, EffectiveInv, [Next]_vars, ~Disturbing, job'.pc # "idle"
    PROVE  \/ Beginning /\ job'.status.lastScaleTime = cache.status.lastScaleTime
           \/ job.pc # "idle" /\ job'.status.lastScaleTime = job.status.lastScaleTime
           \/ Scale /\ job'.status.lastScaleTime = now
<1>1. TypeOK
  BY DEF TypeInv
<1>2. CASE Beginning
  BY <1>2, BeginStamp DEF Beginning
<1>3. CASE Evaluate
  BY <1>1, <1>3, EvaluateStamp DEF Evaluate
<1>4. CASE ScaleNeedless
  BY <1>1, <1>4, ScaledStamp, DecidedStamp, DecidedType DEF ScaleNeedless
<1>5. CASE ScaleFails
  BY <1>1, <1>5, FailedToScaleStamp DEF ScaleFails, MustScale
<1>6. CASE Scale
  BY <1>1, <1>6, ScaledStamp, DecidedStamp, DecidedType DEF Scale, MustScale
<1>7. CASE PatchStep
  BY <1>7, PatchShape DEF NoJob
<1>8. CASE CacheSync \/ TimerFires \/ TargetSync \/ Tick \/ UNCHANGED vars
  BY <1>8 DEF CacheSync, TimerFires, TargetSync, Tick, vars
<1>9. QED
  BY <1>2, <1>3, <1>4, <1>5, <1>6, <1>7, <1>8, UndelayedCases

LEMMA SettlingStampsStep ==
    ASSUME Undelayed, TypeInv, LoopInv, EffectiveInv, PassInv, MemoryInv, StampsInv, [Next]_vars
    PROVE  StampsInv'
<1>1. TypeOK /\ obj \in Object
  BY DEF TypeInv, TypeOK
<1>2. /\ obj.status.lastScaleTime \in Times \cup {Nil}
      /\ cache.status.lastScaleTime \in Times \cup {Nil}
      /\ job.pc # "idle" => job.status.lastScaleTime \in Times \cup {Nil}
  BY <1>1, StampType
<1>3. CASE Disturbing
  <2>1. now' = now /\ ghost'.disturbedAt = now /\ ForgottenBy' = now + 5 + Window
    BY <1>3, DisturbingShape DEF SeededBy, ForgottenBy, Respite, DefaultScalingColdDown,
                                 RequeueDelayOnNormalState
  <2>2. ASSUME NEW stamp \in Times \cup {Nil}, stamp # Nil, stamp <= now
        PROVE  stamp <= now' /\ ~(ghost'.disturbedAt < stamp) /\ ~(ForgottenBy' < stamp)
    <3>1. stamp \in Int
      BY <2>2 DEF Times
    <3>2. QED
      BY <2>1, <2>2, <3>1, SettlingTypes
  <2>3. obj'.status.lastScaleTime \in {obj.status.lastScaleTime, Nil}
    <3>1. CASE EditStep /\ ~Recreate
      BY <1>1, <3>1 DEF EditStep, EditSpec, Annotate, SetDryRun, Delete, Object
    <3>2. CASE Recreate
      BY <3>2 DEF Recreate, FreshObject, NoStatus
    <3>3. CASE ChangeLoad \/ ResizeTarget \/ Crash
      BY <3>3 DEF ChangeLoad, ResizeTarget, Crash
    <3>4. QED
      BY <1>3, <3>1, <3>2, <3>3 DEF Disturbing
  <2>4. /\ cache' = cache \/ cache' = obj
        /\ (job' = job /\ history' = history) \/ job'.pc = "idle"
    <3>1. CASE EditStep
      BY <3>1, EditShape
    <3>2. CASE ChangeLoad \/ ResizeTarget \/ Crash
      BY <3>2 DEF ChangeLoad, ResizeTarget, Crash, NoJob
    <3>3. QED
      BY <1>3, <3>1, <3>2 DEF Disturbing
  <2>5. StampInv(obj.status.lastScaleTime)'
    BY <1>2, <2>2, <2>3 DEF StampsInv, StampInv
  <2>6. StampInv(cache.status.lastScaleTime)'
    BY <1>2, <2>2, <2>4 DEF StampsInv, StampInv
  <2>7. job'.pc # "idle" => StampInv(job.status.lastScaleTime)'
    BY <1>2, <2>2, <2>4 DEF StampsInv, StampInv
  <2>8. QED
    BY <2>4, <2>5, <2>6, <2>7 DEF StampsInv
<1>4. CASE ~Disturbing
  <2>1. obj'.status.lastScaleTime = obj.status.lastScaleTime
        \/ (job.pc # "idle" /\ obj'.status.lastScaleTime = job.status.lastScaleTime)
    <3>1. CASE PatchStep
      BY <1>1, <3>1, PatchShape, PatchedStamp
    <3>2. CASE Beginning \/ Evaluate \/ ScaleNeedless \/ Scale \/ ScaleFails
      BY <3>2, DelayShort
    <3>3. CASE CacheSync \/ TimerFires \/ TargetSync \/ Tick \/ UNCHANGED vars
      BY <3>3 DEF CacheSync, TimerFires, TargetSync, Tick, vars
    <3>4. QED
      BY <1>4, <3>1, <3>2, <3>3, UndelayedCases
  <2>2. cache' = cache \/ cache' = obj
    <3>1. CASE PatchStep
      BY <3>1, PatchShape
    <3>2. CASE Beginning \/ Evaluate \/ ScaleNeedless \/ Scale \/ ScaleFails
      BY <3>2, DelayShort
    <3>3. CASE CacheSync \/ TimerFires \/ TargetSync \/ Tick \/ UNCHANGED vars
      BY <3>3 DEF CacheSync, TimerFires, TargetSync, Tick, vars
    <3>4. QED
      BY <1>4, <3>1, <3>2, <3>3, UndelayedCases
  <2>3. StampInv(obj.status.lastScaleTime)'
    BY <1>2, <1>4, <2>1, StampKept DEF StampsInv, StampInv
  <2>4. StampInv(cache.status.lastScaleTime)'
    BY <1>2, <1>4, <2>2, StampKept DEF StampsInv, StampInv
  <2>5. ASSUME job'.pc # "idle" PROVE StampInv(job.status.lastScaleTime)'
    <3>1. CASE Scale /\ job'.status.lastScaleTime = now
      <4>1. /\ job.pc = "scale" /\ target'.replicas = job.desired
            /\ obj'.spec = obj.spec /\ now' = now /\ history' = history /\ Goal' = Goal
        BY <3>1, UpdateEndsPass, ScalingShape DEF Goal
      <4>2. ghost'.disturbedAt = ghost.disturbedAt /\ ForgottenBy' = ForgottenBy
        BY <1>4, UndelayedCases DEF ForgottenBy, SeededBy
      <4>3. ASSUME ghost.disturbedAt < now, obj.spec.min # Nil PROVE history.seeded
        BY <4>1, <4>3 DEF PassInv, StampsInv
      <4>4. ASSUME ForgottenBy < now, obj.spec.min # Nil PROVE job.desired = Goal
        BY <4>1, <4>4, ScalesToGoal
      <4>5. now <= now
        BY SettlingTypes
      <4>6. QED
        BY <3>1, <4>1, <4>2, <4>3, <4>4, <4>5 DEF StampInv
    <3>2. CASE job'.status.lastScaleTime = cache.status.lastScaleTime
      BY <1>2, <1>4, <3>2, StampKept DEF StampsInv, StampInv
    <3>3. CASE job.pc # "idle" /\ job'.status.lastScaleTime = job.status.lastScaleTime
      BY <1>2, <1>4, <3>3, StampKept DEF StampsInv, StampInv
    <3>4. QED
      BY <1>4, <2>5, <3>1, <3>2, <3>3, PassStamp
  <2>6. ASSUME job'.pc = "scale", job'.observed.spec.min # Nil PROVE history'.seeded
    <3>1. CASE Beginning
      BY <2>6, <3>1, BeginningShape
    <3>2. CASE Evaluate
      BY <3>2, EvaluationShape
    <3>3. CASE ScaleNeedless \/ Scale \/ ScaleFails
      BY <2>6, <3>3, ScalingShape
    <3>4. CASE PatchStep
      BY <2>6, <3>4, PatchShape DEF NoJob
    <3>5. CASE CacheSync \/ TimerFires \/ TargetSync \/ Tick \/ UNCHANGED vars
      <4>1. job' = job
        BY <3>5 DEF CacheSync, TimerFires, TargetSync, Tick, vars
      <4>2. ~Evaluate
        BY <2>6, <4>1 DEF Evaluate
      <4>3. QED
        BY <2>6, <3>5, <4>1, <4>2, CalmKeeps DEF StampsInv
    <3>6. QED
      BY <1>4, <3>1, <3>2, <3>3, <3>4, <3>5, UndelayedCases
  <2>7. QED
    BY <2>3, <2>4, <2>5, <2>6 DEF StampsInv
<1>5. QED
  BY <1>3, <1>4

LEMMA GoalStep ==
    ASSUME Undelayed, TypeInv, LoopInv, EffectiveInv, RestInv, PassInv, StampsInv, MemoryInv,
           GoalInv, [Next]_vars
    PROVE  GoalInv'
<1>1. SUFFICES ASSUME ForgottenBy' + DefaultScalingColdDown <= now', Autoscaled',
                      target'.replicas # Goal'
               PROVE  FirstAttempt' \/ LastAttempt'
  BY DEF GoalInv
<1> DEFINE first == ForgottenBy + Respite
           last == ForgottenBy + Respite + RequeueDelayOnErrorState
<1>2. ~Disturbing
  BY <1>1, DisturbingShape, SettlingTypes
     DEF DefaultScalingColdDown, ForgottenBy, SeededBy, Respite, RequeueDelayOnNormalState
<1>3. /\ ghost'.disturbedAt = ghost.disturbedAt /\ ForgottenBy' = ForgottenBy
      /\ first' = first /\ last' = last
  BY <1>2, UndelayedCases DEF SeededBy, ForgottenBy
<1>4. /\ ForgottenBy \in Int /\ first \in Int /\ last \in Int
      /\ first = ForgottenBy + 5 /\ last = ForgottenBy + 7
  BY SettlingTypes DEF RequeueDelayOnErrorState
<1>5. Autoscaled /\ Goal' = Goal /\ (~Tick => now' = now)
  BY <1>1, <1>2, UndelayedCases, CalmKeeps DEF Autoscaled, Goal
<1>6. CASE Tick
  <2>1. /\ now' = now + 1 /\ job.pc = "idle" /\ ~queued /\ ~stale /\ (timer # Nil => timer > now)
        /\ UNCHANGED <<timer, target, moved>>
    BY <1>6 DEF Tick, Undelayed, Quiet
  <2>2. timer # Nil /\ timer \in Int /\ timer <= now + RequeueDelayOnNormalState
    BY <1>5, <2>1, SettlingTypes DEF RestInv, Autoscaled
  <2>3. CASE now = ForgottenBy + 1
    <3>1. timer <= first
      BY <1>4, <2>2, <2>3 DEF RequeueDelayOnNormalState
    <3>2. now' <= first
      BY <1>4, <2>1, <2>3
    <3>3. QED
      BY <1>3, <2>1, <2>2, <3>1, <3>2 DEF FirstAttempt, Due
  <2>4. CASE ForgottenBy + DefaultScalingColdDown <= now
    <3>1. FirstAttempt \/ LastAttempt
      BY <1>1, <1>5, <2>1, <2>4 DEF GoalInv
    <3>2. CASE FirstAttempt
      <4>1. timer <= first
        BY <2>1, <3>2 DEF FirstAttempt, Due
      <4>2. now' <= first
        BY <1>4, <2>1, <2>2, <4>1, SettlingTypes
      <4>3. QED
        BY <1>3, <2>1, <2>2, <4>1, <4>2 DEF FirstAttempt, Due
    <3>3. CASE LastAttempt
      <4>1. timer <= last
        BY <2>1, <3>3 DEF LastAttempt, Due
      <4>2. now' <= last
        BY <1>4, <2>1, <2>2, <4>1, SettlingTypes
      <4>3. QED
        BY <1>3, <2>1, <2>2, <3>3, <4>1, <4>2 DEF LastAttempt, Due
    <3>4. QED
      BY <3>1, <3>2, <3>3
  <2>5. QED
    BY <1>1, <1>3, <1>4, <2>1, <2>3, <2>4, SettlingTypes DEF DefaultScalingColdDown
<1>7. CASE ~Tick
  <2>1. now' = now /\ ForgottenBy + DefaultScalingColdDown <= now /\ ForgottenBy < now
        /\ ghost.disturbedAt < now
    BY <1>1, <1>3, <1>4, <1>5, <1>7, SettlingTypes DEF DefaultScalingColdDown
  <2>2. job.pc = "scale" => job.desired = Goal
    BY <1>5, <2>1, ScalesToGoal DEF Autoscaled
  <2>3. ~Scale
    BY <1>1, <1>5, <2>2, UpdateEndsPass
  <2>4. target.replicas # Goal
    BY <1>1, <1>2, <1>5, <2>3, UndelayedCases, CalmKeeps
  <2>5. FirstAttempt \/ LastAttempt
    BY <1>5, <2>1, <2>4 DEF GoalInv
  <2>6. CASE Beginning
    <3>1. obj.status.lastScaleTime # Nil => obj.status.lastScaleTime <= ForgottenBy
      BY <1>4, <1>5, <2>4, StampType DEF StampsInv, StampInv, Autoscaled, TypeInv, Times
    <3>2. job'.pc = "evaluate" /\ UNCHANGED <<target, moved>>
      BY <1>4, <1>5, <2>1, <2>6, <3>1, PastColdDown, BeginningShape
    <3>3. QED
      BY <1>3, <2>1, <2>5, <3>2 DEF FirstAttempt, LastAttempt, Due
  <2>7. CASE Evaluate
    <3>1. job'.pc = "scale" /\ UNCHANGED <<target, moved>>
      BY <2>7, EvaluationShape
    <3>2. QED
      BY <1>3, <2>1, <2>5, <3>1 DEF FirstAttempt, LastAttempt, Due
  <2>8. ~ScaleNeedless
    <3>1. ScaleNeedless => job.pc = "scale" /\ job.scale.replicas = job.desired
      BY DEF ScaleNeedless
    <3>2. QED
      BY <2>1, <2>2, <2>4, <3>1 DEF PassInv
  <2>9. CASE ScaleFails /\ moved
    <3>1. /\ job'.pc = "patch" /\ job'.delay = RequeueDelayOnErrorState
          /\ target' = target /\ moved' = FALSE
      BY <2>3, <2>9, DelayShort, ScalingShape
    <3>2. FirstAttempt
      BY <2>5, <2>9 DEF LastAttempt
    <3>3. target.observed = target.replicas
      BY <2>1, <2>9 DEF PassInv
    <3>4. now' <= last /\ now' + job'.delay <= last /\ job'.delay # NotRequeue
      BY <1>4, <2>1, <3>1, <3>2, SettlingTypes
         DEF FirstAttempt, RequeueDelayOnErrorState, NotRequeue
    <3>5. QED
      BY <1>3, <3>1, <3>3, <3>4 DEF LastAttempt
  <2>10. CASE PatchStep \/ CacheSync \/ TimerFires \/ TargetSync \/ UNCHANGED vars
    <3>1. CASE job.pc \in {"evaluate", "scale"}
      <4>1. job'.pc = job.pc
        BY <2>10, <3>1, PatchShape DEF CacheSync, TimerFires, TargetSync, vars
      <4>2. LastAttempt => ~TargetSync
        BY DEF LastAttempt, TargetSync
      <4>3. UNCHANGED <<target, moved>> \/ TargetSync
        BY <2>10, PatchShape DEF CacheSync, TimerFires, vars
      <4>4. QED
        BY <1>3, <2>1, <2>5, <3>1, <4>1, <4>2, <4>3 DEF FirstAttempt, LastAttempt, Due
    <3>2. CASE FirstAttempt /\ job.pc \notin {"evaluate", "scale"}
      <4>1. stale' \/ queued' \/ (timer' # Nil /\ timer' <= first)
        BY <1>4, <2>10, <3>2, DueKept DEF FirstAttempt, Due
      <4>2. QED
        BY <1>3, <2>1, <3>2, <4>1 DEF FirstAttempt, Due
    <3>3. CASE LastAttempt /\ job.pc \notin {"evaluate", "scale"}
      <4>1. ~TargetSync
        BY <3>3 DEF LastAttempt, TargetSync
      <4>2. UNCHANGED <<target, moved>>
        BY <2>10, <4>1, PatchShape DEF CacheSync, TimerFires, vars
      <4>3. stale' \/ queued' \/ (timer' # Nil /\ timer' <= last)
            \/ (job'.pc = "patch" /\ job' = job /\ now' = now)
        <5>1. CASE Due(last, {"evaluate", "scale"})
          BY <1>4, <2>10, <3>3, <5>1, DueKept DEF Due
        <5>2. CASE ~Due(last, {"evaluate", "scale"}) /\ PatchStep
          <6>1. /\ job.pc = "patch" /\ job.delay # NotRequeue /\ now + job.delay <= last
            BY <3>3, <5>2 DEF LastAttempt
          <6>2. job.delay \in Nat /\ TypeOK
            BY <6>1, JobType DEF TypeInv
          <6>3. RequeueAfter(job.delay)
            BY <1>5, <5>2, PatchOutcome DEF Autoscaled, Undelayed
          <6>4. timer' # Nil /\ timer' <= now + job.delay /\ timer' \in Int
            BY <6>1, <6>2, <6>3, RequeueBounds, SettlingTypes
          <6>5. QED
            BY <1>4, <6>1, <6>2, <6>4, SettlingTypes
        <5>3. CASE ~Due(last, {"evaluate", "scale"}) /\ ~PatchStep
          <6>1. job' = job
            BY <2>10, <5>3 DEF CacheSync, TimerFires, TargetSync, vars
          <6>2. job.pc = "patch"
            BY <3>3, <5>3 DEF LastAttempt
          <6>3. QED
            BY <2>1, <6>1, <6>2
        <5>4. QED
          BY <5>1, <5>2, <5>3
      <4>4. CASE stale' \/ queued' \/ (timer' # Nil /\ timer' <= last)
        BY <1>3, <2>1, <3>3, <4>2, <4>4 DEF LastAttempt, Due
      <4>5. CASE job'.pc = "patch" /\ job' = job /\ now' = now /\ ~Due(last, {"evaluate", "scale"})
        BY <1>3, <3>3, <4>2, <4>5 DEF LastAttempt
      <4>6. CASE job'.pc = "patch" /\ job' = job /\ now' = now /\ Due(last, {"evaluate", "scale"})
        <5>1. stale' \/ queued' \/ (timer' # Nil /\ timer' <= last)
          BY <1>4, <2>10, <3>3, <4>6, DueKept DEF Due
        <5>2. QED
          BY <4>4, <5>1
      <4>7. QED
        BY <4>3, <4>4, <4>5, <4>6
    <3>4. QED
      BY <2>5, <3>1, <3>2, <3>3
  <2>11. QED
    BY <1>2, <1>7, <2>3, <2>6, <2>7, <2>8, <2>9, <2>10, UndelayedCases
<1>8. QED
  BY <1>6, <1>7

\* Where nothing delays the loop, it settles in time: a change of load or spec, somebody
\* else's scaling of the target, a crash of the controller at any point of a pass or a
\* deletion and new creation of the autoscaler is answered within the stabilization window
\* and twice the cold-down and the normal requeue period, for every window, load and spec.
\* From then on the target has what the load asks for.
THEOREM LoopSettles == Undelayed => (Spec => []SettlesInTime)
<1> SUFFICES ASSUME Undelayed PROVE Spec => []SettlesInTime
  OBVIOUS
<1> DEFINE IInv == /\ LoopInv /\ EffectiveInv /\ RestInv /\ PassInv
                   /\ StampsInv /\ SeedInv /\ MemoryInv /\ GoalInv
<1>1. Init => IInv
  <2> SUFFICES ASSUME Init PROVE IInv
    OBVIOUS
  <2>1. /\ now = 0 /\ cache = obj /\ ~stale /\ queued /\ timer = Nil /\ job.pc = "idle" /\ ~moved
        /\ obj.status.lastScaleTime = Nil /\ history.recent = {} /\ ghost.disturbedAt = 0
        /\ target.exists
    BY DEF Init, FreshObject, NoStatus, NoJob
  <2>2. LoopInv
    BY <2>1 DEF LoopInv, CacheFresh, PassFresh, NoRequeueOnPurpose, RestsOnPurpose
  <2>3. obj.dryRun \in DryRuns /\ obj.patches \in Annotations
    BY DEF Init, FreshObject
  <2>4. EffectiveInv
    BY <2>1, <2>3 DEF EffectiveInv, Effective, Undelayed
  <2>5. RestInv /\ PassInv
    BY <2>1 DEF RestInv, PassInv
  <2>6. StampsInv
    BY <2>1 DEF StampsInv, StampInv
  <2>7. SeedInv /\ GoalInv
    BY <2>1, BoundsAssumption DEF SeedInv, GoalInv, ForgottenBy, SeededBy, Respite,
           DefaultScalingColdDown, RequeueDelayOnNormalState
  <2>8. MemoryInv
    BY <2>1 DEF MemoryInv
  <2>9. QED
    BY <2>2, <2>4, <2>5, <2>6, <2>7, <2>8
<1>2. TypeInv /\ IInv /\ [Next]_vars => IInv'
  BY LoopStep, EffectiveStep, RestStep, PassStep, SettlingStampsStep, SeedStep, MemoryStep, GoalStep
<1>3. TypeInv /\ IInv => SettlesInTime
  <2> SUFFICES ASSUME TypeInv, IInv, Quiet, Autoscaled, target.replicas # Goal,
                      now - ghost.disturbedAt >= SettlingTime
               PROVE  FALSE
    BY DEF SettlesInTime, Autoscaled
  <2>1. ForgottenBy \in Int /\ ForgottenBy + 7 <= now
    BY SettlingTypes DEF SettlingTime, DefaultScalingColdDown, RequeueDelayOnNormalState
  <2>2. FirstAttempt \/ LastAttempt
    BY <2>1, SettlingTypes DEF GoalInv, DefaultScalingColdDown
  <2>3. job.pc = "idle" /\ ~queued /\ ~stale /\ (timer # Nil => timer > now)
    BY DEF Quiet
  <2>4. CASE FirstAttempt
    BY <2>1, <2>4, SettlingTypes DEF FirstAttempt
  <2>5. CASE LastAttempt
    BY <2>1, <2>3, <2>5, SettlingTypes DEF LastAttempt, Due, RequeueDelayOnErrorState
  <2>6. QED
    BY <2>2, <2>4, <2>5
<1> HIDE DEF IInv
<1>4. QED
  BY <1>1, <1>2, <1>3, TypeInvariant, PTL DEF Spec
=============================================================================
