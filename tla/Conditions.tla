----------------------------- MODULE Conditions -----------------------------
(***************************************************************************)
(* The status conditions of a ReplicaAutoscaler (api/v1/condition.go) and  *)
(* the panic mode that is read off them (utils/panicmode.go).  A list of   *)
(* conditions holds at most one entry of a type, so it is a function of    *)
(* the type; a type that is not in the list has the status "Absent".       *)
(***************************************************************************)
EXTENDS Integers

CONSTANT Nil   \* a nil pointer, the zero time

ConditionTypes == {"Ready", "PanicMode", "ReplicaPatched", "ScaleLimited", "Exhausted"}

Statuses == {"Absent", "Unknown", "True", "False"}

Reasons == {"", "FailedToGetScaleTarget", "FailedToScale", "ScalerNotExists",
            "ReplicatorNotExists", "NoPatch", "Applied", "ReachMaxReplicas",
            "ReachMinimalReplicas", "ExhaustedOnPending"}

Conditions(times) ==
    [ConditionTypes -> [status : Statuses, reason : Reasons, since : times \cup {Nil}]]

\* The empty list.
NoConditions ==
    [t \in ConditionTypes |-> [status |-> "Absent", reason |-> "", since |-> Nil]]

\* InitializeConditions puts an Unknown Ready into an empty list.
Initialized(conditions) ==
    IF conditions = NoConditions
    THEN [conditions EXCEPT !["Ready"] =
             [status |-> "Unknown", reason |-> "", since |-> Nil]]
    ELSE conditions

\* LastTransitionTime moves only when the status or the reason changes; an
\* appended condition starts now.
SetCondition(conditions, type, status, reason, now) ==
    LET before == Initialized(conditions)
        same   == before[type].status = status /\ before[type].reason = reason
    IN  [before EXCEPT ![type] =
            [status |-> status, reason |-> reason,
             since |-> IF same THEN before[type].since ELSE now]]

GetCondition(conditions, type) == Initialized(conditions)[type]

-----------------------------------------------------------------------------
\* A strategy is Nil or has a threshold (in percent) and a window (in ticks),
\* each of which may be Nil.
IsPanicModeConfigured(strategy) ==
    strategy # Nil /\ strategy.threshold # Nil /\ strategy.window # Nil

\* desired / current >= threshold, and any start from zero.
ShouldEnterPanicMode(desired, current, strategy) ==
    /\ IsPanicModeConfigured(strategy)
    /\ desired # 0
    /\ \/ current = 0
       \/ desired * 100 >= strategy.threshold * current

StillInPanicMode(conditions, strategy, now) ==
    /\ IsPanicModeConfigured(strategy)
    /\ GetCondition(conditions, "PanicMode").status = "True"
    /\ now - GetCondition(conditions, "PanicMode").since < strategy.window
=============================================================================
