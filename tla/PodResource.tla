---------------------------- MODULE PodResource ----------------------------
(***************************************************************************)
(* utils/scalerprovider/podresource and utils/metrics/utilization.go: the  *)
(* replicas the cpu and memory scalers ask for, from the pods of the       *)
(* lister and the samples of the metrics API.  And the exhaustion check of *)
(* the controller, which counts the pending ones among the same pods.      *)
(***************************************************************************)
EXTENDS Totals

CONSTANTS InitializationPeriod,\* possibleInitializationPeriod, 10 seconds
          ReadinessDelay,      \* delayOfInitialReadinessStatus, 3 seconds
          MetricWindow,        \* PodMetric.Window
          Toleration           \* UtilizationToleration in percent

ASSUME PeriodsAssumption ==
    InitializationPeriod \in Nat /\ ReadinessDelay \in Nat /\ MetricWindow \in Nat
\* Config.Validate.
ASSUME TolerationAssumption == Toleration \in 5..100

\* What the code reads of a pod: when it was created and started, its Ready condition, if
\* it has one, and since when that has its status.  A pod that runs has a start time.
Pod(times) == [phase : {"Pending", "Running", "Failed"}, deleting : BOOLEAN, born : times,
               start : times, ready : {"True", "False", "None"}, since : times]

PodMetric(times) == [timestamp : times, value : Nat]

-----------------------------------------------------------------------------
(* groupPods                                                               *)

IsIgnored(pod) == pod.deleting \/ pod.phase = "Failed"

\* The sample of a pod that is still starting does not count.
IsUnready(pod, metric, now) ==
    \/ pod.ready = "None"
    \/ /\ pod.start + InitializationPeriod > now
       /\ pod.ready = "False" \/ metric.timestamp < pod.since + MetricWindow
    \/ /\ pod.start + InitializationPeriod <= now
       /\ pod.ready = "False" /\ pod.start + ReadinessDelay > pod.since

groupPods(pods, metrics, resource, now) ==
    LET live    == {p \in DOMAIN pods : ~IsIgnored(pods[p])}
        pending == {p \in live : pods[p].phase = "Pending"}
        missing == {p \in live \ pending : p \notin DOMAIN metrics}
        early   == {p \in live \ (pending \cup missing) :
                       resource = "cpu" /\ IsUnready(pods[p], metrics[p], now)}
    IN  [ignored |-> DOMAIN pods \ live, missing |-> missing, unready |-> pending \cup early,
         ready   |-> live \ (pending \cup missing \cup early)]

-----------------------------------------------------------------------------
(* The ratio                                                               *)

\* GetResourceUtilizationRatio: in whole percent of the requests of the pods that are
\* known; other samples are skipped.  No known pod, or none that requests anything, is
\* an error, here -1.
NoUtilization == -1
Utilization(values, requests) ==
    LET known == DOMAIN values \cap DOMAIN requests
    IN  IF Total(requests, known) = 0 THEN NoUtilization
        ELSE (Total(values, known) * 100) \div Total(requests, known)

\* The ratio utilization / target is within the toleration of 1.
IsTolerated(utilization, target) ==
    LET gap == IF utilization < target THEN target - utilization ELSE utilization - target
    IN  target > 0 /\ 100 * gap <= Toleration * target

\* int32(math.Ceil(ratio * count)).  A target of 0 makes the ratio infinite, or no
\* number, and the conversion depends on the platform.
Converted(utilization, target, count) ==
    IF target = 0 THEN {-2147483647 - 1, 0, 2147483647}
    ELSE {(utilization * count + target - 1) \div target}

-----------------------------------------------------------------------------
(* tidyAndCalculateDesiredReplicas                                         *)

\* removeMetricsForPods, twice; samples of pods the lister does not know remain.
Measured(metrics, groups) ==
    [p \in DOMAIN metrics \ (groups.ignored \cup groups.unready) |-> metrics[p].value]

\* The entries of f, and those of g for other pods.
Over(f, g) ==
    [p \in DOMAIN f \cup DOMAIN g |-> IF p \in DOMAIN f THEN f[p] ELSE g[p]]

\* Mutant: a missing pod counts as idle when the target would be scaled down.
AssumedIdle(requests, missing, utilization, target) ==
    [p \in missing |-> 0]

\* Missing pods count as using all they request when the target would be scaled down,
\* as using nothing when it would be scaled up.
Assumed(requests, missing, utilization, target) ==
    IF utilization = target THEN <<>>
    ELSE [p \in missing |-> IF utilization < target THEN requests[p] ELSE 0]

\* Unready pods count as using nothing when the target would be scaled up.
Rebalanced(groups, utilization, target) == groups.unready # {} /\ utilization > target

\* The samples with what is assumed of the pods that have none.
Filled(measured, groups, requests, utilization, target) ==
    Over(IF Rebalanced(groups, utilization, target) THEN [p \in groups.unready |-> 0] ELSE <<>>,
         Over(Assumed(requests, groups.missing, utilization, target), measured))

\* Mutant: the number of samples may turn the direction around.
Redirected(n, utilization, target, current) == n

\* Mutant: what is returned is the change.
Change(n, utilization, target, current) == n - current

\* A change against the ratio is not made.
Directed(n, utilization, target, current) ==
    IF (utilization < target /\ n > current) \/ (utilization > target /\ n < current)
    THEN current ELSE n

\* calculatePodRequests fails if one of the listed pods, even an ignored one, has a
\* container without a request.
RequestsKnown(pods, requests) == DOMAIN pods \subseteq DOMAIN requests

\* The possible answers; none is an error.
tidyAndCalculateDesiredReplicas(metrics, pods, allRequests, resource, target, current, now) ==
    LET groups      == groupPods(pods, metrics, resource, now)
        requests    == [p \in DOMAIN pods |-> allRequests[p]]
        measured    == Measured(metrics, groups)
        utilization == Utilization(measured, requests)
        rebalance   == Rebalanced(groups, utilization, target)
        filled      == Filled(measured, groups, requests, utilization, target)
        again       == Utilization(filled, requests)
        turned      == \/ utilization < target /\ again > target
                       \/ utilization > target /\ again < target
    IN  IF ~RequestsKnown(pods, allRequests) THEN {}
        ELSE IF utilization = NoUtilization THEN {}
        ELSE IF ~rebalance /\ groups.missing = {}
             THEN IF IsTolerated(utilization, target) THEN {current}
                  ELSE Converted(utilization, target, Cardinality(groups.ready))
        ELSE IF IsTolerated(again, target) \/ turned THEN {current}
        ELSE {Directed(n, again, target, current) :
                 n \in Converted(again, target, Cardinality(DOMAIN filled))}

\* scaler.Get: without pods the replicas stay as they are, without samples there is an
\* error.  getPodMetrics has left out pods one of whose containers has no sample.
Get(metrics, pods, requests, resource, target, current, now) ==
    IF DOMAIN pods = {} THEN {current}
    ELSE IF DOMAIN metrics = {} THEN {}
    ELSE tidyAndCalculateDesiredReplicas(metrics, pods, requests, resource, target, current, now)

-----------------------------------------------------------------------------
(* updateExhaustedAutoscaler                                               *)

PendingPods(pods) == {p \in DOMAIN pods : pods[p].phase = "Pending"}

\* GetScaledValueFromIntOrPercent, rounded up.
NumberThreshold(threshold, replicas) ==
    IF threshold.percent THEN (threshold.number * replicas + 99) \div 100
    ELSE threshold.number

\* More pods are pending than the threshold allows, the oldest for longer than the
\* timeout.
IsExhausted(pods, threshold, timeout, replicas, now) ==
    /\ Cardinality(PendingPods(pods)) > NumberThreshold(threshold, replicas)
    /\ \E p \in PendingPods(pods) : now - pods[p].born > timeout
=============================================================================
