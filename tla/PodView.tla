------------------------------ MODULE PodView ------------------------------
(***************************************************************************)
(* The pods of one scale target as three parties see them: the API server, *)
(* the lister of the controller, which follows it with a delay, and the    *)
(* metrics API, which samples running pods now and then and forgets them   *)
(* late.  Passes of the controller read the two views and the replicas of  *)
(* the scale object.  Nothing keeps the views in step, so the cpu and      *)
(* memory scalers of PodResource meet every mixture of them.               *)
(***************************************************************************)
EXTENDS PodResource

CONSTANTS Names,           \* the pods there can ever be
          InitialSets,     \* which of them may run and be ready in the beginning
          Values,          \* of samples
          Requests,        \* what the pods request of each resource; a pod with a container
                           \* that requests none has no entry
          Targets,         \* the utilization in percent of the target's settings
          Threshold,       \* spec.exhaust.pending.threshold
          Timeout,         \* spec.exhaust.pending.timeoutSeconds
          MinReplicas, MaxReplicas,
          InitialTime, MaxTime,
          Events           \* bound on what happens to the pods and to their samples

ASSUME ViewAssumption ==
    /\ InitialSets \subseteq SUBSET Names /\ IsFiniteSet(Names)
    /\ \A r \in DOMAIN Requests : \A p \in DOMAIN Requests[r] : Requests[r][p] \in Nat
    /\ Values \subseteq Nat /\ Targets \subseteq Nat
    /\ Threshold.number \in Nat /\ Timeout \in Nat /\ MinReplicas \in Nat /\ MaxReplicas \in Nat
    /\ InitialTime \in 0..MaxTime /\ MaxTime \in Nat /\ Events \in Nat

VARIABLES pods,            \* in the API server
          listed,          \* in the cache of the PodLister
          metrics,         \* in the metrics API
          requests, resource, target, \* what is scaled and on what; constant
          replicas,        \* scale.spec.replicas
          currentReplicas, \* status.currentReplicas
          exhausted,       \* the Exhausted condition is true
          now, events

given == <<requests, resource, target>>
status == <<replicas, currentReplicas, exhausted>>
vars == <<pods, listed, metrics, given, status, now, events>>

Times == 0..MaxTime

Live(view) == {p \in DOMAIN view : ~IsIgnored(view[p])}

\* What the scaler answers now.
Answers == Get(metrics, listed, requests, resource, target, replicas, now)

-----------------------------------------------------------------------------
(* The cluster                                                             *)

Init ==
    /\ \E running \in InitialSets :
          /\ pods = [p \in running |-> [phase |-> "Running", deleting |-> FALSE, born |-> 0,
                                       start |-> 0, ready |-> "True", since |-> 0]]
          /\ \E v \in [running -> Values] :
                metrics = [p \in running |-> [timestamp |-> InitialTime, value |-> v[p]]]
    /\ listed = pods
    /\ resource \in DOMAIN Requests /\ requests = Requests[resource]
    /\ target \in Targets
    /\ replicas = Cardinality(DOMAIN pods) /\ currentReplicas = replicas
    /\ exhausted = FALSE
    /\ now = InitialTime
    /\ events = 0

Happens ==
    /\ events < Events /\ events' = events + 1
    /\ UNCHANGED <<listed, given, status, now>>

PodChanges(p, pod) ==
    /\ pods' = [pods EXCEPT ![p] = pod]
    /\ Happens /\ UNCHANGED metrics

\* The replica set fills up to the replicas.
CreatePod(p) ==
    /\ p \notin DOMAIN pods /\ Cardinality(Live(pods)) < replicas
    /\ pods' = [q \in DOMAIN pods \cup {p} |->
                   IF q # p THEN pods[q]
                   ELSE [phase |-> "Pending", deleting |-> FALSE, born |-> now,
                         start |-> now, ready |-> "None", since |-> now]]
    /\ Happens /\ UNCHANGED metrics

StartPod(p) ==
    /\ pods[p].phase = "Pending" /\ ~pods[p].deleting
    /\ PodChanges(p, [pods[p] EXCEPT !.phase = "Running", !.start = now,
                                     !.ready = "False", !.since = now])

FlipReady(p) ==
    /\ pods[p].phase = "Running"
    /\ PodChanges(p, [pods[p] EXCEPT !.ready = IF @ = "True" THEN "False" ELSE "True",
                                     !.since = now])

FailPod(p) ==
    /\ pods[p].phase = "Running"
    /\ PodChanges(p, [pods[p] EXCEPT !.phase = "Failed"])

DeletePod(p) ==
    /\ ~pods[p].deleting
    /\ PodChanges(p, [pods[p] EXCEPT !.deleting = TRUE])

\* After the grace period, which may be none.
RemovePod(p) ==
    /\ pods' = [q \in DOMAIN pods \ {p} |-> pods[q]]
    /\ Happens /\ UNCHANGED metrics

Scrape(p) ==
    /\ pods[p].phase = "Running"
    /\ \E v \in Values : metrics' = Over([q \in {p} |-> [timestamp |-> now, value |-> v]], metrics)
    /\ Happens /\ UNCHANGED pods

\* No sample, or none of one of the containers, which getPodMetrics leaves out.
LoseSample(p) ==
    /\ metrics' = [q \in DOMAIN metrics \ {p} |-> metrics[q]]
    /\ Happens /\ UNCHANGED pods

Cluster ==
    \/ \E p \in Names : CreatePod(p)
    \/ \E p \in DOMAIN pods : StartPod(p) \/ FlipReady(p) \/ FailPod(p) \/ DeletePod(p)
                              \/ RemovePod(p) \/ Scrape(p)
    \/ \E p \in DOMAIN metrics : LoseSample(p)

Tick ==
    /\ now < MaxTime /\ now' = now + 1
    /\ UNCHANGED <<pods, listed, metrics, given, status, events>>

-----------------------------------------------------------------------------
(* The controller                                                          *)

\* The watch delivers in order; how many changes at a time is up to it.
ListerSync ==
    /\ listed # pods /\ listed' = pods
    /\ UNCHANGED <<pods, metrics, given, status, now, events>>

\* updateExhaustedAutoscaler, with the currentReplicas of the pass before.
updateExhaustedAutoscaler ==
    exhausted' = IsExhausted(listed, Threshold, Timeout, currentReplicas, now)

\* Mutant: the replicas are only set when the status is new.
KeepCurrentReplicas == UNCHANGED currentReplicas

\* status.replicas of the scale object counts the pods that are not on their way out.
UpdateCurrentReplicas == currentReplicas' = Cardinality(Live(pods))

\* What the limits leave of the replicator's answer; the lower one wins.
WithinLimits == {MinReplicas} \cup (MinReplicas..MaxReplicas)

UpdateStatus == updateExhaustedAutoscaler /\ UpdateCurrentReplicas

\* One pass in which nothing but the scaler can fail.  Its reads are one step: the views
\* already lag behind each other as far as the reads could be apart.  The replicator
\* is free here to make anything of the answer.
Pass ==
    /\ UpdateStatus
    /\ IF Answers = {} THEN UNCHANGED replicas ELSE replicas' \in WithinLimits
    /\ UNCHANGED <<pods, listed, metrics, given, now, events>>

Next == Cluster \/ Tick \/ ListerSync \/ Pass

\* The watch goes on, and every pass asks for another one after some seconds; only a
\* pass updates the status.
Spec == /\ Init /\ [][Next]_vars
        /\ WF_vars(ListerSync) /\ WF_<<exhausted, currentReplicas>>(UpdateStatus)

-----------------------------------------------------------------------------
(* Properties                                                              *)

IsView(view) == DOMAIN view \subseteq Names /\ \A p \in DOMAIN view : view[p] \in Pod(Times)

WellTyped ==
    /\ IsView(pods) /\ IsView(listed)
    /\ DOMAIN metrics \subseteq Names
    /\ \A p \in DOMAIN metrics : metrics[p] \in PodMetric(Times)
    /\ resource \in DOMAIN Requests /\ requests = Requests[resource] /\ target \in Targets
    /\ replicas \in Nat /\ currentReplicas \in Nat /\ exhausted \in BOOLEAN
    /\ now \in Times /\ events \in 0..Events

\* Every variable has its type; a scaler with a target above 0 never asks for a negative
\* number of replicas.
TypeOK == WellTyped /\ (target > 0 => Answers \subseteq Nat)

\* The pods the lister knows of that should have a sample and have none, and all that
\* their samples could be.
MissingPods == groupPods(listed, metrics, resource, now).missing
Fillings ==
    LET usage == UNION {0..requests[p] : p \in MissingPods}
    IN  {[p \in MissingPods |-> [timestamp |-> now, value |-> v[p]]] :
            v \in {w \in [MissingPods -> usage] : \A p \in MissingPods : w[p] <= requests[p]}}

\* tidyAndCalculateDesiredReplicas errs on the careful side: whatever the missing samples
\* would have been, up to the whole request, with them the scaler would have asked for no
\* more when it scales down without them, and for no less when it scales up.  Samples
\* of pods the lister does not know spoil the second half, since they are counted.  A cpu
\* target above 100% spoils the first: a pod that is still starting would not be measured
\* at all then, which may be more than the 100% it is taken for.
MissingMetricsNeverMislead ==
    (target > 0 /\ RequestsKnown(listed, requests)) =>
    \A n \in Answers, filling \in Fillings :
        \A m \in Get(Over(filling, metrics), listed, requests, resource, target, replicas, now) :
            /\ n < replicas /\ (resource = "cpu" => target <= 100) => m <= n
            /\ n > replicas /\ DOMAIN metrics \subseteq DOMAIN listed => m >= n

\* A target used less than it should be is not scaled up, one used more is not scaled
\* down, however many samples are left over, filled in or thrown away; except that a
\* lister that knows too many pods, or too few, may turn the direction around.
DirectionKept ==
    LET groups      == groupPods(listed, metrics, resource, now)
        utilization == Utilization(Measured(metrics, groups),
                                   [p \in DOMAIN listed |-> requests[p]])
        known       == Cardinality(Live(listed))
    IN  (target > 0 /\ RequestsKnown(listed, requests) /\ utilization # NoUtilization) =>
        \A n \in Answers :
            /\ utilization < target /\ known <= replicas => n <= replicas
            /\ utilization > target /\ known >= replicas => n >= replicas

\* As many pods are pending as the threshold says, the oldest for as long as the timeout:
\* what IsExhausted says, or exactly at one of the limits.
AtExhaustion ==
    /\ Cardinality(PendingPods(pods)) >= NumberThreshold(Threshold, Cardinality(Live(pods)))
    /\ \E p \in PendingPods(pods) : now - pods[p].born >= Timeout

\* Once the pods settle, the Exhausted condition comes to say what is true of them and
\* stays so, although each pass decides it from a cache that lags and from the replicas
\* the pass before has written: true above the threshold and the timeout, false below
\* either.  Exactly at a limit nothing is claimed: the comparisons of the code are strict,
\* the API documentation has "not smaller" and "not shorter".
ExhaustionSettles ==
    <>[](/\ IsExhausted(pods, Threshold, Timeout, Cardinality(Live(pods)), now) => exhausted
         /\ exhausted => AtExhaustion)
=============================================================================
