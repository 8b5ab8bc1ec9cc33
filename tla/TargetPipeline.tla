--------------------------- MODULE TargetPipeline ---------------------------
(***************************************************************************)
(* The loop of reconcileAutoscaling over the targets of a spec: for each,  *)
(* the settings of the moment are taken from its schedules, its scaler is  *)
(* asked, writes its entry of status.targets (utils/status.go) and adds to *)
(* the outputs the replicator takes the maximum of.  A target whose        *)
(* settings are refused, whose scaler is unknown or fails, ends the pass;  *)
(* what was written to the status by then is kept.                         *)
(*                                                                         *)
(* The prometheus scaler, with its failure modes, and the rabbitmq scaler  *)
(* are modelled in full; a pod resource scaler (cpu, memory) by the        *)
(* outcomes it can have, which PodResource computes.                       *)
(***************************************************************************)
EXTENDS Schedules, RabbitMQ

CONSTANTS TargetLists,  \* what a user may put into spec.targets
          Scalers,      \* the scalers the engine has loaded
          Values,       \* what a prometheus query may return
          QueueStates,  \* what a broker may say of a queue
          PodAdvice,    \* what a pod resource scaler may ask for
          MinReplicas, MaxReplicas,\* the limits of the spec
          InitialReplicas,
          Toleration,   \* ScalerConfig.Toleration in percent
          Week,         \* ticks after which the firings of a cron spec repeat
          Changes,      \* bound on the changes of spec, values and outages
          Unset         \* no status has been stored

\* A target names its scaler and has settings with schedules.  `name` is the name of
\* its status entry; a prometheus target has one query of that name, a rabbitmq
\* target the queues its queue name matches.  The mode is part of that name for
\* rabbitmq, so that a schedule which overrides it belongs to another target here.
IsTarget(t) ==
    /\ IsScheduleList(t.settings.schedules, Week)
    /\ t.metric \in {"prometheus", "rabbitmq"} =>
          \A s \in PossibleSettings(t.settings) : s.threshold \in Int
    /\ t.metric = "prometheus" =>
          t.settings.default.mode \in {"FailAsError", "FailAsZero", "FailAsLastValue"}
    /\ t.metric = "rabbitmq" =>
          /\ t.settings.default.mode \in {"QueueLength", "MessageRate"}
          /\ t.settings.default.protocol \in {"http", "amqp"}
          /\ \A s \in PossibleSettings(t.settings) : s.type \in MessageTypes /\ s.regex \in BOOLEAN
          /\ IsFiniteSet(t.queues)
          /\ \A i \in DOMAIN t.settings.schedules :
                "mode" \notin DOMAIN t.settings.schedules[i].settings

ListedTargets == UNION {{list[i] : i \in DOMAIN list} : list \in TargetLists}

Names == {t.name : t \in ListedTargets}

\* What is queried under a name: the name itself, or the queues it matches.
Queries == {t.name : t \in {t \in ListedTargets : t.metric = "prometheus"}}

Queues == UNION {t.queues : t \in {t \in ListedTargets : t.metric = "rabbitmq"}}

ASSUME TargetsAssumption ==
    (\A list \in TargetLists : list \in Seq(ListedTargets)) /\ \A t \in ListedTargets : IsTarget(t)
\* A status name starts with the name of its scaler.
ASSUME NamesAssumption ==
    (\A t, u \in ListedTargets : t.name = u.name => t.metric = u.metric) /\ Unset \notin Nat
ASSUME ValuesAssumption ==
    Values \subseteq Nat /\ PodAdvice \subseteq Nat /\ QueueStates \subseteq QueueInfo
ASSUME LimitsAssumption ==
    MinReplicas \in Nat /\ MaxReplicas \in Nat /\ InitialReplicas \in Nat /\ Toleration \in Nat
ASSUME BoundsAssumption == Changes \in Nat /\ Week \in Nat \ {0}

VARIABLES specTargets,\* spec.targets
          replicas,   \* spec.replicas of the target
          targets,    \* status.targets
          value,      \* what each query returns now
          queues,     \* what the broker says of each queue
          down,       \* the names under which nothing is answered
          hour,       \* the place of the present in the cycle
          changes,    \* the changes still to come
          pass,       \* the pass in progress
          lastGood    \* ghost: per name in use, the last average stored

world == <<value, queues, down, hour>>

vars == <<specTargets, replicas, targets, world, changes, pass, lastGood>>

\* index is the next target and 0 between passes;
\* outputs is the ScalersOutput map, managed the managedTargetStatus list; asked and
\* answered are ghosts: all the outputs of the pass, and whether some metric was
\* answered.
NoPass == [index |-> 0, outputs |-> <<>>, managed |-> <<>>, asked |-> {},
           answered |-> FALSE]

TypeOK ==
    /\ specTargets \in TargetLists
    /\ replicas \in Nat
    /\ targets \in Seq([target : Names, average : Nat])
    /\ value \in [Queries -> Values]
    /\ queues \in [Queues -> QueueStates]
    /\ down \subseteq Names
    /\ hour \in 0..(Week - 1)
    /\ changes \in 0..Changes
    /\ pass.index \in 0..(Len(specTargets) + 1)
    /\ DOMAIN pass.outputs \subseteq Scalers
    /\ \A m \in DOMAIN pass.outputs : pass.outputs[m] \in Nat
    /\ pass.managed \in Seq(Names)
    /\ lastGood \in [Names -> Nat \cup {Unset}]

Init ==
    /\ specTargets \in TargetLists
    /\ replicas = InitialReplicas
    /\ targets = <<>>
    /\ value \in [Queries -> Values]
    /\ queues \in [Queues -> QueueStates]
    /\ down = {}
    /\ hour = 0
    /\ changes = Changes
    /\ pass = NoPass
    /\ lastGood = [q \in Names |-> Unset]

-----------------------------------------------------------------------------
(* utils/status.go                                                         *)

\* Mutant: an entry is appended, never replaced.
AppendTargetStatus(list, entry) == Append(list, entry)

\* The place of the first entry of the name, if there is one.
FirstOfName(list, name) ==
    {i \in DOMAIN list :
        list[i].target = name /\ \A j \in 1..(i - 1) : list[j].target # name}

\* The first entry of the name is replaced, else one is appended.
SetTargetStatus(list, entry) ==
    LET first == FirstOfName(list, entry.target)
    IN  IF first = {} THEN Append(list, entry)
        ELSE [i \in DOMAIN list |-> IF i \in first THEN entry ELSE list[i]]

\* The entry found for the name, or none.
GetTargetStatus(list, name) == {list[i] : i \in FirstOfName(list, name)}

\* The nested loops of PurgeTargetStatus meet an entry and a managed name at these
\* places, ordered by entry and then by name.
Matches(managed, list) ==
    {p \in (DOMAIN list) \X (DOMAIN managed) : list[p[1]].target = managed[p[2]]}

Earlier(p, q) == p[1] < q[1] \/ (p[1] = q[1] /\ p[2] < q[2])

Rank(p, matches) == Cardinality({q \in matches : Earlier(q, p)})

\* Each match appends its entry, so an entry is kept once for every time its name is
\* managed.
PurgeTargetStatus(managed, list) ==
    LET matches == Matches(managed, list)
        ranked(k) == CHOOSE p \in matches : Rank(p, matches) = k - 1
    IN  [k \in 1..Cardinality(matches) |-> list[ranked(k)[1]]]

-----------------------------------------------------------------------------
(* One iteration of the loop                                               *)

\* The target asked now, and the settings it has at the time of the pass: none
\* when a schedule is refused.
Current == specTargets[pass.index]

CurrentSettings == GetScheduledSettingsRaw(hour, Current.settings, Week)

\* What the scaler returned and stored.
Asked(desired, managed, list, answered) ==
    /\ pass' = [pass EXCEPT
          !.index = @ + 1,
          !.outputs = [m \in DOMAIN @ \cup {Current.metric} |->
                          IF m = Current.metric THEN desired ELSE @[m]],
          !.managed = @ \o managed,
          !.asked = @ \cup {desired},
          !.answered = @ \/ answered]
    /\ targets' = list
    /\ UNCHANGED <<specTargets, replicas, world, changes>>

\* Mutant: a failing scaler is asked again after the last target.
AbortedAtEnd ==
    /\ pass' = [pass EXCEPT !.index = Len(specTargets) + 2]
    /\ UNCHANGED <<specTargets, replicas, targets, world, changes, lastGood>>

\* An error ends the pass; the status is kept as it is.
Aborted ==
    /\ pass' = NoPass
    /\ UNCHANGED <<specTargets, replicas, targets, world, changes, lastGood>>

\* The loop asks the scaler `metrics` names with the settings s, which it accepts.
InLoop(metrics, s) ==
    /\ Current.metric \in metrics \cap Scalers
    /\ Current.metric = "prometheus" => s.threshold > 0
    /\ Current.metric = "rabbitmq" => ValidQueueSettings(s)

\* No settings, no scaler, or settings it does not accept.
AskRefused ==
    /\ pass.index \in DOMAIN specTargets
    /\ ~\E s \in CurrentSettings : InLoop(Scalers, s)
    /\ Aborted

-----------------------------------------------------------------------------
(* The prometheus scaler                                                   *)

\* Query gives a value only if the server answers with a single sample; every
\* other outcome is an error with the value -1, which no branch mistakes for 0.
Query(q) == q \notin down

\* The replicas asked for when the average is total / (scale * replicas): the
\* ratio to the threshold is applied to the replicas unless it is within the
\* toleration of 1.
RatioReplicas(total, scale, threshold) ==
    LET even == scale * replicas * threshold
    IN  IF 100 * Distance(even, total) >= Toleration * even
        THEN CeilDiv(total, scale * threshold)
        ELSE replicas

\* A target without replicas asks for none and manages no status.
AskAtZero(s) ==
    /\ InLoop({"prometheus"}, s) /\ replicas = 0
    /\ Asked(0, <<>>, targets, FALSE)
    /\ lastGood' = [lastGood EXCEPT ![Current.name] = Unset]

AskPrometheus(s) ==
    /\ InLoop({"prometheus"}, s) /\ replicas # 0
    /\ LET q       == Current.name
           average == (value[q] * 1000) \div replicas
           desired == IF value[q] = 0 THEN 0 ELSE RatioReplicas(value[q], 1, s.threshold)
       IN  /\ Query(q)
           /\ Asked(desired, <<q>>,
                    SetTargetStatus(targets, [target |-> q, average |-> average]), TRUE)
           /\ lastGood' = [lastGood EXCEPT ![q] = average]

\* Mutant: the name of a query without an answer is not managed.
AskInOutageUnmanaged(s) ==
    /\ InLoop({"prometheus"}, s) /\ replicas # 0
    /\ ~Query(Current.name)
    /\ Asked(0, <<>>, targets, FALSE)
    /\ UNCHANGED lastGood

\* The query fails and the failure mode decides; nothing is stored.
AskInOutage(s) ==
    /\ InLoop({"prometheus"}, s) /\ replicas # 0
    /\ LET q    == Current.name
           last == GetTargetStatus(targets, q)
       IN  /\ ~Query(q)
           /\ \/ s.mode = "FailAsError" /\ Aborted
              \/ s.mode = "FailAsLastValue" /\ last = {} /\ Aborted
              \/ /\ s.mode = "FailAsLastValue"
                 /\ \E entry \in last :
                       Asked(RatioReplicas(entry.average * replicas, 1000, s.threshold),
                             <<q>>, targets, FALSE)
                 /\ UNCHANGED lastGood
              \/ /\ s.mode = "FailAsZero"
                 /\ Asked(0, <<q>>, targets, FALSE)
                 /\ UNCHANGED lastGood

-----------------------------------------------------------------------------
(* The rabbitmq scaler                                                     *)

\* Client.Request: the broker's answer counts when it came in time, decodes, and has
\* the status 200 or one below 400.
Answered(s) == Current.name \notin down /\ ~RequestRefused(s)

MatchedQueues == [q \in Current.queues |-> queues[q]]

AskRabbitMQ(s) ==
    /\ InLoop({"rabbitmq"}, s)
    /\ Answered(s)
    /\ LET total   == request(s, MatchedQueues)
           desired == QueueReplicas(total, s.threshold, replicas, Toleration)
           average == QueueAverage(total, desired, replicas)
       IN  /\ Asked(desired, <<Current.name>>,
                    SetTargetStatus(targets, [target |-> Current.name, average |-> average]),
                    TRUE)
           /\ lastGood' = [lastGood EXCEPT ![Current.name] = average]

\* The broker does not answer: there is no failure mode, the pass ends.
AskRabbitMQFails(s) == InLoop({"rabbitmq"}, s) /\ ~Answered(s) /\ Aborted

-----------------------------------------------------------------------------
(* A pod resource scaler                                                   *)

AskPods(s) ==
    /\ InLoop({"cpu", "memory"}, s)
    /\ \/ \E desired \in PodAdvice :
              Asked(desired, <<Current.name>>,
                    SetTargetStatus(targets, [target |-> Current.name, average |-> 0]), TRUE)
       \* no pod is selected
       \/ Asked(replicas, <<Current.name>>, targets, FALSE)
    /\ UNCHANGED lastGood

\* The metrics of the pods cannot be read, or say nothing of a ready pod.
AskPodsFails(s) == InLoop({"cpu", "memory"}, s) /\ Aborted

-----------------------------------------------------------------------------
(* The pass                                                                *)

StartPass ==
    /\ pass.index = 0
    /\ pass' = [NoPass EXCEPT !.index = 1]
    /\ UNCHANGED <<specTargets, replicas, targets, world, changes, lastGood>>

\* Within the limits of the spec; the upper one is applied first.
Limited(n) ==
    LET capped == IF n > MaxReplicas THEN MaxReplicas ELSE n
    IN  IF capped < MinReplicas THEN MinReplicas ELSE capped

\* Mutant: the least output is taken.
IsLeastOutput(n, outputs) ==
    LET all == {outputs[m] : m \in DOMAIN outputs}
    IN  n \in all /\ \A o \in all : n <= o

\* The maximum the replicator takes of the outputs starts from 0.
IsGreatestOutput(n, outputs) ==
    LET all == {0} \cup {outputs[m] : m \in DOMAIN outputs}
    IN  n \in all /\ \A o \in all : o <= n

NamesInUse == {specTargets[i].name : i \in DOMAIN specTargets}

QueuesInUse ==
    UNION {specTargets[i].queues : i \in {i \in DOMAIN specTargets :
                                              specTargets[i].metric = "rabbitmq"}}

\* Status entries no target manages are purged; the replicator, here with a
\* window of 0 (SimpleReplicator has the window), and the limits decide, and the
\* target is scaled.
FinishPass ==
    /\ pass.index > Len(specTargets)
    /\ targets' = PurgeTargetStatus(pass.managed, targets)
    /\ \E n \in {0} \cup {pass.outputs[m] : m \in DOMAIN pass.outputs} :
          IsGreatestOutput(n, pass.outputs) /\ replicas' = Limited(n)
    /\ pass' = NoPass
    /\ lastGood' = [q \in Names |-> IF q \in NamesInUse THEN lastGood[q] ELSE Unset]
    /\ UNCHANGED <<specTargets, world, changes>>

\* One call of the loop: asking the scaler of the current target.
Ask ==
    /\ pass.index \in DOMAIN specTargets
    /\ \E s \in CurrentSettings :
          \/ AskAtZero(s) \/ AskPrometheus(s) \/ AskInOutage(s)
          \/ AskRabbitMQ(s) \/ AskRabbitMQFails(s)
          \/ AskPods(s) \/ AskPodsFails(s)

-----------------------------------------------------------------------------
(* The world                                                               *)

\* A metric moves, or its source stops or starts to answer, at any moment.  What no
\* target watches may as well move when one does.
ChangeValue ==
    /\ changes > 0
    /\ changes' = changes - 1
    /\ \E q \in Queries \cap NamesInUse : \E v \in Values \ {value[q]} : value' = [value EXCEPT ![q] = v]
    /\ UNCHANGED <<specTargets, replicas, targets, queues, down, hour, pass, lastGood>>

ChangeQueue ==
    /\ changes > 0
    /\ changes' = changes - 1
    /\ \E q \in QueuesInUse : \E v \in QueueStates \ {queues[q]} : queues' = [queues EXCEPT ![q] = v]
    /\ UNCHANGED <<specTargets, replicas, targets, value, down, hour, pass, lastGood>>

ChangeOutage ==
    /\ changes > 0
    /\ changes' = changes - 1
    /\ \E q \in NamesInUse : down' = (down \ {q}) \cup ({q} \ down)
    /\ UNCHANGED <<specTargets, replicas, targets, value, queues, hour, pass, lastGood>>

\* A user edits the spec; the next pass reads it.
EditTargets ==
    /\ pass.index = 0
    /\ changes > 0
    /\ changes' = changes - 1
    /\ specTargets' \in TargetLists \ {specTargets}
    /\ UNCHANGED <<replicas, targets, world, pass, lastGood>>

\* Time passes.  Nothing but a schedule reads the clock, and a pass reads it once, when
\* it starts: it is enough that time passes between passes.
Tick ==
    /\ pass.index = 0
    /\ \E i \in DOMAIN specTargets : specTargets[i].settings.schedules # <<>>
    /\ hour' = (hour + 1) % Week
    /\ UNCHANGED <<specTargets, replicas, targets, value, queues, down, changes, pass, lastGood>>

PassStep == StartPass \/ Ask \/ AskRefused \/ FinishPass

Next == PassStep \/ ChangeValue \/ ChangeQueue \/ ChangeOutage \/ EditTargets \/ Tick

\* Every call of a scaler returns or times out, and the key is queued again.
Spec == Init /\ [][Next]_vars /\ WF_vars(PassStep)

-----------------------------------------------------------------------------
(* Properties                                                              *)

\* However often passes are cut short by a failing scaler, status.targets has
\* one entry of a name, so that what is read back is what was last stored.
TargetsUnique ==
    \A i, j \in DOMAIN targets : targets[i].target = targets[j].target => i = j

\* The value a failover relies on is there when an outage comes: neither an
\* aborted pass nor the purge after a pass in an outage forgets or changes the
\* last average stored for a query of the spec, while the target has replicas.
LastValueRemembered ==
    \A q \in Names : lastGood[q] # Unset =>
        \E i \in DOMAIN targets : targets[i].target = q /\ targets[i].average = lastGood[q]

\* The target ends a pass with at least what each of its scalers asked for, as
\* far as the limits allow.
EveryTargetCounts ==
    [][(pass.index > Len(specTargets) /\ pass'.index = 0) =>
          \A n \in pass.asked : replicas' >= Limited(n)]_vars

\* The fallbacks "avoid scale down or abort when the metric is not available": a
\* pass that no query answered does not scale down.
NoScaleDownInOutage ==
    [][(pass.index > Len(specTargets) /\ pass'.index = 0 /\ ~pass.answered) =>
          replicas' >= replicas]_vars

\* Settings follow their schedules: where every schedule of a target is accepted and
\* its firings alternate, the settings in force are those of the schedule that was
\* entered and not left since, and the default while there is none.  Which of two wins
\* while both are entered is left out: the code takes the first, its comment the last.
SettingsFollowSchedules ==
    \A i \in DOMAIN specTargets :
        LET settings  == specTargets[i].settings
            list      == settings.schedules
            entered   == {j \in DOMAIN list : Entered(list[j].start, list[j].end, Week, hour)}
        IN  (/\ \A j \in DOMAIN list :
                   ~Refused(list[j]) /\ Alternating(list[j].start, list[j].end, Week)
             /\ \A j, k \in entered : j = k)
            => GetScheduledSettingsRaw(hour, settings, Week) =
                  IF entered = {} THEN {settings.default}
                  ELSE {MergePatch(settings.default, list[j].settings) : j \in entered}

\* A rabbitmq target that watches the messages of its queues, by their sum or
\* maximum where it watches several, has some to work on.
Backlog(t) ==
    /\ t.metric = "rabbitmq" /\ t.name \notin down
    /\ \A s \in PossibleSettings(t.settings) :
          /\ ValidQueueSettings(s) /\ s.mode = "QueueLength" /\ ~RequestRefused(s)
          /\ s.regex => s.operation # "avg"
          /\ \E q \in t.queues :
                IF s.protocol = "http" THEN MessagesOfType(queues[q], s.type) > 0
                ELSE queues[q].ready > 0
    /\ \A j \in DOMAIN t.settings.schedules : ~Refused(t.settings.schedules[j])

\* A target that was scaled to zero comes back for its messages: with queues to work
\* on under every setting, replicas follow, whatever the clock does meanwhile.
BacklogWakesTarget ==
    (\A i \in DOMAIN specTargets : Backlog(specTargets[i]))
    ~> (replicas > 0 \/ ~\A i \in DOMAIN specTargets : Backlog(specTargets[i]))
=============================================================================
