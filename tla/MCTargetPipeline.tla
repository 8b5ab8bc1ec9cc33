-------------------------- MODULE MCTargetPipeline --------------------------
(***************************************************************************)
(* Small instances of TargetPipeline.                                      *)
(***************************************************************************)
EXTENDS TargetPipeline

Always(default) == [default |-> default, schedules |-> <<>>]

Prometheus(q, mode) ==
    [metric |-> "prometheus", name |-> q, settings |-> Always([threshold |-> 2, mode |-> mode])]

Pods(metric) == [metric |-> metric, name |-> metric, settings |-> Always(<<>>)]

QueueSettings(mode, protocol, type, regex, operation) ==
    [threshold |-> 2, mode |-> mode, protocol |-> protocol, type |-> type,
     regex |-> regex, operation |-> operation]

Rabbit(name, matched, settings) ==
    [metric |-> "rabbitmq", name |-> name, queues |-> matched, settings |-> settings]

\* A cycle of two days with two ticks each: the first range is daily, the second
\* follows it on the first day and lasts to the end of the second, where they overlap.
DailyAndLong ==
    <<[form |-> "cron", start |-> {0, 2}, end |-> {1, 3}, settings |-> [operation |-> "max"]],
      [form |-> "cron", start |-> {1}, end |-> {3}, settings |-> [threshold |-> 1]]>>

\* The end fires every day, the start on one of them.
OneDay == <<[form |-> "cron", start |-> {0}, end |-> {1, 3}, settings |-> [threshold |-> 0]]>>

NoTimezone == <<[form |-> "refused", start |-> {0}, end |-> {1}, settings |-> <<>>]>>

\* At most one target of a scaler.
MixedTargets ==
    {<<Prometheus("rps", "FailAsLastValue"), Pods("cpu"), Pods("memory")>>,
     <<Pods("cpu"), Prometheus("rps", "FailAsZero")>>,
     <<Rabbit("jobs", {"jobs"}, Always(QueueSettings("QueueLength", "amqp", "all", FALSE, "none"))),
       Prometheus("rps", "FailAsError")>>,
     <<Rabbit("jobs", {"jobs"}, Always(QueueSettings("MessageRate", "amqp", "all", FALSE, "none")))>>,
     <<Rabbit("any", {"jobs", "mail"},
              [default |-> QueueSettings("QueueLength", "http", "ready", TRUE, "sum"),
               schedules |-> DailyAndLong])>>,
     <<Rabbit("any", {"jobs", "mail"}, Always(QueueSettings("MessageRate", "http", "all", TRUE, "avg"))),
       [Prometheus("rps", "FailAsLastValue") EXCEPT !.settings.schedules = OneDay]>>,
     <<[Prometheus("rps", "FailAsZero") EXCEPT !.settings.schedules = NoTimezone]>>,
     <<Rabbit("any", {"jobs", "mail"}, Always(QueueSettings("QueueLength", "amqp", "all", TRUE, "avg")))>>,
     <<Pods("memory"), Pods("unknown")>>}
\* Two targets of one scaler.
TwoQueries == {<<Prometheus("rps", "FailAsError"), Prometheus("lag", "FailAsZero")>>}
\* A single target that falls back to the last value.
LastValueTarget == {<<Prometheus("rps", "FailAsLastValue")>>}

AllScalers == {"cpu", "memory", "prometheus", "rabbitmq"}

EmptyOrBusy == {[ready |-> 0, unacked |-> 0, rate |-> 0], [ready |-> 1, unacked |-> 7, rate |-> 3]}
=============================================================================
