------------------------------ MODULE RabbitMQ ------------------------------
(***************************************************************************)
(* plugins/scaler_rabbitmq without its state: what a broker is asked, how  *)
(* several queues become one number, and the replicas that follow.  A      *)
(* metric value is a fraction total / scale, since only the average of     *)
(* rates is not an integer.                                                *)
(***************************************************************************)
EXTENDS Totals, FiniteSetsExt

\* queueInfo; its field messages is the sum of the first two.
QueueInfo == [ready : Nat, unacked : Nat, rate : Nat]

Operations == {"sum", "avg", "max"}

\* Settings.Validate, as far as a well-typed setting can fail it.
ValidQueueSettings(s) == s.threshold > 0 /\ (s.regex => s.operation \in Operations)

MessageTypes == {"all", "ready", "unacknowledged"}

\* The messages that count.
MessagesOfType(info, type) ==
    CASE type = "all"            -> info.ready + info.unacked
      [] type = "ready"          -> info.ready
      [] type = "unacknowledged" -> info.unacked

getSum(counts) == Total(counts, DOMAIN counts)

getMaximum(counts) == Max({0} \cup {counts[q] : q \in DOMAIN counts})

Whole(n) == [total |-> n, scale |-> 1]

\* Mutant: of several queues the smallest counts.
SmallestQueue(operation, counts, isRate) == Whole(Min({counts[q] : q \in DOMAIN counts}))

\* getComposedQueue, for one field of the queues; an average of messages is
\* divided as integers, one of rates is not.  No queue at all is an empty queue.
getComposedQueue(operation, counts, isRate) ==
    IF DOMAIN counts = {} THEN Whole(0)
    ELSE CASE operation = "sum" -> Whole(getSum(counts))
           [] operation = "max" -> Whole(getMaximum(counts))
           [] operation = "avg" /\ isRate ->
                 [total |-> getSum(counts), scale |-> Cardinality(DOMAIN counts)]
           [] operation = "avg" /\ ~isRate ->
                 Whole(getSum(counts) \div Cardinality(DOMAIN counts))

\* requestViaHTTP: `infos` are the queues the name matches, one queue unless it is a
\* regular expression.
requestViaHTTP(s, infos) ==
    LET isRate == s.mode = "MessageRate"
        counts == [q \in DOMAIN infos |->
                      IF isRate THEN infos[q].rate ELSE MessagesOfType(infos[q], s.type)]
    IN  getComposedQueue(IF s.regex THEN s.operation ELSE "sum", counts, isRate)

\* requestViaChannel: QueueInspect counts the ready messages, and no rate comes
\* over AMQP.
requestViaChannel(s, infos) ==
    Whole(IF s.mode = "MessageRate" THEN 0 ELSE getSum([q \in DOMAIN infos |-> infos[q].ready]))

\* No queue has a regular expression for its name, so a broker asked for one over AMQP
\* answers with an error.
RequestRefused(s) == s.protocol = "amqp" /\ s.regex

request(s, infos) ==
    IF s.protocol = "http" THEN requestViaHTTP(s, infos) ELSE requestViaChannel(s, infos)

CeilDiv(a, b) == (a + b - 1) \div b
Distance(a, b) == IF a < b THEN b - a ELSE a - b

\* Unlike the prometheus scaler this one starts a target from zero, and asks for
\* none when the ratio is within the toleration (percent) of 1: desiredReplicas
\* keeps its zero value there.
QueueReplicas(value, threshold, replicas, toleration) ==
    LET even == replicas * threshold * value.scale
    IN  IF replicas = 0 \/ 100 * Distance(even, value.total) >= toleration * even
        THEN CeilDiv(value.total, threshold * value.scale)
        ELSE 0

\* The average stored in the status, in thousandths.
QueueAverage(value, desired, replicas) ==
    IF value.total = 0 THEN 0
    ELSE (value.total * 1000) \div (value.scale * (IF replicas = 0 THEN desired ELSE replicas))
=============================================================================
