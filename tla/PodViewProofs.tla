---------------------------- MODULE PodViewProofs ----------------------------
(***************************************************************************)
(* Theorems about the replicas the cpu and memory scalers ask for, in      *)
(* every mixture of the views of the pods.                                 *)
(***************************************************************************)
EXTENDS PodView, TotalsProofs

-----------------------------------------------------------------------------
(* Products and quotients                                                  *)

LEMMA ProductType ==
    ASSUME NEW a \in Nat, NEW b \in Nat
    PROVE  a * b \in Nat
OBVIOUS

LEMMA ProductMonotone ==
    ASSUME NEW a \in Nat, NEW b \in Nat, NEW c \in Nat, a <= b
    PROVE  a * c <= b * c /\ c * a <= c * b
OBVIOUS

LEMMA ProductLess ==
    ASSUME NEW a \in Nat, NEW b \in Nat, NEW c \in Nat \ {0}, a * c <= b * c
    PROVE  a <= b
OBVIOUS

LEMMA QuotientBounds ==
    ASSUME NEW a \in Nat, NEW b \in Nat \ {0}
    PROVE  /\ a \div b \in Nat
           /\ (a \div b) * b <= a
           /\ a < ((a \div b) + 1) * b
OBVIOUS

\* A quotient is the greatest number that many times the divisor fits.
LEMMA QuotientGreatest ==
    ASSUME NEW a \in Nat, NEW b \in Nat \ {0}, NEW q \in Nat
    PROVE  q <= a \div b <=> q * b <= a
<1> DEFINE d == a \div b
<1>1. d \in Nat /\ d * b <= a /\ a < (d + 1) * b
  BY QuotientBounds
<1> HIDE DEF d
<1>2. ASSUME q <= d PROVE q * b <= a
  <2>1. q * b <= d * b /\ q * b \in Nat /\ d * b \in Nat
    BY <1>1, <1>2, ProductMonotone, ProductType
  <2>2. QED
    BY <1>1, <2>1
<1>3. ASSUME ~(q <= d) PROVE ~(q * b <= a)
  <2>1. d + 1 <= q /\ d + 1 \in Nat
    BY <1>1, <1>3
  <2>2. (d + 1) * b <= q * b /\ (d + 1) * b \in Nat /\ q * b \in Nat
    BY <2>1, ProductMonotone, ProductType
  <2>3. QED
    BY <1>1, <2>2
<1>4. QED
  BY <1>2, <1>3 DEF d

\* The utilization of v in r, in whole percent, grows with the fraction.
LEMMA PercentMonotone ==
    ASSUME NEW v \in Nat, NEW r \in Nat \ {0}, NEW w \in Nat, NEW s \in Nat \ {0},
           v * s <= w * r
    PROVE  (v * 100) \div r <= (w * 100) \div s
<1> DEFINE q == (v * 100) \div r
<1>1. v * 100 \in Nat /\ w * 100 \in Nat
  OBVIOUS
<1>2. q \in Nat /\ q * r <= v * 100
  BY <1>1, QuotientBounds
<1> HIDE DEF q
<1>3. (q * s) * r <= (w * 100) * r
  <2>1. (q * r) * s <= (v * 100) * s
    BY <1>1, <1>2, ProductMonotone, ProductType
  <2>2. (q * r) * s = (q * s) * r
    BY <1>2
  <2>3. (v * 100) * s = (v * s) * 100 /\ (w * 100) * r = (w * r) * 100
    OBVIOUS
  <2>4. (v * s) * 100 <= (w * r) * 100
    BY ProductMonotone, ProductType
  <2>5. (q * r) * s \in Nat /\ (v * s) * 100 \in Nat /\ (w * r) * 100 \in Nat
    BY <1>2, ProductType
  <2>6. QED
    BY <2>1, <2>2, <2>3, <2>4, <2>5
<1>4. q * s <= w * 100
  BY <1>1, <1>2, <1>3, ProductLess, ProductType
<1>5. q <= (w * 100) \div s
  BY <1>1, <1>2, <1>4, QuotientGreatest
<1>6. QED
  BY <1>5 DEF q

\* The replicas asked for, ceil(u * c / t).
Ceil(u, c, t) == (u * c + t - 1) \div t

LEMMA CeilType ==
    ASSUME NEW u \in Nat, NEW c \in Nat, NEW t \in Nat \ {0}
    PROVE  Ceil(u, c, t) \in Nat /\ u * c + t - 1 \in Nat
<1>1. u * c \in Nat
  BY ProductType
<1>2. u * c + t - 1 \in Nat
  BY <1>1
<1>3. QED
  BY <1>2, QuotientBounds DEF Ceil

LEMMA CeilMonotone ==
    ASSUME NEW u \in Nat, NEW c \in Nat, NEW w \in Nat, NEW d \in Nat, NEW t \in Nat \ {0},
           u <= w, c <= d
    PROVE  Ceil(u, c, t) <= Ceil(w, d, t)
<1>1. u * c <= w * d
  <2>1. u * c <= w * c /\ w * c <= w * d
    BY ProductMonotone
  <2>2. u * c \in Nat /\ w * c \in Nat /\ w * d \in Nat
    BY ProductType
  <2>3. QED
    BY <2>1, <2>2
<1> DEFINE a == u * c + t - 1
           b == w * d + t - 1
<1>2. a \in Nat /\ b \in Nat /\ a <= b
  <2>1. u * c \in Nat /\ w * d \in Nat
    BY ProductType
  <2>2. QED
    BY <1>1, <2>1
<1> HIDE DEF a, b
<1>3. a \div t \in Nat /\ (a \div t) * t <= a
  BY <1>2, QuotientBounds
<1>4. (a \div t) * t <= b
  <2>1. (a \div t) * t \in Nat
    BY <1>3, ProductType
  <2>2. QED
    BY <1>2, <1>3, <2>1
<1>5. a \div t <= b \div t
  BY <1>2, <1>3, <1>4, QuotientGreatest
<1>6. QED
  BY <1>5 DEF Ceil, a, b

\* A ratio up to 1 asks for no more than there are, one from 1 for no less.
LEMMA CeilDirection ==
    ASSUME NEW u \in Nat, NEW c \in Nat, NEW t \in Nat \ {0}
    PROVE  /\ u <= t => Ceil(u, c, t) <= c
           /\ u >= t => Ceil(u, c, t) >= c
<1>1. Ceil(t, c, t) = c
  <2>1. t * c + t - 1 \in Nat /\ t * c \in Nat /\ c * t = t * c
    BY CeilType, ProductType
  <2>2. c <= Ceil(t, c, t)
    <3>1. c * t <= t * c + t - 1
      BY <2>1
    <3>2. QED
      BY <2>1, <3>1, QuotientGreatest DEF Ceil
  <2>3. ~(c + 1 <= Ceil(t, c, t))
    <3>1. (c + 1) * t = t * c + t
      OBVIOUS
    <3>2. ~((c + 1) * t <= t * c + t - 1)
      BY <2>1, <3>1
    <3>3. c + 1 \in Nat
      OBVIOUS
    <3>4. QED
      BY <2>1, <3>2, <3>3, QuotientGreatest DEF Ceil
  <2>4. Ceil(t, c, t) \in Nat
    BY CeilType
  <2>5. QED
    BY <2>2, <2>3, <2>4
<1>2. u <= t => Ceil(u, c, t) <= Ceil(t, c, t)
  BY CeilMonotone
<1>3. t <= u => Ceil(t, c, t) <= Ceil(u, c, t)
  BY CeilMonotone
<1>4. Ceil(u, c, t) \in Nat
  BY CeilType
<1>5. QED
  BY <1>1, <1>2, <1>3, <1>4

-----------------------------------------------------------------------------
(* The groups of the pods                                                  *)

LEMMA GroupsShape ==
    ASSUME NEW view, NEW samples, NEW kind, NEW time, NEW g,
           g = groupPods(view, samples, kind, time)
    PROVE  /\ g.ignored \cup g.missing \cup g.unready \cup g.ready = DOMAIN view
           /\ g.missing \cup g.unready \cup g.ready = Live(view)
           /\ g.ignored \cap (g.missing \cup g.unready \cup g.ready) = {}
           /\ g.missing \cap g.unready = {} /\ g.missing \cap g.ready = {}
           /\ g.unready \cap g.ready = {}
           /\ g.ready \subseteq DOMAIN samples /\ g.missing \cap DOMAIN samples = {}
<1> DEFINE live == {p \in DOMAIN view : ~IsIgnored(view[p])}
           pending == {p \in live : view[p].phase = "Pending"}
           missing == {p \in live \ pending : p \notin DOMAIN samples}
           early == {p \in live \ (pending \cup missing) :
                       kind = "cpu" /\ IsUnready(view[p], samples[p], time)}
<1>1. g = [ignored |-> DOMAIN view \ live, missing |-> missing, unready |-> pending \cup early,
           ready   |-> live \ (pending \cup missing \cup early)]
  BY Zenon DEF groupPods
<1>2. live = Live(view) /\ live \subseteq DOMAIN view
  BY DEF Live
<1>3. pending \subseteq live /\ missing \subseteq live \ pending
      /\ early \subseteq live \ (pending \cup missing)
      /\ missing \cap DOMAIN samples = {}
      /\ live \ (pending \cup missing \cup early) \subseteq DOMAIN samples
  OBVIOUS
<1> HIDE DEF live, pending, missing, early
<1>4. QED
  BY <1>1, <1>2, <1>3

\* What a scaler can read: a finite number of pods and samples, and a request for each pod.
Readable(samples, view, asked, goal, current) ==
    /\ IsFiniteSet(DOMAIN view) /\ IsFiniteSet(DOMAIN samples)
    /\ \A p \in DOMAIN samples : samples[p].value \in Nat
    /\ \A p \in DOMAIN asked : asked[p] \in Nat
    /\ RequestsKnown(view, asked)
    /\ goal \in Nat \ {0} /\ current \in Nat

LEMMA UtilizationType ==
    ASSUME NEW values, NEW asked, IsFiniteSet(DOMAIN asked),
           \A p \in DOMAIN values : values[p] \in Nat, \A p \in DOMAIN asked : asked[p] \in Nat
    PROVE  /\ Utilization(values, asked) \in Nat \cup {NoUtilization}
           /\ Utilization(values, asked) # NoUtilization =>
                LET known == DOMAIN values \cap DOMAIN asked
                IN  /\ Total(asked, known) \in Nat \ {0} /\ Total(values, known) \in Nat
                    /\ Utilization(values, asked)
                         = (Total(values, known) * 100) \div Total(asked, known)
<1> DEFINE known == DOMAIN values \cap DOMAIN asked
<1>1. IsFiniteSet(known)
  BY FS_Intersection
<1>2. Total(asked, known) \in Nat /\ Total(values, known) \in Nat
  BY <1>1, TotalType
<1>3. CASE Total(asked, known) = 0
  BY <1>3 DEF Utilization
<1>4. CASE Total(asked, known) # 0
  <2>1. Utilization(values, asked) = (Total(values, known) * 100) \div Total(asked, known)
    BY <1>4 DEF Utilization
  <2>2. Total(values, known) * 100 \in Nat
    BY <1>2
  <2>3. (Total(values, known) * 100) \div Total(asked, known) \in Nat
    BY <1>2, <1>4, <2>2, QuotientBounds
  <2>4. QED
    BY <1>2, <1>4, <2>1, <2>3
<1>5. QED
  BY <1>3, <1>4

LEMMA MeasuredShape ==
    ASSUME NEW samples, NEW g
    PROVE  /\ DOMAIN Measured(samples, g) = DOMAIN samples \ (g.ignored \cup g.unready)
           /\ \A p \in DOMAIN Measured(samples, g) : Measured(samples, g)[p] = samples[p].value
BY DEF Measured

LEMMA OverShape ==
    ASSUME NEW f, NEW g
    PROVE  /\ DOMAIN Over(f, g) = DOMAIN f \cup DOMAIN g
           /\ \A p \in DOMAIN f : Over(f, g)[p] = f[p]
           /\ \A p \in DOMAIN g : p \notin DOMAIN f => Over(f, g)[p] = g[p]
BY DEF Over

LEMMA EmptyFunction == DOMAIN <<>> = {}
OBVIOUS

\* What is filled in, and for which pods.
LEMMA FilledShape ==
    ASSUME NEW measured, NEW g, NEW asked, NEW u, NEW goal,
           g.missing \cap g.unready = {},
           g.missing \cap DOMAIN measured = {}, g.unready \cap DOMAIN measured = {}
    PROVE  /\ \A p : p \in DOMAIN Filled(measured, g, asked, u, goal) <=>
                \/ Rebalanced(g, u, goal) /\ p \in g.unready
                \/ u # goal /\ p \in g.missing
                \/ p \in DOMAIN measured
           /\ Rebalanced(g, u, goal) => \A p \in g.unready : Filled(measured, g, asked, u, goal)[p] = 0
           /\ u # goal => \A p \in g.missing :
                   Filled(measured, g, asked, u, goal)[p] = IF u < goal THEN asked[p] ELSE 0
           /\ \A p \in DOMAIN measured : Filled(measured, g, asked, u, goal)[p] = measured[p]
<1> DEFINE filled == Filled(measured, g, asked, u, goal)
<1> DEFINE zeros == IF Rebalanced(g, u, goal) THEN [p \in g.unready |-> 0] ELSE <<>>
           assumed == Assumed(asked, g.missing, u, goal)
<1>1. filled = Over(zeros, Over(assumed, measured))
  BY DEF Filled
<1>2. /\ DOMAIN zeros = IF Rebalanced(g, u, goal) THEN g.unready ELSE {}
      /\ Rebalanced(g, u, goal) => \A p \in g.unready : zeros[p] = 0
  BY EmptyFunction
<1>3. /\ DOMAIN assumed = IF u = goal THEN {} ELSE g.missing
      /\ u # goal => \A p \in g.missing : assumed[p] = IF u < goal THEN asked[p] ELSE 0
  BY EmptyFunction DEF Assumed
<1> HIDE DEF zeros, assumed
<1> DEFINE rest == Over(assumed, measured)
<1>4. /\ DOMAIN rest = DOMAIN assumed \cup DOMAIN measured
      /\ \A p \in DOMAIN assumed : rest[p] = assumed[p]
      /\ \A p \in DOMAIN measured : p \notin DOMAIN assumed => rest[p] = measured[p]
  BY OverShape
<1>5. filled = Over(zeros, rest)
  BY <1>1
<1> HIDE DEF rest
<1>6. /\ DOMAIN Over(zeros, rest) = DOMAIN zeros \cup DOMAIN rest
      /\ \A p \in DOMAIN zeros : Over(zeros, rest)[p] = zeros[p]
      /\ \A p \in DOMAIN rest : p \notin DOMAIN zeros => Over(zeros, rest)[p] = rest[p]
  BY DEF Over
<1>7. /\ DOMAIN filled = DOMAIN zeros \cup DOMAIN rest
      /\ \A p \in DOMAIN zeros : filled[p] = zeros[p]
      /\ \A p \in DOMAIN rest : p \notin DOMAIN zeros => filled[p] = rest[p]
  BY <1>5, <1>6, Zenon
<1>8. QED
  BY <1>2, <1>3, <1>4, <1>7

-----------------------------------------------------------------------------
(* The utilization, measured and filled in                                 *)

Requested(view, asked) == [p \in DOMAIN view |-> asked[p]]

\* What is measured of the pods that are known is measured of the ready ones.
LEMMA MeasuredUtilization ==
    ASSUME NEW view, NEW samples, NEW asked, NEW goal, NEW current,
           Readable(samples, view, asked, goal, current),
           NEW kind, NEW time, NEW g, g = groupPods(view, samples, kind, time),
           NEW r, r = Requested(view, asked), NEW measured, measured = Measured(samples, g),
           NEW u, u = Utilization(measured, r)
    PROVE  /\ DOMAIN r = DOMAIN view /\ \A p \in DOMAIN r : r[p] \in Nat
           /\ DOMAIN measured \subseteq DOMAIN samples /\ \A p \in DOMAIN measured : measured[p] \in Nat
           /\ DOMAIN measured \cap DOMAIN view = g.ready
           /\ u \in Nat \cup {NoUtilization}
           /\ u # NoUtilization =>
                /\ Total(r, g.ready) \in Nat \ {0} /\ Total(measured, g.ready) \in Nat
                /\ u = (Total(measured, g.ready) * 100) \div Total(r, g.ready)
<1>1. /\ g.ignored \cup g.missing \cup g.unready \cup g.ready = DOMAIN view
      /\ g.ignored \cap (g.missing \cup g.unready \cup g.ready) = {}
      /\ g.unready \cap g.ready = {}
      /\ g.ready \subseteq DOMAIN samples /\ g.missing \cap DOMAIN samples = {}
  BY GroupsShape
<1>2. /\ DOMAIN measured = DOMAIN samples \ (g.ignored \cup g.unready)
      /\ \A p \in DOMAIN measured : measured[p] = samples[p].value
  BY DEF Measured
<1>3. /\ DOMAIN r = DOMAIN view /\ \A p \in DOMAIN r : r[p] \in Nat
  BY DEF Requested, Readable, RequestsKnown
<1>4. /\ DOMAIN measured \subseteq DOMAIN samples /\ \A p \in DOMAIN measured : measured[p] \in Nat
  BY <1>2 DEF Readable
<1>5. DOMAIN measured \cap DOMAIN view = g.ready
  BY <1>1, <1>2
<1>6. IsFiniteSet(DOMAIN r)
  BY <1>3 DEF Readable
<1>7. /\ u \in Nat \cup {NoUtilization}
      /\ u # NoUtilization =>
            /\ Total(r, g.ready) \in Nat \ {0} /\ Total(measured, g.ready) \in Nat
            /\ u = (Total(measured, g.ready) * 100) \div Total(r, g.ready)
  BY <1>3, <1>4, <1>5, <1>6, UtilizationType
<1>8. QED
  BY <1>3, <1>4, <1>5, <1>7

\* With what is assumed of the missing and the unready pods.
LEMMA FilledUtilization ==
    ASSUME NEW view, NEW samples, NEW asked, NEW goal, NEW current,
           Readable(samples, view, asked, goal, current),
           NEW kind, NEW time, NEW g, g = groupPods(view, samples, kind, time),
           NEW r, r = Requested(view, asked), NEW measured, measured = Measured(samples, g),
           NEW u, u = Utilization(measured, r), u # NoUtilization
    PROVE  /\ Total(r, g.missing) \in Nat /\ Total(r, g.unready) \in Nat
           /\ IsFiniteSet(DOMAIN Filled(measured, g, r, u, goal))
           /\ \A p : p \in DOMAIN Filled(measured, g, r, u, goal) <=>
                \/ Rebalanced(g, u, goal) /\ p \in g.unready
                \/ u # goal /\ p \in g.missing
                \/ p \in DOMAIN measured
           /\ Utilization(Filled(measured, g, r, u, goal), r) =
                IF u < goal
                THEN ((Total(measured, g.ready) + Total(r, g.missing)) * 100)
                        \div (Total(r, g.ready) + Total(r, g.missing))
                ELSE IF u = goal THEN u
                ELSE (Total(measured, g.ready) * 100)
                        \div (Total(r, g.ready) + Total(r, g.missing) + Total(r, g.unready))
<1> DEFINE filled == Filled(measured, g, r, u, goal)
<1>1. /\ g.ignored \cup g.missing \cup g.unready \cup g.ready = DOMAIN view
      /\ g.missing \cap g.unready = {} /\ g.missing \cap g.ready = {}
      /\ g.unready \cap g.ready = {}
      /\ g.missing \cap DOMAIN samples = {}
  BY GroupsShape
<1>2. /\ DOMAIN r = DOMAIN view /\ \A p \in DOMAIN r : r[p] \in Nat
      /\ DOMAIN measured \subseteq DOMAIN samples /\ \A p \in DOMAIN measured : measured[p] \in Nat
      /\ DOMAIN measured \cap DOMAIN view = g.ready
      /\ u \in Nat
      /\ Total(r, g.ready) \in Nat \ {0} /\ Total(measured, g.ready) \in Nat
      /\ u = (Total(measured, g.ready) * 100) \div Total(r, g.ready)
  BY MeasuredUtilization
<1>3. g.missing \cap DOMAIN measured = {} /\ g.unready \cap DOMAIN measured = {}
  BY <1>1, <1>2
<1>4. /\ \A p : p \in DOMAIN filled <=>
            \/ Rebalanced(g, u, goal) /\ p \in g.unready
            \/ u # goal /\ p \in g.missing
            \/ p \in DOMAIN measured
      /\ Rebalanced(g, u, goal) => \A p \in g.unready : filled[p] = 0
      /\ u # goal => \A p \in g.missing : filled[p] = IF u < goal THEN r[p] ELSE 0
      /\ \A p \in DOMAIN measured : filled[p] = measured[p]
  BY <1>1, <1>3, FilledShape
<1> HIDE DEF filled
<1>5. /\ IsFiniteSet(DOMAIN view) /\ IsFiniteSet(DOMAIN samples) /\ goal \in Nat \ {0}
  BY DEF Readable
<1>6. /\ IsFiniteSet(g.missing) /\ IsFiniteSet(g.unready) /\ IsFiniteSet(g.ready)
      /\ IsFiniteSet(DOMAIN measured) /\ IsFiniteSet({})
  BY <1>1, <1>2, <1>5, FS_Subset, FS_EmptySet
<1>7. Total(r, g.missing) \in Nat /\ Total(r, g.unready) \in Nat
  BY <1>1, <1>2, <1>6, TotalType
<1>8. IsFiniteSet(DOMAIN filled)
  <2>1. IsFiniteSet(g.unready \cup g.missing)
    BY <1>6, FS_Union
  <2>2. IsFiniteSet((g.unready \cup g.missing) \cup DOMAIN measured)
    BY <1>6, <2>1, FS_Union
  <2>3. DOMAIN filled \subseteq (g.unready \cup g.missing) \cup DOMAIN measured
    BY <1>4
  <2>4. QED
    BY <2>2, <2>3, FS_Subset
<1> DEFINE known == DOMAIN filled \cap DOMAIN r
<1>9. Utilization(filled, r) = IF Total(r, known) = 0 THEN NoUtilization
                               ELSE (Total(filled, known) * 100) \div Total(r, known)
  BY DEF Utilization
<1>10. Total(filled, g.ready) = Total(measured, g.ready)
  BY <1>2, <1>4, TotalSame
<1>11. /\ \A p \in g.ready \cup g.missing \cup g.unready : r[p] \in Nat
       /\ \A p \in g.ready : filled[p] \in Nat
       /\ u # goal => \A p \in g.missing : filled[p] \in Nat
       /\ Rebalanced(g, u, goal) => \A p \in g.unready : filled[p] \in Nat
  BY <1>1, <1>2, <1>4
<1>12. CASE u < goal
  <2>1. ~Rebalanced(g, u, goal) /\ u # goal
    BY <1>2, <1>5, <1>12 DEF Rebalanced
  <2>2. known = g.ready \cup g.missing
    BY <1>1, <1>2, <1>4, <2>1
  <2>3. Total(r, known) = Total(r, g.ready) + Total(r, g.missing)
    BY <1>1, <1>6, <1>11, <2>2, TotalUnion
  <2>4. Total(filled, g.missing) = Total(r, g.missing)
    BY <1>4, <1>12, <2>1, TotalSame
  <2>5. Total(filled, known) = Total(measured, g.ready) + Total(r, g.missing)
    <3>1. Total(filled, known) = Total(filled, g.ready) + Total(filled, g.missing)
      BY <1>1, <1>6, <1>11, <2>1, <2>2, TotalUnion
    <3>2. QED
      BY <1>10, <2>4, <3>1
  <2> HIDE DEF known
  <2>6. Total(r, known) # 0
    BY <1>2, <1>7, <2>3
  <2>7. QED
    BY <1>4, <1>7, <1>8, <1>9, <1>12, <2>3, <2>5, <2>6 DEF filled
<1>13. CASE u = goal
  <2>1. ~Rebalanced(g, u, goal)
    BY <1>2, <1>5, <1>13 DEF Rebalanced
  <2>2. known = g.ready
    BY <1>1, <1>2, <1>4, <1>13, <2>1
  <2> HIDE DEF known
  <2>3. QED
    BY <1>2, <1>4, <1>5, <1>7, <1>8, <1>9, <1>10, <1>13, <2>2 DEF filled
<1>14. CASE u > goal
  <2>0. u # goal /\ ~(u < goal)
    BY <1>2, <1>5, <1>14
  <2>1. known = (g.ready \cup g.missing) \cup g.unready
    <3>1. \A p \in g.unready : Rebalanced(g, u, goal)
      BY <1>14 DEF Rebalanced
    <3>2. QED
      BY <1>1, <1>2, <1>4, <2>0, <3>1
  <2>2. IsFiniteSet(g.ready \cup g.missing)
    BY <1>6, FS_Union
  <2>3. Total(r, g.ready \cup g.missing) = Total(r, g.ready) + Total(r, g.missing)
    BY <1>1, <1>6, <1>11, TotalUnion
  <2>4. Total(r, known) = Total(r, g.ready \cup g.missing) + Total(r, g.unready)
    <3>1. (g.ready \cup g.missing) \cap g.unready = {}
      BY <1>1
    <3>2. QED
      BY <1>6, <1>11, <2>1, <2>2, <3>1, TotalUnion
  <2>5. Total(filled, known) = Total(measured, g.ready)
    <3>1. \A p \in g.missing \cup g.unready : filled[p] = 0
      BY <1>4, <1>14, <2>0 DEF Rebalanced
    <3>2. IsFiniteSet(g.missing \cup g.unready) /\ known = g.ready \cup (g.missing \cup g.unready)
      BY <1>6, <2>1, FS_Union
    <3>3. Total(filled, g.missing \cup g.unready) = 0
      BY <3>1, TotalZero
    <3>4. g.ready \cap (g.missing \cup g.unready) = {}
      BY <1>1
    <3>5. \A p \in g.ready \cup (g.missing \cup g.unready) : filled[p] \in Nat
      BY <1>11, <3>1
    <3>6. Total(filled, known) = Total(filled, g.ready) + Total(filled, g.missing \cup g.unready)
      BY <1>6, <3>2, <3>4, <3>5, TotalUnion
    <3>7. QED
      BY <1>2, <1>10, <3>3, <3>6
  <2> HIDE DEF known
  <2>6. Total(r, known) = Total(r, g.ready) + Total(r, g.missing) + Total(r, g.unready)
        /\ Total(r, known) # 0
    BY <1>2, <1>7, <2>3, <2>4
  <2>7. QED
    BY <1>4, <1>7, <1>8, <1>9, <2>0, <2>5, <2>6 DEF filled
<1>15. QED
  BY <1>2, <1>5, <1>12, <1>13, <1>14 DEF filled

-----------------------------------------------------------------------------
(* The answers                                                             *)

\* What is answered when the samples need no filling in.
Plain(u, count, goal, current) ==
    IF IsTolerated(u, goal) THEN current ELSE Ceil(u, count, goal)

\* What is answered after filling in: again is the utilization then.
Careful(u, again, count, goal, current) ==
    IF \/ IsTolerated(again, goal)
       \/ u < goal /\ again > goal
       \/ u > goal /\ again < goal
    THEN current
    ELSE Directed(Ceil(again, count, goal), again, goal, current)

LEMMA Answer ==
    ASSUME NEW view, NEW samples, NEW asked, NEW goal, NEW current,
           Readable(samples, view, asked, goal, current), NEW kind, NEW time,
           NEW n \in tidyAndCalculateDesiredReplicas(samples, view, asked, kind, goal, current, time)
    PROVE  LET g == groupPods(view, samples, kind, time)
               r == Requested(view, asked)
               measured == Measured(samples, g)
               u == Utilization(measured, r)
               filled == Filled(measured, g, r, u, goal)
           IN  /\ u # NoUtilization
               /\ n = IF ~Rebalanced(g, u, goal) /\ g.missing = {}
                      THEN Plain(u, Cardinality(g.ready), goal, current)
                      ELSE Careful(u, Utilization(filled, r), Cardinality(DOMAIN filled),
                                   goal, current)
<1> DEFINE g == groupPods(view, samples, kind, time)
           r == Requested(view, asked)
           measured == Measured(samples, g)
           u == Utilization(measured, r)
           filled == Filled(measured, g, r, u, goal)
           again == Utilization(filled, r)
           turned == (u < goal /\ again > goal) \/ (u > goal /\ again < goal)
<1>1. goal # 0 /\ RequestsKnown(view, asked)
  BY DEF Readable
<1>2. n \in IF ~RequestsKnown(view, asked) THEN {}
            ELSE IF u = NoUtilization THEN {}
            ELSE IF ~Rebalanced(g, u, goal) /\ g.missing = {}
                 THEN IF IsTolerated(u, goal) THEN {current}
                      ELSE Converted(u, goal, Cardinality(g.ready))
            ELSE IF IsTolerated(again, goal) \/ turned THEN {current}
            ELSE {Directed(x, again, goal, current) :
                     x \in Converted(again, goal, Cardinality(DOMAIN filled))}
  BY DEF tidyAndCalculateDesiredReplicas, Requested
<1>3. \A v, c : Converted(v, goal, c) = {Ceil(v, c, goal)}
  BY <1>1 DEF Converted, Ceil
<1> HIDE DEF g, r, measured, u, filled, again
<1>4. /\ u # NoUtilization
      /\ n = IF ~Rebalanced(g, u, goal) /\ g.missing = {}
             THEN Plain(u, Cardinality(g.ready), goal, current)
             ELSE Careful(u, again, Cardinality(DOMAIN filled), goal, current)
  BY <1>1, <1>2, <1>3 DEF Plain, Careful
<1>5. QED
  BY <1>4 DEF g, r, measured, u, filled, again

LEMMA PlainType ==
    ASSUME NEW u \in Nat, NEW count \in Nat, NEW goal \in Nat \ {0}, NEW current \in Nat
    PROVE  Plain(u, count, goal, current) \in Nat
BY CeilType DEF Plain

LEMMA CarefulType ==
    ASSUME NEW u, NEW again \in Nat, NEW count \in Nat, NEW goal \in Nat \ {0}, NEW current \in Nat
    PROVE  Careful(u, again, count, goal, current) \in Nat
BY CeilType DEF Careful, Directed

\* A utilization that is what it should be is tolerated.
LEMMA EvenTolerated ==
    ASSUME NEW goal \in Nat \ {0}
    PROVE  IsTolerated(goal, goal)
<1>1. Toleration \in Nat /\ Toleration * goal \in Nat
  BY TolerationAssumption, ProductType
<1>2. QED
  BY <1>1 DEF IsTolerated

\* Filling in never turns the direction around.
LEMMA CarefulDirection ==
    ASSUME NEW u \in Nat, NEW again \in Nat, NEW count \in Nat, NEW goal \in Nat \ {0},
           NEW current \in Nat
    PROVE  /\ u < goal => Careful(u, again, count, goal, current) <= current
           /\ u > goal => Careful(u, again, count, goal, current) >= current
<1>1. Ceil(again, count, goal) \in Nat
  BY CeilType
<1>2. CASE again = goal
  BY <1>2, EvenTolerated DEF Careful
<1>3. CASE again < goal
  BY <1>1, <1>3 DEF Careful, Directed
<1>4. CASE again > goal
  BY <1>1, <1>4 DEF Careful, Directed
<1>5. QED
  BY <1>2, <1>3, <1>4

\* The counts and the utilizations an answer is made of are numbers.
LEMMA AnswerParts ==
    ASSUME NEW view, NEW samples, NEW asked, NEW goal, NEW current,
           Readable(samples, view, asked, goal, current),
           NEW kind, NEW time, NEW g, g = groupPods(view, samples, kind, time),
           NEW r, r = Requested(view, asked), NEW measured, measured = Measured(samples, g),
           NEW u, u = Utilization(measured, r), u # NoUtilization
    PROVE  /\ u \in Nat /\ Utilization(Filled(measured, g, r, u, goal), r) \in Nat
           /\ Cardinality(DOMAIN Filled(measured, g, r, u, goal)) \in Nat
           /\ IsFiniteSet(g.ready) /\ Cardinality(g.ready) \in Nat
           /\ IsFiniteSet(Live(view)) /\ Cardinality(g.ready) <= Cardinality(Live(view))
<1>1. /\ u \in Nat
      /\ Total(r, g.ready) \in Nat \ {0} /\ Total(measured, g.ready) \in Nat
  BY MeasuredUtilization
<1> DEFINE again == Utilization(Filled(measured, g, r, u, goal), r)
           names == DOMAIN Filled(measured, g, r, u, goal)
<1>2. /\ Total(r, g.missing) \in Nat /\ Total(r, g.unready) \in Nat /\ IsFiniteSet(names)
      /\ again =
           IF u < goal
           THEN ((Total(measured, g.ready) + Total(r, g.missing)) * 100)
                   \div (Total(r, g.ready) + Total(r, g.missing))
           ELSE IF u = goal THEN u
           ELSE (Total(measured, g.ready) * 100)
                   \div (Total(r, g.ready) + Total(r, g.missing) + Total(r, g.unready))
  BY FilledUtilization
<1> HIDE DEF again, names
<1>3. again \in Nat
  <2>1. /\ (Total(measured, g.ready) + Total(r, g.missing)) * 100 \in Nat
        /\ Total(measured, g.ready) * 100 \in Nat
        /\ Total(r, g.ready) + Total(r, g.missing) \in Nat \ {0}
        /\ Total(r, g.ready) + Total(r, g.missing) + Total(r, g.unready) \in Nat \ {0}
    BY <1>1, <1>2
  <2>2. QED
    BY <1>1, <1>2, <2>1, QuotientBounds
<1>4. Cardinality(names) \in Nat
  BY <1>2, FS_CardinalityType
<1>5. g.ready \subseteq Live(view) /\ Live(view) \subseteq DOMAIN view
  <2>1. g.missing \cup g.unready \cup g.ready = Live(view)
    BY GroupsShape
  <2>2. Live(view) \subseteq DOMAIN view
    BY DEF Live
  <2>3. QED
    BY <2>1, <2>2
<1>6. IsFiniteSet(Live(view))
  BY <1>5, FS_Subset DEF Readable
<1>7. /\ IsFiniteSet(g.ready) /\ Cardinality(g.ready) <= Cardinality(Live(view))
      /\ Cardinality(g.ready) \in Nat
  BY <1>5, <1>6, FS_Subset, FS_CardinalityType
<1>8. QED
  BY <1>1, <1>3, <1>4, <1>6, <1>7 DEF again, names

\* An answer goes the way the utilization points, or no further than the live pods.
LEMMA AnswerDirection ==
    ASSUME NEW view, NEW samples, NEW asked, NEW goal, NEW current,
           Readable(samples, view, asked, goal, current), NEW kind, NEW time,
           NEW n \in tidyAndCalculateDesiredReplicas(samples, view, asked, kind, goal, current, time)
    PROVE  LET u == Utilization(Measured(samples, groupPods(view, samples, kind, time)),
                                Requested(view, asked))
               known == Cardinality(Live(view))
           IN  /\ n \in Nat /\ u \in Nat
               /\ u < goal => n <= current \/ n <= known
               /\ u > goal => n >= current \/ n >= known
<1> DEFINE g == groupPods(view, samples, kind, time)
           r == Requested(view, asked)
           measured == Measured(samples, g)
           u == Utilization(measured, r)
           filled == Filled(measured, g, r, u, goal)
           again == Utilization(filled, r)
           known == Cardinality(Live(view))
<1>1. /\ u # NoUtilization
      /\ n = IF ~Rebalanced(g, u, goal) /\ g.missing = {}
             THEN Plain(u, Cardinality(g.ready), goal, current)
             ELSE Careful(u, again, Cardinality(DOMAIN filled), goal, current)
  BY Answer
<1>2. /\ u \in Nat /\ again \in Nat
      /\ Cardinality(DOMAIN filled) \in Nat
      /\ Cardinality(g.ready) \in Nat /\ IsFiniteSet(Live(view))
      /\ Cardinality(g.ready) <= known
  BY <1>1, AnswerParts
<1>3. known \in Nat
  BY <1>2, FS_CardinalityType
<1>4. g.unready = {} /\ g.missing = {} => g.ready = Live(view)
  <2>1. g.missing \cup g.unready \cup g.ready = Live(view)
    BY GroupsShape
  <2>2. QED
    BY <2>1
<1>5. goal \in Nat \ {0} /\ current \in Nat
  BY DEF Readable
<1> HIDE DEF g, r, measured, u, filled, again, known
<1>6. CASE ~Rebalanced(g, u, goal) /\ g.missing = {}
  <2>1. n = Plain(u, Cardinality(g.ready), goal, current)
    BY <1>1, <1>6
  <2>2. n \in Nat
    BY <1>2, <1>5, <2>1, PlainType
  <2>3. CASE n = current
    BY <1>2, <1>5, <2>2, <2>3 DEF u, g, measured, r, known
  <2>4. CASE n # current
    <3>1. n = Ceil(u, Cardinality(g.ready), goal)
      BY <2>1, <2>4 DEF Plain
    <3>2. /\ u <= goal => n <= Cardinality(g.ready)
          /\ u >= goal => n >= Cardinality(g.ready)
      BY <1>2, <1>5, <3>1, CeilDirection
    <3>3. u > goal => Cardinality(g.ready) = known
      BY <1>4, <1>6 DEF Rebalanced, known
    <3>4. /\ u < goal => n <= known
          /\ u > goal => n >= known
      BY <1>2, <1>3, <1>5, <2>2, <3>2, <3>3
    <3>5. QED
      BY <1>2, <2>2, <3>4 DEF u, g, measured, r, known
  <2>5. QED
    BY <2>3, <2>4
<1>7. CASE ~(~Rebalanced(g, u, goal) /\ g.missing = {})
  <2>1. n = Careful(u, again, Cardinality(DOMAIN filled), goal, current)
    BY <1>1, <1>7
  <2>2. /\ n \in Nat
        /\ u < goal => n <= current
        /\ u > goal => n >= current
    BY <1>2, <1>5, <2>1, CarefulType, CarefulDirection
  <2>3. QED
    BY <1>2, <2>2 DEF u, g, measured, r, known
<1>8. QED
  BY <1>6, <1>7

-----------------------------------------------------------------------------
(* The types                                                               *)

LEMMA LiveFinite ==
    ASSUME NEW view, IsView(view)
    PROVE  IsFiniteSet(DOMAIN view) /\ IsFiniteSet(Live(view)) /\ Cardinality(Live(view)) \in Nat
<1>1. DOMAIN view \subseteq Names /\ Live(view) \subseteq DOMAIN view /\ IsFiniteSet(Names)
  BY ViewAssumption DEF IsView, Live
<1>2. IsFiniteSet(DOMAIN view)
  BY <1>1, FS_Subset
<1>3. IsFiniteSet(Live(view))
  BY <1>1, <1>2, FS_Subset
<1>4. QED
  BY <1>2, <1>3, FS_CardinalityType

LEMMA TypeInit ==
    ASSUME Init
    PROVE  WellTyped
<1>1. 0 \in Times /\ InitialTime \in Times
  BY ViewAssumption DEF Times
<1>2. PICK running \in InitialSets :
        /\ pods = [p \in running |-> [phase |-> "Running", deleting |-> FALSE, born |-> 0,
                                     start |-> 0, ready |-> "True", since |-> 0]]
        /\ \E v \in [running -> Values] :
              metrics = [p \in running |-> [timestamp |-> InitialTime, value |-> v[p]]]
  BY DEF Init
<1>3. running \subseteq Names
  BY ViewAssumption
<1>4. IsView(pods)
  BY <1>1, <1>2, <1>3 DEF IsView, Pod
<1>5. DOMAIN metrics \subseteq Names /\ \A p \in DOMAIN metrics : metrics[p] \in PodMetric(Times)
  <2>1. PICK v \in [running -> Values] :
          metrics = [p \in running |-> [timestamp |-> InitialTime, value |-> v[p]]]
    BY <1>2
  <2>2. \A p \in running : v[p] \in Nat
    BY ViewAssumption
  <2>3. QED
    BY <1>1, <1>3, <2>1, <2>2 DEF PodMetric
<1>6. replicas \in Nat /\ currentReplicas \in Nat
  <2>1. IsFiniteSet(DOMAIN pods)
    BY <1>4, LiveFinite
  <2>2. QED
    BY <2>1, FS_CardinalityType DEF Init
<1>7. listed = pods /\ resource \in DOMAIN Requests /\ requests = Requests[resource]
      /\ target \in Targets /\ exhausted \in BOOLEAN /\ now = InitialTime /\ events = 0
  BY DEF Init
<1>8. QED
  BY <1>1, <1>4, <1>5, <1>6, <1>7, ViewAssumption DEF WellTyped

\* One pod changes, comes or goes.
LEMMA PodsStep ==
    ASSUME WellTyped, Cluster
    PROVE  IsView(pods')
<1>1. IsView(pods) /\ now \in Times
  BY DEF WellTyped
<1>2. ASSUME NEW p \in DOMAIN pods, NEW pod \in Pod(Times), pods' = [pods EXCEPT ![p] = pod]
      PROVE  IsView(pods')
  BY <1>1, <1>2 DEF IsView
<1>3. ASSUME NEW p \in Names, CreatePod(p) PROVE IsView(pods')
  <2> DEFINE pod == [phase |-> "Pending", deleting |-> FALSE, born |-> now,
                     start |-> now, ready |-> "None", since |-> now]
  <2>1. pod \in Pod(Times)
    BY <1>1 DEF Pod
  <2>2. pods' = [q \in DOMAIN pods \cup {p} |-> IF q # p THEN pods[q] ELSE pod]
    BY <1>3 DEF CreatePod
  <2> HIDE DEF pod
  <2>3. QED
    BY <1>1, <2>1, <2>2 DEF IsView
<1>4. ASSUME NEW p \in DOMAIN pods, StartPod(p) \/ FlipReady(p) \/ FailPod(p) \/ DeletePod(p)
      PROVE  IsView(pods')
  <2>1. pods[p] \in Pod(Times)
    BY <1>1 DEF IsView
  <2>2. CASE StartPod(p)
    <3>1. [pods[p] EXCEPT !.phase = "Running", !.start = now, !.ready = "False", !.since = now]
            \in Pod(Times)
      BY <1>1, <2>1 DEF Pod
    <3>2. QED
      BY <1>2, <2>2, <3>1 DEF StartPod, PodChanges
  <2>3. CASE FlipReady(p)
    <3>1. [pods[p] EXCEPT !.ready = IF @ = "True" THEN "False" ELSE "True", !.since = now]
            \in Pod(Times)
      BY <1>1, <2>1 DEF Pod
    <3>2. QED
      BY <1>2, <2>3, <3>1 DEF FlipReady, PodChanges
  <2>4. CASE FailPod(p)
    <3>1. [pods[p] EXCEPT !.phase = "Failed"] \in Pod(Times)
      BY <2>1 DEF Pod
    <3>2. QED
      BY <1>2, <2>4, <3>1 DEF FailPod, PodChanges
  <2>5. CASE DeletePod(p)
    <3>1. [pods[p] EXCEPT !.deleting = TRUE] \in Pod(Times)
      BY <2>1 DEF Pod
    <3>2. QED
      BY <1>2, <2>5, <3>1 DEF DeletePod, PodChanges
  <2>6. QED
    BY <1>4, <2>2, <2>3, <2>4, <2>5
<1>5. ASSUME NEW p \in DOMAIN pods, RemovePod(p) PROVE IsView(pods')
  BY <1>1, <1>5 DEF RemovePod, IsView
<1>6. ASSUME NEW p, Scrape(p) \/ LoseSample(p) PROVE IsView(pods')
  BY <1>1, <1>6 DEF Scrape, LoseSample
<1>7. QED
  BY <1>3, <1>4, <1>5, <1>6 DEF Cluster

LEMMA MetricsStep ==
    ASSUME WellTyped, Cluster
    PROVE  DOMAIN metrics' \subseteq Names /\ \A p \in DOMAIN metrics' : metrics'[p] \in PodMetric(Times)
<1>1. DOMAIN metrics \subseteq Names /\ \A p \in DOMAIN metrics : metrics[p] \in PodMetric(Times)
  BY DEF WellTyped
<1>2. ASSUME NEW p \in DOMAIN pods, Scrape(p)
      PROVE  DOMAIN metrics' \subseteq Names /\ \A q \in DOMAIN metrics' : metrics'[q] \in PodMetric(Times)
  <2>1. PICK v \in Values :
          metrics' = Over([q \in {p} |-> [timestamp |-> now, value |-> v]], metrics)
    BY <1>2 DEF Scrape
  <2>2. [timestamp |-> now, value |-> v] \in PodMetric(Times) /\ p \in Names
    BY ViewAssumption DEF WellTyped, PodMetric, IsView
  <2>3. QED
    BY <1>1, <2>1, <2>2 DEF Over
<1>3. ASSUME NEW p, LoseSample(p)
      PROVE  DOMAIN metrics' \subseteq Names /\ \A q \in DOMAIN metrics' : metrics'[q] \in PodMetric(Times)
  BY <1>1, <1>3 DEF LoseSample
<1>4. CASE UNCHANGED metrics
  BY <1>1, <1>4
<1>5. ASSUME NEW p, CreatePod(p) \/ StartPod(p) \/ FlipReady(p) \/ FailPod(p) \/ DeletePod(p)
                    \/ RemovePod(p)
      PROVE  UNCHANGED metrics
  BY <1>5 DEF CreatePod, StartPod, FlipReady, FailPod, DeletePod, RemovePod, PodChanges
<1>6. QED
  BY <1>2, <1>3, <1>4, <1>5 DEF Cluster

LEMMA TypeStep ==
    ASSUME WellTyped, [Next]_vars
    PROVE  WellTyped'
<1>1. CASE Cluster
  <2>1. Happens
    BY <1>1 DEF Cluster, CreatePod, StartPod, FlipReady, FailPod, DeletePod, RemovePod, Scrape,
                LoseSample, PodChanges
  <2>2. events' \in 0..Events
    BY <2>1, ViewAssumption DEF Happens, WellTyped
  <2>3. UNCHANGED <<listed, requests, resource, target, replicas, currentReplicas, exhausted, now>>
    BY <2>1 DEF Happens, given, status
  <2>4. IsView(listed')
    BY <2>3 DEF WellTyped, IsView
  <2>5. QED
    BY <1>1, <2>2, <2>3, <2>4, PodsStep, MetricsStep DEF WellTyped, IsView
<1>2. CASE Tick
  <2>1. now' \in Times
    BY <1>2, ViewAssumption DEF Tick, WellTyped, Times
  <2>2. UNCHANGED <<pods, listed, metrics, requests, resource, target, replicas, currentReplicas,
                    exhausted, events>>
    BY <1>2 DEF Tick, given, status
  <2>3. QED
    BY <2>1, <2>2 DEF WellTyped, IsView
<1>3. CASE ListerSync
  BY <1>3 DEF ListerSync, WellTyped, IsView, given, status
<1>4. CASE Pass
  <2>1. exhausted' \in BOOLEAN
    BY <1>4 DEF Pass, UpdateStatus, updateExhaustedAutoscaler, IsExhausted
  <2>2. currentReplicas' \in Nat
    BY <1>4, LiveFinite DEF Pass, UpdateStatus, UpdateCurrentReplicas, WellTyped
  <2>3. replicas' \in Nat
    BY <1>4, ViewAssumption DEF Pass, WithinLimits, WellTyped
  <2>4. UNCHANGED <<pods, listed, metrics, requests, resource, target, now, events>>
    BY <1>4 DEF Pass, given
  <2>5. QED
    BY <2>1, <2>2, <2>3, <2>4 DEF WellTyped, IsView
<1>5. CASE UNCHANGED vars
  BY <1>5 DEF vars, given, status, WellTyped, IsView
<1>6. QED
  BY <1>1, <1>2, <1>3, <1>4, <1>5 DEF Next

-----------------------------------------------------------------------------
(* The direction of an answer                                              *)

LEMMA ViewsReadable ==
    ASSUME WellTyped, target > 0, RequestsKnown(listed, requests)
    PROVE  Readable(metrics, listed, requests, target, replicas)
<1>1. IsFiniteSet(DOMAIN listed) /\ IsFiniteSet(DOMAIN metrics)
  BY LiveFinite, ViewAssumption, FS_Subset DEF WellTyped
<1>2. \A p \in DOMAIN metrics : metrics[p].value \in Nat
  BY DEF WellTyped, PodMetric
<1>3. \A p \in DOMAIN requests : requests[p] \in Nat
  BY ViewAssumption DEF WellTyped
<1>4. target \in Nat \ {0} /\ replicas \in Nat
  BY ViewAssumption DEF WellTyped
<1>5. QED
  BY <1>1, <1>2, <1>3, <1>4 DEF Readable

\* Get answers with the replicas there are, or asks tidyAndCalculateDesiredReplicas.
LEMMA AnswersFrom ==
    ASSUME NEW n \in Answers
    PROVE  \/ n = replicas
           \/ /\ RequestsKnown(listed, requests)
              /\ n \in tidyAndCalculateDesiredReplicas(metrics, listed, requests, resource, target,
                                                       replicas, now)
<1>1. \/ n = replicas
      \/ n \in tidyAndCalculateDesiredReplicas(metrics, listed, requests, resource, target,
                                               replicas, now)
  BY DEF Answers, Get
<1>2. ASSUME ~RequestsKnown(listed, requests)
      PROVE  tidyAndCalculateDesiredReplicas(metrics, listed, requests, resource, target,
                                             replicas, now) = {}
  BY <1>2 DEF tidyAndCalculateDesiredReplicas
<1>3. QED
  BY <1>1, <1>2

LEMMA AnswersNat ==
    ASSUME WellTyped, target > 0, NEW n \in Answers
    PROVE  n \in Nat
<1>1. CASE n = replicas
  BY <1>1 DEF WellTyped
<1>2. CASE n # replicas
  <2>1. /\ RequestsKnown(listed, requests)
        /\ n \in tidyAndCalculateDesiredReplicas(metrics, listed, requests, resource, target,
                                                 replicas, now)
    BY <1>2, AnswersFrom
  <2>2. Readable(metrics, listed, requests, target, replicas)
    BY <2>1, ViewsReadable
  <2>3. QED
    BY <2>1, <2>2, AnswerDirection
<1>3. QED
  BY <1>1, <1>2

\* Every variable has its type, and in every mixture of the views the cpu and memory scalers
\* answer with a natural number of replicas, or not at all.
THEOREM TypeCorrect == Spec => []TypeOK
<1>1. Spec => []WellTyped
  BY TypeInit, TypeStep, PTL DEF Spec
<1>2. WellTyped => TypeOK
  BY AnswersNat DEF TypeOK
<1>3. QED
  BY <1>1, <1>2, PTL

\* The guards of tidyAndCalculateDesiredReplicas keep the direction, whatever is missing, left
\* over or unready: a target used less than it should be is not scaled up while the lister
\* knows no more pods than there are replicas, and one used more is not scaled down while it
\* knows no fewer.
THEOREM DirectionAlwaysKept == Spec => []DirectionKept
<1>1. ASSUME WellTyped PROVE DirectionKept
  <2> DEFINE u == Utilization(Measured(metrics, groupPods(listed, metrics, resource, now)),
                              [p \in DOMAIN listed |-> requests[p]])
             known == Cardinality(Live(listed))
  <2>1. SUFFICES ASSUME target > 0, RequestsKnown(listed, requests), NEW n \in Answers
                 PROVE  /\ u < target /\ known <= replicas => n <= replicas
                        /\ u > target /\ known >= replicas => n >= replicas
    BY DEF DirectionKept
  <2>2. replicas \in Nat /\ target \in Nat /\ known \in Nat
    BY <1>1, ViewAssumption, LiveFinite DEF WellTyped
  <2>3. CASE n = replicas
    BY <2>2, <2>3
  <2>4. CASE n # replicas
    <3>1. Readable(metrics, listed, requests, target, replicas)
      BY <1>1, <2>1, ViewsReadable
    <3>2. n \in tidyAndCalculateDesiredReplicas(metrics, listed, requests, resource, target,
                                                replicas, now)
      BY <2>4, AnswersFrom
    <3>3. /\ n \in Nat
          /\ u < target => n <= replicas \/ n <= known
          /\ u > target => n >= replicas \/ n >= known
      BY <3>1, <3>2, AnswerDirection DEF Requested
    <3> HIDE DEF u, known
    <3>4. QED
      BY <2>2, <3>3
  <2>5. QED
    BY <2>3, <2>4
<1>2. QED
  BY <1>1, TypeInit, TypeStep, PTL DEF Spec

-----------------------------------------------------------------------------
(* Missing samples                                                         *)

\* With the missing samples no pod is missing: one that is still starting is unready then,
\* the others are ready.
LEMMA GroupsFilled ==
    ASSUME NEW view, NEW samples, NEW kind, NEW time, NEW filling, NEW g, NEW h,
           g = groupPods(view, samples, kind, time), DOMAIN filling = g.missing,
           h = groupPods(view, Over(filling, samples), kind, time)
    PROVE  /\ h.ignored = g.ignored /\ h.missing = {}
           /\ \A p : p \in h.unready => p \in g.unready \/ p \in g.missing
           /\ g.unready \subseteq h.unready /\ g.ready \subseteq h.ready
           /\ \A p : p \in h.ready => p \in g.ready \/ p \in g.missing
           /\ \A p \in g.missing : p \in h.ready <=> p \notin h.unready
           /\ kind # "cpu" => h.unready = g.unready
<1> DEFINE live == {p \in DOMAIN view : ~IsIgnored(view[p])}
           pending == {p \in live : view[p].phase = "Pending"}
           missing == {p \in live \ pending : p \notin DOMAIN samples}
           early == {p \in live \ (pending \cup missing) :
                       kind = "cpu" /\ IsUnready(view[p], samples[p], time)}
           all == Over(filling, samples)
           none == {p \in live \ pending : p \notin DOMAIN all}
           later == {p \in live \ (pending \cup none) :
                       kind = "cpu" /\ IsUnready(view[p], all[p], time)}
<1>1. g = [ignored |-> DOMAIN view \ live, missing |-> missing, unready |-> pending \cup early,
           ready   |-> live \ (pending \cup missing \cup early)]
  BY Zenon DEF groupPods
<1>2. h = [ignored |-> DOMAIN view \ live, missing |-> none, unready |-> pending \cup later,
           ready   |-> live \ (pending \cup none \cup later)]
  BY Zenon DEF groupPods
<1>3. DOMAIN filling = missing
  BY <1>1
<1>4. /\ DOMAIN all = DOMAIN filling \cup DOMAIN samples
      /\ \A p \in DOMAIN samples : p \notin DOMAIN filling => all[p] = samples[p]
  BY OverShape
<1>5. none = {}
  BY <1>3, <1>4
<1>6. \A p \in live \ (pending \cup missing) : p \in early <=> p \in later
  BY <1>3, <1>4, <1>5
<1>7. /\ pending \subseteq live /\ missing \subseteq live \ pending
      /\ early \subseteq live \ (pending \cup missing) /\ later \subseteq live \ pending
      /\ kind # "cpu" => early = {} /\ later = {}
  OBVIOUS
<1> HIDE DEF live, pending, missing, early, all, none, later
<1>8. QED
  BY <1>1, <1>2, <1>5, <1>6, <1>7

\* Samples the missing pods could have had.
IsFilling(filling, missing, asked) ==
    /\ DOMAIN filling = missing
    /\ \A p \in missing : filling[p].value \in Nat /\ filling[p].value <= asked[p]

LEMMA FilledReadable ==
    ASSUME NEW view, NEW samples, NEW asked, NEW goal, NEW current,
           Readable(samples, view, asked, goal, current), NEW kind, NEW time, NEW filling,
           IsFilling(filling, groupPods(view, samples, kind, time).missing, asked)
    PROVE  Readable(Over(filling, samples), view, asked, goal, current)
<1> DEFINE g == groupPods(view, samples, kind, time)
<1>1. DOMAIN filling = g.missing /\ \A p \in DOMAIN filling : filling[p].value \in Nat
  BY DEF IsFilling
<1>2. g.missing \subseteq DOMAIN view
  <2>1. g.ignored \cup g.missing \cup g.unready \cup g.ready = DOMAIN view
    BY GroupsShape
  <2>2. QED
    BY <2>1
<1> HIDE DEF g
<1>3. IsFiniteSet(DOMAIN filling \cup DOMAIN samples)
  BY <1>1, <1>2, FS_Subset, FS_Union DEF Readable
<1> DEFINE all == Over(filling, samples)
<1>4. /\ DOMAIN all = DOMAIN filling \cup DOMAIN samples
      /\ \A p \in DOMAIN filling : all[p] = filling[p]
      /\ \A p \in DOMAIN samples : p \notin DOMAIN filling => all[p] = samples[p]
  BY OverShape
<1> HIDE DEF all
<1>5. \A p \in DOMAIN all : all[p].value \in Nat
  BY <1>1, <1>4 DEF Readable
<1>6. QED
  BY <1>3, <1>4, <1>5 DEF Readable, all

\* The missing pods that would be ready, and those that would be unready.
LEMMA FilledTotals ==
    ASSUME NEW view, NEW samples, NEW asked, NEW goal, NEW current,
           Readable(samples, view, asked, goal, current), NEW kind, NEW time, NEW filling,
           NEW g, g = groupPods(view, samples, kind, time), IsFilling(filling, g.missing, asked),
           NEW h, h = groupPods(view, Over(filling, samples), kind, time),
           NEW r, r = Requested(view, asked)
    PROVE  LET shown == h.ready \cap g.missing
               hidden == h.unready \cap g.missing
               before == Measured(samples, g)
               after == Measured(Over(filling, samples), h)
           IN  /\ Total(r, g.ready) \in Nat /\ Total(r, g.unready) \in Nat
               /\ Total(r, shown) \in Nat /\ Total(r, hidden) \in Nat
               /\ Total(before, g.ready) \in Nat /\ Total(after, shown) \in Nat
               /\ Total(r, h.ready) = Total(r, g.ready) + Total(r, shown)
               /\ Total(r, h.unready) = Total(r, g.unready) + Total(r, hidden)
               /\ Total(r, g.missing) = Total(r, shown) + Total(r, hidden)
               /\ Total(after, h.ready) = Total(before, g.ready) + Total(after, shown)
               /\ Total(after, shown) <= Total(r, shown)
               /\ kind # "cpu" => Total(r, hidden) = 0
<1> DEFINE shown == h.ready \cap g.missing
           hidden == h.unready \cap g.missing
           all == Over(filling, samples)
           before == Measured(samples, g)
           after == Measured(all, h)
<1>1. /\ g.ignored \cup g.missing \cup g.unready \cup g.ready = DOMAIN view
      /\ g.ignored \cap (g.missing \cup g.unready \cup g.ready) = {}
      /\ g.missing \cap g.unready = {} /\ g.missing \cap g.ready = {}
      /\ g.unready \cap g.ready = {}
      /\ g.ready \subseteq DOMAIN samples /\ g.missing \cap DOMAIN samples = {}
  BY GroupsShape
<1>2. /\ DOMAIN filling = g.missing
      /\ \A p \in g.missing : filling[p].value \in Nat /\ filling[p].value <= asked[p]
  BY DEF IsFilling
<1>3. /\ h.ignored = g.ignored /\ h.missing = {}
      /\ \A p : p \in h.unready => p \in g.unready \/ p \in g.missing
      /\ g.unready \subseteq h.unready /\ g.ready \subseteq h.ready
      /\ \A p : p \in h.ready => p \in g.ready \/ p \in g.missing
      /\ \A p \in g.missing : p \in h.ready <=> p \notin h.unready
      /\ kind # "cpu" => h.unready = g.unready
  BY <1>2, GroupsFilled
<1>4. /\ h.ready = g.ready \cup shown /\ g.ready \cap shown = {}
      /\ h.unready = g.unready \cup hidden /\ g.unready \cap hidden = {}
      /\ g.missing = shown \cup hidden /\ shown \cap hidden = {}
      /\ kind # "cpu" => hidden = {}
  BY <1>1, <1>3
<1>5. /\ DOMAIN r = DOMAIN view /\ \A p \in DOMAIN view : r[p] \in Nat /\ r[p] = asked[p]
      /\ IsFiniteSet(DOMAIN view)
  BY DEF Readable, RequestsKnown, Requested
<1>6. /\ IsFiniteSet(g.ready) /\ IsFiniteSet(g.unready) /\ IsFiniteSet(shown)
      /\ IsFiniteSet(hidden)
  BY <1>1, <1>5, FS_Subset
<1>7. /\ DOMAIN all = DOMAIN filling \cup DOMAIN samples
      /\ \A p \in DOMAIN filling : all[p] = filling[p]
      /\ \A p \in DOMAIN samples : p \notin DOMAIN filling => all[p] = samples[p]
  BY OverShape
<1>8. /\ DOMAIN before = DOMAIN samples \ (g.ignored \cup g.unready)
      /\ \A p \in DOMAIN before : before[p] = samples[p].value
  BY MeasuredShape
<1>9. /\ DOMAIN after = DOMAIN all \ (h.ignored \cup h.unready)
      /\ \A p \in DOMAIN after : after[p] = all[p].value
  BY MeasuredShape
<1> HIDE DEF shown, hidden, all, before, after
<1>10. \A p \in g.ready : before[p] \in Nat /\ after[p] = before[p]
  <2> SUFFICES ASSUME NEW p \in g.ready PROVE before[p] \in Nat /\ after[p] = before[p]
    OBVIOUS
  <2>1. p \in DOMAIN samples /\ p \notin DOMAIN filling /\ p \in DOMAIN before
    BY <1>1, <1>2, <1>8
  <2>2. p \in h.ready /\ p \notin h.unready /\ p \notin h.ignored
    BY <1>1, <1>3
  <2>3. QED
    BY <1>7, <1>8, <1>9, <2>1, <2>2 DEF Readable
<1>11. \A p \in shown : after[p] \in Nat /\ after[p] <= r[p] /\ r[p] \in Nat
  <2> SUFFICES ASSUME NEW p \in shown
               PROVE  after[p] \in Nat /\ after[p] <= r[p] /\ r[p] \in Nat
    OBVIOUS
  <2>1. p \in g.missing /\ p \notin h.unready /\ p \notin h.ignored /\ p \in DOMAIN view
    BY <1>1, <1>3, <1>4
  <2>2. QED
    BY <1>2, <1>5, <1>7, <1>9, <2>1
<1>12. \A p \in g.ready \cup g.unready \cup shown \cup hidden : r[p] \in Nat
  BY <1>1, <1>4, <1>5
<1>13. /\ Total(r, g.ready) \in Nat /\ Total(r, g.unready) \in Nat
       /\ Total(r, shown) \in Nat /\ Total(r, hidden) \in Nat
       /\ Total(before, g.ready) \in Nat /\ Total(after, shown) \in Nat
  BY <1>6, <1>10, <1>11, <1>12, TotalType
<1>14. /\ Total(r, h.ready) = Total(r, g.ready) + Total(r, shown)
       /\ Total(r, h.unready) = Total(r, g.unready) + Total(r, hidden)
       /\ Total(r, g.missing) = Total(r, shown) + Total(r, hidden)
  BY <1>4, <1>6, <1>12, TotalUnion
<1>15. Total(after, h.ready) = Total(before, g.ready) + Total(after, shown)
  <2>1. \A p \in g.ready \cup shown : after[p] \in Nat
    BY <1>10, <1>11
  <2>2. Total(after, g.ready \cup shown) = Total(after, g.ready) + Total(after, shown)
    BY <1>4, <1>6, <2>1, TotalUnion
  <2>3. Total(after, g.ready) = Total(before, g.ready)
    BY <1>10, TotalSame
  <2>4. QED
    BY <1>4, <2>2, <2>3
<1>16. Total(after, shown) <= Total(r, shown)
  BY <1>6, <1>11, TotalMonotone
<1>17. kind # "cpu" => Total(r, hidden) = 0
  BY <1>4, TotalZero
<1>18. QED
  BY <1>13, <1>14, <1>15, <1>16, <1>17 DEF shown, hidden, all, before, after

\* Below a target of up to 100%, or if none of the missing pods would be unready, the
\* utilization is at its highest when the missing pods use all they request.
LEMMA HighestAssumed ==
    ASSUME NEW v \in Nat, NEW r \in Nat \ {0}, NEW f \in Nat, NEW shown \in Nat,
           NEW hidden \in Nat, f <= shown, NEW goal \in Nat,
           hidden = 0 \/ goal <= 100,
           ((v + (shown + hidden)) * 100) \div (r + (shown + hidden)) < goal
    PROVE  ((v + f) * 100) \div (r + shown)
             <= ((v + (shown + hidden)) * 100) \div (r + (shown + hidden))
<1> DEFINE a == v + shown
           b == r + shown
<1>1. a \in Nat /\ b \in Nat \ {0} /\ v + f \in Nat /\ v + f <= a
      /\ v + (shown + hidden) = a + hidden /\ r + (shown + hidden) = b + hidden
      /\ a + hidden \in Nat /\ b + hidden \in Nat \ {0}
  OBVIOUS
<1> HIDE DEF a, b
<1>2. (v + f) * (b + hidden) <= a * (b + hidden)
  BY <1>1, ProductMonotone
<1>3. a * (b + hidden) <= (a + hidden) * b
  <2>1. CASE hidden = 0
    BY <1>1, <2>1
  <2>2. CASE hidden # 0 /\ goal <= 100
    <3> DEFINE q == ((a + hidden) * 100) \div (b + hidden)
    <3>1. (a + hidden) * 100 \in Nat
      BY <1>1
    <3>2. q \in Nat /\ q < goal
      BY <1>1, <3>1, QuotientBounds
    <3>3. ~(100 <= q)
      BY <2>2, <3>2
    <3>4. ~(100 * (b + hidden) <= (a + hidden) * 100)
      BY <1>1, <3>1, <3>3, QuotientGreatest
    <3>5. a <= b
      BY <1>1, <3>4
    <3>6. a * hidden <= b * hidden
      BY <1>1, <3>5, ProductMonotone
    <3>7. a * (b + hidden) = a * b + a * hidden /\ (a + hidden) * b = a * b + b * hidden
      BY <1>1
    <3>8. a * b \in Nat /\ a * hidden \in Nat /\ b * hidden \in Nat
      BY <1>1, ProductType
    <3>9. QED
      BY <3>6, <3>7, <3>8
  <2>3. QED
    BY <2>1, <2>2
<1>4. (v + f) * (b + hidden) <= (a + hidden) * b
  <2>1. /\ (v + f) * (b + hidden) \in Nat /\ a * (b + hidden) \in Nat
        /\ (a + hidden) * b \in Nat
    BY <1>1, ProductType
  <2>2. QED
    BY <1>2, <1>3, <2>1
<1>5. ((v + f) * 100) \div b <= ((a + hidden) * 100) \div (b + hidden)
  BY <1>1, <1>4, PercentMonotone
<1>6. QED
  BY <1>1, <1>5 DEF b

\* It is at its lowest when the missing and the unready pods use nothing.
LEMMA LowestAssumed ==
    ASSUME NEW v \in Nat, NEW r \in Nat \ {0}, NEW f \in Nat, NEW more \in Nat
    PROVE  (v * 100) \div (r + more) <= ((v + f) * 100) \div r
<1>1. r + more \in Nat \ {0} /\ v + f \in Nat
  OBVIOUS
<1>2. v * r <= (v + f) * (r + more)
  <2>1. v * r <= (v + f) * r /\ (v + f) * r <= (v + f) * (r + more)
    BY <1>1, ProductMonotone
  <2>2. v * r \in Nat /\ (v + f) * r \in Nat /\ (v + f) * (r + more) \in Nat
    BY <1>1, ProductType
  <2>3. QED
    BY <2>1, <2>2
<1>3. QED
  BY <1>1, <1>2, PercentMonotone

\* What is further from the target than what is not tolerated is not tolerated.
LEMMA FurtherNotTolerated ==
    ASSUME NEW goal \in Nat \ {0}, NEW u \in Nat, ~IsTolerated(u, goal), NEW w \in Nat,
           (w <= u /\ u < goal) \/ (u <= w /\ u > goal)
    PROVE  ~IsTolerated(w, goal)
<1>1. Toleration * goal \in Nat
  BY TolerationAssumption, ProductType
<1>2. QED
  BY <1>1 DEF IsTolerated

\* A careful answer that changes the replicas is the one of the utilization it is made of.
LEMMA CarefulChange ==
    ASSUME NEW u \in Nat, NEW again \in Nat, NEW count \in Nat, NEW goal \in Nat \ {0},
           NEW current \in Nat, Careful(u, again, count, goal, current) # current
    PROVE  /\ Careful(u, again, count, goal, current) = Ceil(again, count, goal)
           /\ ~IsTolerated(again, goal)
           /\ u < goal => again < goal
           /\ u > goal => again > goal
<1>1. Ceil(again, count, goal) \in Nat
  BY CeilType
<1>2. ~IsTolerated(again, goal)
  BY DEF Careful
<1>3. again # goal
  BY <1>2, EvenTolerated
<1>4. QED
  BY <1>1, <1>2, <1>3 DEF Careful, Directed

\* Where nothing is missing, nothing is filled in.
LEMMA NothingMissing ==
    ASSUME NEW view, NEW samples, NEW kind, NEW time, NEW filling, NEW asked, NEW goal, NEW current,
           groupPods(view, samples, kind, time).missing = {}, DOMAIN filling = {}
    PROVE  tidyAndCalculateDesiredReplicas(Over(filling, samples), view, asked, kind, goal,
                                           current, time)
             = tidyAndCalculateDesiredReplicas(samples, view, asked, kind, goal, current, time)
<1> DEFINE all == Over(filling, samples)
<1>1. DOMAIN all = DOMAIN samples /\ \A p \in DOMAIN samples : all[p] = samples[p]
  BY OverShape
<1> HIDE DEF all
<1>2. groupPods(view, all, kind, time) = groupPods(view, samples, kind, time)
  <2> DEFINE live == {p \in DOMAIN view : ~IsIgnored(view[p])}
             pending == {p \in live : view[p].phase = "Pending"}
             missing(s) == {p \in live \ pending : p \notin DOMAIN s}
             early(s) == {p \in live \ (pending \cup missing(s)) :
                            kind = "cpu" /\ IsUnready(view[p], s[p], time)}
  <2>1. \A s : groupPods(view, s, kind, time)
                 = [ignored |-> DOMAIN view \ live, missing |-> missing(s),
                    unready |-> pending \cup early(s),
                    ready   |-> live \ (pending \cup missing(s) \cup early(s))]
    BY Zenon DEF groupPods
  <2>2. missing(all) = missing(samples)
    BY <1>1
  <2>3. \A p \in live \ (pending \cup missing(samples)) : all[p] = samples[p]
    BY <1>1
  <2>4. early(all) = early(samples)
    BY <2>2, <2>3
  <2> HIDE DEF live, pending, missing, early
  <2>5. QED
    BY <2>1, <2>2, <2>4, Zenon
<1> DEFINE g == groupPods(view, samples, kind, time)
<1>3. Measured(all, g) = Measured(samples, g)
  BY <1>1 DEF Measured
<1>4. QED
  BY <1>2, <1>3, Zenon DEF tidyAndCalculateDesiredReplicas, all

\* The count a careful answer is made of.
LEMMA CountMonotone ==
    ASSUME NEW some, NEW most, IsFiniteSet(most), some \subseteq most
    PROVE  /\ Cardinality(some) \in Nat /\ Cardinality(most) \in Nat
           /\ Cardinality(some) <= Cardinality(most)
BY FS_Subset, FS_CardinalityType

\* What the samples the missing pods could have had would change: a scale down would go at
\* least as far, and a scale up too unless samples of unknown pods are counted.
LEMMA FillingsConfirm ==
    ASSUME NEW view, NEW samples, NEW asked, NEW goal, NEW current,
           Readable(samples, view, asked, goal, current), NEW kind, NEW time, NEW filling,
           IsFilling(filling, groupPods(view, samples, kind, time).missing, asked),
           NEW n \in tidyAndCalculateDesiredReplicas(samples, view, asked, kind, goal, current, time),
           NEW m \in tidyAndCalculateDesiredReplicas(Over(filling, samples), view, asked, kind,
                                                     goal, current, time)
    PROVE  /\ n < current /\ (kind = "cpu" => goal <= 100) => m <= n
           /\ n > current /\ DOMAIN samples \subseteq DOMAIN view => m >= n
<1> DEFINE all == Over(filling, samples)
           r == Requested(view, asked)
           g == groupPods(view, samples, kind, time)
           before == Measured(samples, g)
           u == Utilization(before, r)
           filled == Filled(before, g, r, u, goal)
           again == Utilization(filled, r)
           h == groupPods(view, all, kind, time)
           after == Measured(all, h)
           w == Utilization(after, r)
           refilled == Filled(after, h, r, w, goal)
           anew == Utilization(refilled, r)
           shown == h.ready \cap g.missing
           hidden == h.unready \cap g.missing
<1>1. /\ u # NoUtilization
      /\ n = IF ~Rebalanced(g, u, goal) /\ g.missing = {}
             THEN Plain(u, Cardinality(g.ready), goal, current)
             ELSE Careful(u, again, Cardinality(DOMAIN filled), goal, current)
  BY Answer
<1>2. Readable(all, view, asked, goal, current)
  BY FilledReadable
<1>3. /\ w # NoUtilization
      /\ m = IF ~Rebalanced(h, w, goal) /\ h.missing = {}
             THEN Plain(w, Cardinality(h.ready), goal, current)
             ELSE Careful(w, anew, Cardinality(DOMAIN refilled), goal, current)
  <2> HIDE DEF all
  <2>1. m \in tidyAndCalculateDesiredReplicas(all, view, asked, kind, goal, current, time)
    BY DEF all
  <2>2. QED
    BY <1>2, <2>1, Answer
<1>4. goal \in Nat \ {0} /\ current \in Nat
  BY DEF Readable
<1>5. /\ u \in Nat /\ Total(r, g.ready) # 0
      /\ DOMAIN before \subseteq DOMAIN samples /\ DOMAIN before \cap DOMAIN view = g.ready
  BY <1>1, MeasuredUtilization
<1>6. /\ again \in Nat /\ Cardinality(DOMAIN filled) \in Nat /\ Cardinality(g.ready) \in Nat
  BY <1>1, AnswerParts
<1>7. /\ IsFiniteSet(DOMAIN filled)
      /\ \A p : p \in DOMAIN filled <=>
            \/ Rebalanced(g, u, goal) /\ p \in g.unready
            \/ u # goal /\ p \in g.missing
            \/ p \in DOMAIN before
      /\ again = IF u < goal
                 THEN ((Total(before, g.ready) + Total(r, g.missing)) * 100)
                         \div (Total(r, g.ready) + Total(r, g.missing))
                 ELSE IF u = goal THEN u
                 ELSE (Total(before, g.ready) * 100)
                         \div (Total(r, g.ready) + Total(r, g.missing) + Total(r, g.unready))
  BY <1>1, FilledUtilization
<1>8. /\ w \in Nat /\ w = (Total(after, h.ready) * 100) \div Total(r, h.ready)
      /\ DOMAIN after \subseteq DOMAIN all /\ DOMAIN after \cap DOMAIN view = h.ready
  <2> HIDE DEF all
  <2>1. QED
    BY <1>2, <1>3, MeasuredUtilization
<1>9. /\ anew \in Nat /\ Cardinality(DOMAIN refilled) \in Nat /\ Cardinality(h.ready) \in Nat
  <2> HIDE DEF all
  <2>1. QED
    BY <1>2, <1>3, AnswerParts
<1>10. /\ IsFiniteSet(DOMAIN refilled)
       /\ \A p : p \in DOMAIN refilled <=>
             \/ Rebalanced(h, w, goal) /\ p \in h.unready
             \/ w # goal /\ p \in h.missing
             \/ p \in DOMAIN after
       /\ anew = IF w < goal
                  THEN ((Total(after, h.ready) + Total(r, h.missing)) * 100)
                          \div (Total(r, h.ready) + Total(r, h.missing))
                  ELSE IF w = goal THEN w
                  ELSE (Total(after, h.ready) * 100)
                          \div (Total(r, h.ready) + Total(r, h.missing) + Total(r, h.unready))
  <2> HIDE DEF all
  <2>1. QED
    BY <1>2, <1>3, FilledUtilization
<1>11. /\ Total(r, g.ready) \in Nat /\ Total(r, g.unready) \in Nat
       /\ Total(r, shown) \in Nat /\ Total(r, hidden) \in Nat
       /\ Total(before, g.ready) \in Nat /\ Total(after, shown) \in Nat
       /\ Total(r, h.ready) = Total(r, g.ready) + Total(r, shown)
       /\ Total(r, h.unready) = Total(r, g.unready) + Total(r, hidden)
       /\ Total(r, g.missing) = Total(r, shown) + Total(r, hidden)
       /\ Total(after, h.ready) = Total(before, g.ready) + Total(after, shown)
       /\ Total(after, shown) <= Total(r, shown)
       /\ kind # "cpu" => Total(r, hidden) = 0
  <2>1. IsFilling(filling, g.missing, asked)
    OBVIOUS
  <2> HIDE DEF g
  <2>2. g = groupPods(view, samples, kind, time) /\ h = groupPods(view, Over(filling, samples), kind, time)
        /\ r = Requested(view, asked)
    BY DEF g
  <2> HIDE DEF h, r
  <2>3. QED
    BY <2>1, <2>2, FilledTotals, SMTT(60)
<1>12. DOMAIN filling = g.missing
  BY DEF IsFilling
<1>13. /\ h.ignored = g.ignored /\ h.missing = {}
       /\ \A p : p \in h.unready => p \in g.unready \/ p \in g.missing
       /\ g.unready \subseteq h.unready /\ g.ready \subseteq h.ready
       /\ \A p : p \in h.ready => p \in g.ready \/ p \in g.missing
       /\ \A p \in g.missing : p \in h.ready <=> p \notin h.unready
  BY <1>12, GroupsFilled
<1>14. Total(r, h.missing) = 0
  BY <1>13, TotalZero
<1>15. CASE g.missing = {}
  <2>1. m \in tidyAndCalculateDesiredReplicas(samples, view, asked, kind, goal, current, time)
    BY <1>12, <1>15, NothingMissing
  <2>2. m = IF ~Rebalanced(g, u, goal) /\ g.missing = {}
            THEN Plain(u, Cardinality(g.ready), goal, current)
            ELSE Careful(u, again, Cardinality(DOMAIN filled), goal, current)
    BY <2>1, Answer
  <2> HIDE DEF g, u, again, filled
  <2>3. m = n /\ n \in Nat
    BY <1>1, <1>4, <1>5, <1>6, <2>2, PlainType, CarefulType
  <2>4. QED
    BY <2>3
<1> DEFINE V == Total(before, g.ready)
           R == Total(r, g.ready)
           U == Total(r, g.unready)
           F == Total(after, shown)
           S == Total(r, shown)
           H == Total(r, hidden)
           count == Cardinality(DOMAIN filled)
<1>16. CASE g.missing # {}
  <2>1. n = Careful(u, again, count, goal, current)
    BY <1>1, <1>16
  <2>2. SUFFICES ASSUME n # current PROVE /\ n < current /\ (kind = "cpu" => goal <= 100) => m <= n
                                          /\ n > current /\ DOMAIN samples \subseteq DOMAIN view => m >= n
    BY <1>4
  <2> HIDE DEF all, r, g, before, u, filled, again, h, after, w, refilled, anew, shown, hidden
  <2>3. /\ n = Ceil(again, count, goal) /\ ~IsTolerated(again, goal)
        /\ u < goal => again < goal
        /\ u > goal => again > goal
        /\ u < goal => n <= current
        /\ u > goal => n >= current
    <3> HIDE DEF count
    <3>1. count \in Nat
      BY <1>6 DEF count
    <3>2. /\ n = Ceil(again, count, goal) /\ ~IsTolerated(again, goal)
          /\ u < goal => again < goal
          /\ u > goal => again > goal
      BY <1>4, <1>5, <1>6, <2>1, <2>2, <3>1, CarefulChange
    <3>3. /\ u < goal => n <= current
          /\ u > goal => n >= current
      BY <1>4, <1>5, <1>6, <2>1, <3>1, CarefulDirection
    <3>4. QED
      BY <3>2, <3>3
  <2>4. n \in Nat
    BY <1>4, <1>6, <2>3, CeilType
  <2>5. V \in Nat /\ R \in Nat \ {0} /\ U \in Nat /\ F \in Nat /\ S \in Nat /\ H \in Nat /\ F <= S
        /\ w = ((V + F) * 100) \div (R + S)
    BY <1>5, <1>8, <1>11
  <2>6. DOMAIN filling \subseteq DOMAIN all
    BY OverShape DEF all
  <2>7. CASE u < goal
    <3>1. again = ((V + (S + H)) * 100) \div (R + (S + H))
      BY <1>7, <1>11, <2>7
    <3>2. SUFFICES ASSUME n < current, kind = "cpu" => goal <= 100 PROVE m <= n
      BY <1>4, <2>3, <2>4, <2>7
    <3>3. H = 0 \/ goal <= 100
      BY <1>11, <3>2
    <3> HIDE DEF V, R, U, F, S, H
    <3>4. w <= again
      BY <1>4, <2>3, <2>5, <2>7, <3>1, <3>3, HighestAssumed
    <3>5. ~IsTolerated(w, goal) /\ ~(w > goal)
      BY <1>4, <1>6, <1>8, <2>3, <2>7, <3>4, FurtherNotTolerated
    <3>6. m = Ceil(w, Cardinality(h.ready), goal)
      BY <1>3, <1>13, <3>5 DEF Rebalanced, Plain
    <3>7. h.ready \subseteq DOMAIN filled
      BY <1>4, <1>5, <1>7, <1>13, <2>7
    <3>8. Cardinality(h.ready) <= count
      BY <1>7, <3>7, CountMonotone
    <3>9. QED
      BY <1>4, <1>6, <1>8, <1>9, <2>3, <3>4, <3>6, <3>8, CeilMonotone
  <2>8. CASE u = goal
    <3>1. again = goal
      BY <1>4, <1>7, <2>8
    <3>2. QED
      BY <1>4, <2>3, <3>1, EvenTolerated
  <2>9. CASE u > goal
    <3>1. SUFFICES ASSUME n > current, DOMAIN samples \subseteq DOMAIN view PROVE m >= n
      BY <1>4, <2>3, <2>4, <2>9
    <3>2. again = (V * 100) \div (R + (S + H) + U)
      BY <1>4, <1>5, <1>7, <1>11, <2>9
    <3>3. w > goal => anew = ((V + F) * 100) \div ((R + S) + (U + H))
      BY <1>4, <1>8, <1>10, <1>11, <1>14, <2>5
    <3>4. again <= w
      <4> HIDE DEF V, R, U, F, S, H
      <4>1. R + (S + H) + U = (R + S) + (H + U) /\ R + S \in Nat \ {0} /\ H + U \in Nat
        BY <2>5
      <4>2. QED
        BY <2>5, <3>2, <4>1, LowestAssumed
    <3>5. w > goal /\ ~IsTolerated(w, goal)
      BY <1>4, <1>6, <1>8, <2>3, <2>9, <3>4, FurtherNotTolerated
    <3>6. again <= anew
      <4>0. anew = ((V + F) * 100) \div ((R + S) + (U + H))
        BY <3>3, <3>5
      <4> HIDE DEF V, R, U, F, S, H
      <4>1. R + (S + H) + U = ((R + S) + (U + H)) + 0 /\ (R + S) + (U + H) \in Nat \ {0}
        BY <2>5
      <4>2. QED
        BY <2>5, <3>2, <4>0, <4>1, LowestAssumed
    <3>7. \A p \in DOMAIN filled : p \in h.ready \/ p \in h.unready
      BY <1>5, <1>7, <1>13, <3>1
    <3>8. CASE h.unready = {}
      <4>1. m = Ceil(w, Cardinality(h.ready), goal)
        BY <1>3, <1>13, <3>5, <3>8 DEF Rebalanced, Plain
      <4>2. DOMAIN filled \subseteq h.ready
        BY <3>7, <3>8
      <4>3. IsFiniteSet(h.ready)
        BY <1>2, <1>3, AnswerParts DEF h, w, after, r
      <4>4. count <= Cardinality(h.ready)
        BY <4>2, <4>3, CountMonotone
      <4>5. QED
        BY <1>4, <1>6, <1>8, <1>9, <2>3, <3>4, <4>1, <4>4, CeilMonotone
    <3>9. CASE h.unready # {}
      <4>1. m = Careful(w, anew, Cardinality(DOMAIN refilled), goal, current)
        BY <1>3, <3>5, <3>9 DEF Rebalanced
      <4>2. DOMAIN filled \subseteq DOMAIN refilled
        <5>1. Rebalanced(h, w, goal)
          BY <3>5, <3>9 DEF Rebalanced
        <5>2. QED
          BY <1>8, <1>10, <3>7, <5>1
      <4>3. count <= Cardinality(DOMAIN refilled)
        BY <1>10, <4>2, CountMonotone
      <4>4. ~IsTolerated(anew, goal) /\ anew > goal
        BY <1>4, <1>6, <1>9, <2>3, <2>9, <3>6, FurtherNotTolerated
      <4>5. Ceil(anew, Cardinality(DOMAIN refilled), goal) >= n
        BY <1>4, <1>6, <1>9, <2>3, <3>6, <4>3, CeilMonotone
      <4>6. Ceil(anew, Cardinality(DOMAIN refilled), goal) \in Nat
        BY <1>4, <1>9, CeilType
      <4>7. m = Ceil(anew, Cardinality(DOMAIN refilled), goal)
        BY <1>4, <1>8, <1>9, <2>4, <3>1, <3>5, <4>1, <4>4, <4>5, <4>6 DEF Careful, Directed
      <4>8. QED
        BY <4>5, <4>7
    <3>10. QED
      BY <3>8, <3>9
  <2>10. QED
    BY <1>4, <1>5, <2>7, <2>8, <2>9
<1>17. QED
  BY <1>15, <1>16

\* tidyAndCalculateDesiredReplicas errs on the careful side for any number of pods, whatever
\* they request and whatever the missing samples would have been up to the whole request:
\* with them a scale down would go at least as far (up to a target of 100% for cpu), and a
\* scale up too unless samples of pods the lister does not know are counted.
THEOREM MissingNeverMisleads == Spec => []MissingMetricsNeverMislead
<1>1. ASSUME WellTyped PROVE MissingMetricsNeverMislead
  <2>1. SUFFICES ASSUME target > 0, RequestsKnown(listed, requests),
                        NEW n \in Answers, NEW filling \in Fillings,
                        NEW m \in Get(Over(filling, metrics), listed, requests, resource, target,
                                      replicas, now)
                 PROVE  /\ n < replicas /\ (resource = "cpu" => target <= 100) => m <= n
                        /\ n > replicas /\ DOMAIN metrics \subseteq DOMAIN listed => m >= n
    BY DEF MissingMetricsNeverMislead
  <2>2. Readable(metrics, listed, requests, target, replicas)
    BY <1>1, <2>1, ViewsReadable
  <2>3. IsFilling(filling, groupPods(listed, metrics, resource, now).missing, requests)
    <3>1. MissingPods \subseteq DOMAIN listed
      <4>1. LET g == groupPods(listed, metrics, resource, now)
            IN  g.ignored \cup g.missing \cup g.unready \cup g.ready = DOMAIN listed
        BY GroupsShape
      <4>2. QED
        BY <4>1 DEF MissingPods
    <3>2. \A p \in MissingPods : requests[p] \in Nat
      BY <2>1, <2>2, <3>1 DEF Readable, RequestsKnown
    <3>3. PICK v \in [MissingPods -> UNION {0..requests[p] : p \in MissingPods}] :
            /\ \A p \in MissingPods : v[p] <= requests[p]
            /\ filling = [p \in MissingPods |-> [timestamp |-> now, value |-> v[p]]]
      BY DEF Fillings
    <3>4. ASSUME NEW p \in MissingPods PROVE v[p] \in Nat
      <4>1. PICK q \in MissingPods : v[p] \in 0..requests[q]
        BY <3>4
      <4>2. QED
        BY <3>2, <4>1
    <3>5. DOMAIN filling = MissingPods /\ \A p \in MissingPods : filling[p].value = v[p]
      BY <3>3
    <3>6. QED
      BY <3>3, <3>4, <3>5 DEF IsFilling, MissingPods
  <2>4. SUFFICES ASSUME n # replicas
                 PROVE  /\ n < replicas /\ (resource = "cpu" => target <= 100) => m <= n
                        /\ n > replicas /\ DOMAIN metrics \subseteq DOMAIN listed => m >= n
    BY <2>2 DEF Readable
  <2>5. n \in tidyAndCalculateDesiredReplicas(metrics, listed, requests, resource, target,
                                              replicas, now)
    BY <2>4, AnswersFrom
  <2>6. DOMAIN listed # {}
    BY <2>4 DEF Answers, Get
  <2>7. m \in tidyAndCalculateDesiredReplicas(Over(filling, metrics), listed, requests, resource,
                                              target, replicas, now)
    BY <2>1, <2>6 DEF Get
  <2>8. QED
    BY <2>2, <2>3, <2>5, <2>7, FillingsConfirm
<1>2. QED
  BY <1>1, TypeInit, TypeStep, PTL DEF Spec
=============================================================================
