----------------------- MODULE SimpleReplicatorProofs -----------------------
(***************************************************************************)
(* The slots of the simple replicator implement the maximum over the       *)
(* stabilization window, for every window, clock and set of replicas.      *)
(***************************************************************************)
EXTENDS SimpleReplicator, FiniteSetTheorems, TLAPS

Recs == Recommendation(Times, Replicas)

\* A request works on a list of slots that is not empty.
LEMMA SeededType ==
    ASSUME now \in Times, NEW slots \in Slots, NEW current \in Replicas
    PROVE  Seeded(slots, current) \in Slots /\ Seeded(slots, current) # <<>>
<1>1. [timestamp |-> now, replicas |-> current] \in Recs
  BY DEF Recs, Recommendation
<1>2. QED
  BY <1>1 DEF Seeded, Slots, Recs

\* Reusing a slot or appending one gives a list of slots that is not empty.
LEMMA StoredType ==
    ASSUME NEW slots \in Slots, NEW rec \in Recs, NEW next \in Stored(slots, rec)
    PROVE  next \in Slots /\ next # <<>>
<1>1. CASE OldSamples(slots) = {}
  BY <1>1 DEF Stored, Slots, Recs
<1>2. CASE OldSamples(slots) # {}
  <2>1. PICK i \in OldSamples(slots) : next = [slots EXCEPT ![i] = rec]
    BY <1>2 DEF Stored
  <2>2. i \in 1..Len(slots)
    BY DEF OldSamples, Slots
  <2>3. QED
    BY <2>1, <2>2 DEF Slots, Recs
<1>3. QED
  BY <1>1, <1>2

LEMMA TypeStep == TypeOK /\ [Next]_vars => TypeOK'
<1> SUFFICES ASSUME TypeOK, [Next]_vars PROVE TypeOK'
  OBVIOUS
<1>1. ASSUME NEW k \in Keys, NEW advice \in Replicas, NEW current \in Replicas,
             GetDesiredReplicas(k, advice, current)
      PROVE  TypeOK'
  <2> DEFINE slots == Seeded(historicalRecommendation[k], current)
             rec   == [timestamp |-> now, replicas |-> advice]
  <2>1. slots \in Slots /\ rec \in Recs
    BY SeededType DEF TypeOK, Recs, Recommendation
  <2>2. PICK next \in Stored(slots, rec) :
          historicalRecommendation' = [historicalRecommendation EXCEPT ![k] = next]
    BY <1>1 DEF GetDesiredReplicas
  <2>3. next \in Slots
    BY <2>1, StoredType
  <2>4. historicalRecommendation' \in [Keys -> Slots]
    BY <2>2, <2>3 DEF TypeOK
  <2>5. answer' \in [Keys -> Replicas]
    BY <1>1 DEF GetDesiredReplicas, TypeOK
  <2>6. calls' \in [Keys -> 0..CallsPerTick] /\ now' = now
    BY <1>1, CallsAssumption DEF GetDesiredReplicas, TypeOK
  <2>7. QED
    BY <2>4, <2>5, <2>6 DEF TypeOK
<1>2. CASE Tick
  BY <1>2, TimeAssumption, CallsAssumption DEF Tick, TypeOK, Times
<1>3. CASE Restart
  BY <1>3 DEF Restart, TypeOK, Slots
<1>4. CASE UNCHANGED vars
  BY <1>4 DEF vars, TypeOK
<1>5. QED
  BY <1>1, <1>2, <1>3, <1>4 DEF Next

\* The history holds timestamped recommendations and answers are replica counts,
\* for as long as the process runs.
THEOREM TypeCorrect == Spec => []TypeOK
<1>1. Init => TypeOK
  BY TimeAssumption, CallsAssumption, ReplicasAssumption DEF Init, TypeOK, Times, Slots
<1>2. QED
  BY <1>1, TypeStep, PTL DEF Spec

-----------------------------------------------------------------------------
(* Refinement                                                              *)

\* Whether the history is still empty or not, the slots a request works on are,
\* as far as the window covers them, the remembered ones and the seed.
LEMMA SeededRecent ==
    ASSUME now \in Times, NEW slots \in Slots, NEW current \in Replicas
    PROVE  Recent(Range(Seeded(slots, current)), now, Window)
             = Recent(Range(slots), now, Window)
               \cup (IF slots # <<>> THEN {} ELSE {[timestamp |-> now, replicas |-> current]})
<1> DEFINE seed == [timestamp |-> now, replicas |-> current]
<1>1. CASE slots # <<>>
  BY <1>1 DEF Seeded
<1>2. CASE slots = <<>>
  <2>1. Range(slots) = {} /\ Range(<<seed>>) = {seed}
    BY <1>2 DEF Range
  <2>2. ~IsOld(seed, now, Window)
    BY WindowAssumption DEF IsOld, Times
  <2> HIDE DEF seed
  <2>3. QED
    BY <1>2, <2>1, <2>2 DEF Seeded, Recent, seed
<1>3. QED
  BY <1>1, <1>2

\* Storing forgets nothing the window covers and adds the newest recommendation.
LEMMA StoredRecent ==
    ASSUME now \in Times, NEW slots \in Slots, NEW rec \in Recs, rec.timestamp = now,
           NEW next \in Stored(slots, rec)
    PROVE  Recent(Range(next), now, Window) = Recent(Range(slots), now, Window) \cup {rec}
<1>1. ~IsOld(rec, now, Window)
  BY WindowAssumption DEF IsOld, Times
<1>2. CASE OldSamples(slots) = {}
  <2>1. next = Append(slots, rec)
    BY <1>2 DEF Stored
  <2>2. Range(next) = Range(slots) \cup {rec}
    BY <2>1 DEF Range, Slots, Recs
  <2>3. QED
    BY <1>1, <2>2 DEF Recent
<1>3. CASE OldSamples(slots) # {}
  <2>1. PICK i \in OldSamples(slots) : next = [slots EXCEPT ![i] = rec]
    BY <1>3 DEF Stored
  <2>2. i \in DOMAIN slots /\ IsOld(slots[i], now, Window)
    BY DEF OldSamples
  <2>3. /\ DOMAIN next = DOMAIN slots
        /\ next[i] = rec
        /\ \A j \in DOMAIN slots : j # i => next[j] = slots[j]
    BY <2>1, <2>2 DEF Slots
  <2>4. ASSUME NEW r PROVE r \in Recent(Range(next), now, Window)
                           <=> r \in Recent(Range(slots), now, Window) \cup {rec}
    BY <1>1, <2>2, <2>3 DEF Recent, Range
  <2>5. QED
    BY <2>4
<1>4. QED
  BY <1>2, <1>3

\* The window only moves forward: what is old stays old.
LEMMA RecentLater ==
    ASSUME now \in Times, NEW slots \in Slots
    PROVE  Recent(Range(slots), now + 1, Window)
             = Recent(Recent(Range(slots), now, Window), now + 1, Window)
<1>1. ASSUME NEW r \in Range(slots), IsOld(r, now, Window)
      PROVE  IsOld(r, now + 1, Window)
  <2>1. r.timestamp \in Times
    <3>1. PICK i \in DOMAIN slots : r = slots[i]
      BY <1>1 DEF Range
    <3>2. slots[i] \in Recommendation(Times, Replicas)
      BY DEF Slots
    <3>3. QED
      BY <3>1, <3>2 DEF Recommendation
  <2>2. QED
    BY <1>1, <2>1, WindowAssumption DEF IsOld, Times
<1>2. QED
  BY <1>1 DEF Recent

\* Looking at the recent slots only gives the same maximum.
LEMMA MaxOfRecent ==
    ASSUME NEW m, NEW newest, NEW A, NEW B,
           Recent(A, now, Window) = Recent(B, now, Window)
    PROVE  IsMaxRecommendation(m, newest, A, now, Window)
             <=> IsMaxRecommendation(m, newest, B, now, Window)
BY DEF IsMaxRecommendation

LEMMA RecentTwice ==
    ASSUME NEW A
    PROVE  Recent(Recent(A, now, Window), now, Window) = Recent(A, now, Window)
BY DEF Recent

\* Both specifications compare recommendations in the same way.
LEMMA SameComparison ==
    ASSUME NEW recs, NEW when, NEW m, NEW newest
    PROVE  /\ Abstract!Recent(recs, when, Window) = Recent(recs, when, Window)
           /\ Abstract!IsMaxRecommendation(m, newest, recs, when, Window)
                <=> IsMaxRecommendation(m, newest, recs, when, Window)
<1>1. Abstract!Recent(recs, when, Window) = Recent(recs, when, Window)
  BY DEF Abstract!Recent, Recent, Abstract!IsOld, IsOld
<1>2. QED
  BY <1>1 DEF Abstract!IsMaxRecommendation, IsMaxRecommendation

LEMMA RefinesRequest ==
    ASSUME TypeOK, NEW k \in Keys, NEW advice \in Replicas, NEW current \in Replicas,
           GetDesiredReplicas(k, advice, current)
    PROVE  Abstract!GetDesiredReplicas(k, advice, current)
<1> DEFINE h      == historicalRecommendation[k]
           slots  == Seeded(h, current)
           rec    == [timestamp |-> now, replicas |-> advice]
           seed   == IF k \in seededKeys THEN {}
                     ELSE {[timestamp |-> now, replicas |-> current]}
           before == rememberedSlots[k] \cup seed
<1>1. now \in Times /\ h \in Slots /\ rec \in Recs /\ now' = now
  BY DEF TypeOK, Recs, Recommendation, GetDesiredReplicas
<1>2. slots \in Slots
  BY <1>1, SeededType
<1>3. rememberedSlots[k] = Recent(Range(h), now, Window) /\ (k \in seededKeys <=> h # <<>>)
  BY DEF rememberedSlots, seededKeys
<1>4. before = Recent(Range(slots), now, Window)
  BY <1>1, <1>3, SeededRecent
<1>5. Recent(before, now, Window) = Recent(Range(slots), now, Window)
  BY <1>4, RecentTwice
<1>6. \E m \in Replicas : /\ IsMaxRecommendation(m, advice, before, now, Window)
                         /\ answer' = [answer EXCEPT ![k] = m]
  <2>1. PICK m \in Replicas : /\ IsMaxRecommendation(m, advice, Range(slots), now, Window)
                              /\ answer' = [answer EXCEPT ![k] = m]
    BY DEF GetDesiredReplicas
  <2>2. IsMaxRecommendation(m, advice, before, now, Window)
    BY <1>5, <2>1, MaxOfRecent
  <2>3. QED
    BY <2>1, <2>2
<1>7. PICK next \in Stored(slots, rec) :
        historicalRecommendation' = [historicalRecommendation EXCEPT ![k] = next]
  BY DEF GetDesiredReplicas
<1>8. next \in Slots /\ next # <<>>
      /\ Recent(Range(next), now, Window) = before \cup {rec}
  BY <1>1, <1>2, <1>4, StoredType, StoredRecent
<1>9. /\ historicalRecommendation'[k] = next
      /\ \A j \in Keys : j # k => historicalRecommendation'[j] = historicalRecommendation[j]
  BY <1>7 DEF TypeOK
<1>10. rememberedSlots' = [rememberedSlots EXCEPT ![k] = before \cup {rec}]
  <2>1. ASSUME NEW j \in Keys
        PROVE  Recent(Range(historicalRecommendation'[j]), now', Window)
                 = IF j = k THEN before \cup {rec} ELSE rememberedSlots[j]
    BY <1>1, <1>8, <1>9 DEF rememberedSlots
  <2> HIDE DEF before, rec
  <2>2. QED
    BY <2>1 DEF rememberedSlots
<1>11. seededKeys' = seededKeys \cup {k}
  BY <1>8, <1>9 DEF seededKeys
<1>12. QED
  BY <1>1, <1>6, <1>10, <1>11, SameComparison DEF Abstract!GetDesiredReplicas

LEMMA RefinesStep == TypeOK /\ [Next]_vars => [Abstract!Next]_(Abstract!vars)
<1> SUFFICES ASSUME TypeOK, [Next]_vars PROVE [Abstract!Next]_(Abstract!vars)
  OBVIOUS
<1>1. ASSUME NEW k \in Keys, NEW advice \in Replicas, NEW current \in Replicas,
             GetDesiredReplicas(k, advice, current)
      PROVE  Abstract!Next
  BY <1>1, RefinesRequest DEF Abstract!Next
<1>2. CASE Tick
  <2>1. rememberedSlots' = [k \in Keys |-> Recent(rememberedSlots[k], now + 1, Window)]
    <3>1. ASSUME NEW k \in Keys
          PROVE  Recent(Range(historicalRecommendation'[k]), now', Window)
                   = Recent(rememberedSlots[k], now + 1, Window)
      BY <1>2, RecentLater DEF Tick, TypeOK, rememberedSlots
    <3>2. QED
      BY <3>1 DEF rememberedSlots
  <2>2. seededKeys' = seededKeys
    BY <1>2 DEF Tick, seededKeys
  <2>3. QED
    BY <1>2, <2>1, <2>2, SameComparison DEF Tick, Abstract!Next, Abstract!Tick
<1>3. CASE Restart
  <2>1. \A k \in Keys : Range(historicalRecommendation'[k]) = {}
    BY <1>3 DEF Restart, Range
  <2>2. rememberedSlots' = [k \in Keys |-> {}] /\ seededKeys' = {}
    BY <1>3, <2>1 DEF Restart, rememberedSlots, seededKeys, Recent
  <2>3. QED
    BY <1>3, <2>2 DEF Restart, Abstract!Next, Abstract!Restart
<1>4. CASE UNCHANGED vars
  BY <1>4 DEF vars, Abstract!vars, rememberedSlots, seededKeys
<1>5. QED
  BY <1>1, <1>2, <1>3, <1>4 DEF Next

\* The slots implement the abstract specification: every answer is the greatest
\* recommendation of the stabilization window, whichever slot is reused, for every
\* window and any number of autoscalers.
THEOREM SlotsImplementWindowMax == Spec => ImplementsWindowMax
<1>1. Init => Abstract!Init
  BY DEF Init, Abstract!Init, rememberedSlots, seededKeys, Range, Recent
<1>2. QED
  BY <1>1, RefinesStep, TypeCorrect, PTL DEF Spec, ImplementsWindowMax, Abstract!Spec

-----------------------------------------------------------------------------
(* The number of slots                                                     *)

\* The slots after the first can be numbered so that slots of the same tick differ, with no
\* more numbers than requests: those of tick `when` use the numbers up to `made`.
Numbered(slots, when, made) ==
    \E number \in [2..Len(slots) -> 1..CallsPerTick] :
        /\ \A i, j \in 2..Len(slots) :
              i # j => slots[i].timestamp # slots[j].timestamp \/ number[i] # number[j]
        /\ \A i \in 2..Len(slots) : slots[i].timestamp = when => number[i] <= made

NotLater(slots, when) == \A i \in DOMAIN slots : slots[i].timestamp <= when

NumberInv ==
    \A k \in Keys :
        /\ Numbered(historicalRecommendation[k], now, calls[k])
        /\ NotLater(historicalRecommendation[k], now)

\* A slot is a recommendation.
LEMMA SlotType ==
    ASSUME NEW slots \in Slots, NEW i \in DOMAIN slots
    PROVE  slots[i] \in Recs /\ slots[i].timestamp \in Times
<1>1. slots[i] \in Recs
  BY DEF Slots, Recs
<1>2. QED
  BY <1>1 DEF Recs, Recommendation

\* When no slot is old, there are fewer numbered slots than requests in the window: the
\* request being made has a number of its own, which the first slot may use.
LEMMA RecentSlotsFit ==
    ASSUME now \in Times, NEW slots \in Slots, NEW made \in 0..CallsPerTick,
           made < CallsPerTick, Numbered(slots, now, made), NotLater(slots, now),
           OldSamples(slots) = {}
    PROVE  Len(slots) <= CallsPerTick * (Window + 1)
<1> DEFINE cells == ((now - Window)..now) \X (1..CallsPerTick)
           n     == Len(slots)
<1>1. PICK number \in [2..n -> 1..CallsPerTick] :
        /\ \A i, j \in 2..n :
              i # j => slots[i].timestamp # slots[j].timestamp \/ number[i] # number[j]
        /\ \A i \in 2..n : slots[i].timestamp = now => number[i] <= made
  BY DEF Numbered
<1> DEFINE cell == [i \in 1..n |-> IF i = 1 THEN <<now, made + 1>>
                                   ELSE <<slots[i].timestamp, number[i]>>]
<1>2. n \in Nat /\ DOMAIN slots = 1..n /\ now \in Int
  BY DEF Slots, Times
<1>3. ASSUME NEW i \in 1..n PROVE slots[i].timestamp \in (now - Window)..now
  <2>1. slots[i].timestamp \in Times
    BY <1>2, SlotType
  <2>2. ~IsOld(slots[i], now, Window) /\ slots[i].timestamp <= now
    BY <1>2 DEF OldSamples, NotLater
  <2>3. QED
    BY <1>2, <2>1, <2>2, WindowAssumption DEF IsOld, Times
<1>4. cell \in [1..n -> cells]
  <2>1. <<now, made + 1>> \in cells
    BY <1>2, WindowAssumption, CallsAssumption
  <2>2. ASSUME NEW i \in 1..n, i # 1 PROVE <<slots[i].timestamp, number[i]>> \in cells
    <3>1. i \in 2..n
      BY <1>2, <2>2
    <3>2. number[i] \in 1..CallsPerTick
      BY <3>1
    <3>3. QED
      BY <1>3, <3>2
  <2>3. QED
    BY <2>1, <2>2
<1>5. ASSUME NEW i \in 1..n, NEW j \in 1..n, i # j PROVE cell[i] # cell[j]
  <2>1. ASSUME NEW h \in 2..n PROVE <<now, made + 1>> # <<slots[h].timestamp, number[h]>>
    <3>1. number[h] \in Int /\ (slots[h].timestamp = now => number[h] <= made)
      BY <1>1
    <3>2. QED
      BY <3>1
  <2>2. ASSUME NEW g \in 2..n, NEW h \in 2..n, g # h
        PROVE  <<slots[g].timestamp, number[g]>> # <<slots[h].timestamp, number[h]>>
    BY <1>1, <2>2
  <2>3. (i = 1 \/ i \in 2..n) /\ (j = 1 \/ j \in 2..n)
    BY <1>2
  <2>4. QED
    BY <1>5, <2>1, <2>2, <2>3
<1> HIDE DEF cell
<1>6. /\ IsFiniteSet((now - Window)..now) /\ Cardinality((now - Window)..now) = Window + 1
      /\ IsFiniteSet(1..CallsPerTick) /\ Cardinality(1..CallsPerTick) = CallsPerTick
      /\ IsFiniteSet(1..n) /\ Cardinality(1..n) = n
  <2>1. \A a, b \in Int : /\ IsFiniteSet(a..b)
                          /\ Cardinality(a..b) = IF a > b THEN 0 ELSE b - a + 1
    BY FS_Interval
  <2>2. now - Window \in Int /\ now \in Int /\ ~(now - Window > now)
        /\ now - (now - Window) + 1 = Window + 1
    BY <1>2, WindowAssumption
  <2>3. IsFiniteSet((now - Window)..now) /\ Cardinality((now - Window)..now) = Window + 1
    BY <2>1, <2>2
  <2>4. ASSUME NEW b \in Nat PROVE IsFiniteSet(1..b) /\ Cardinality(1..b) = b
    <3>1. b \in Int /\ 1 \in Int /\ b = IF 1 > b THEN 0 ELSE b - 1 + 1
      OBVIOUS
    <3>2. QED
      BY <2>1, <3>1
  <2>5. QED
    BY <1>2, <2>3, <2>4, CallsAssumption
<1>7. /\ IsFiniteSet(cells)
      /\ Cardinality(cells) = Cardinality((now - Window)..now) * Cardinality(1..CallsPerTick)
  BY <1>6, FS_Product
<1>8. Cardinality(cells) = (Window + 1) * CallsPerTick
  BY <1>6, <1>7
<1> HIDE DEF cells
<1>9. ~(Cardinality(cells) < Cardinality(1..n))
  BY <1>4, <1>5, <1>6, <1>7, FS_PigeonHole
<1>10. n <= (Window + 1) * CallsPerTick
  BY <1>2, <1>6, <1>8, <1>9, WindowAssumption, CallsAssumption
<1>11. (Window + 1) * CallsPerTick = CallsPerTick * (Window + 1)
  BY WindowAssumption, CallsAssumption
<1>12. QED
  BY <1>10, <1>11

\* The new slot takes the number of its request, whether it is appended or reused, and the
\* history only grows while it fits the window.
LEMMA StoredNumbered ==
    ASSUME now \in Times, NEW slots \in Slots, slots # <<>>, NEW made \in 0..CallsPerTick,
           made < CallsPerTick, Numbered(slots, now, made), NotLater(slots, now),
           NEW rec \in Recs, rec.timestamp = now, NEW next \in Stored(slots, rec)
    PROVE  /\ Numbered(next, now, made + 1)
           /\ NotLater(next, now)
           /\ Len(next) = Len(slots) \/ Len(next) <= CallsPerTick * (Window + 1) + 1
<1> DEFINE n == Len(slots)
<1>1. PICK number \in [2..n -> 1..CallsPerTick] :
        /\ \A i, j \in 2..n :
              i # j => slots[i].timestamp # slots[j].timestamp \/ number[i] # number[j]
        /\ \A i \in 2..n : slots[i].timestamp = now => number[i] <= made
  BY DEF Numbered
<1>2. n \in Nat /\ n >= 1 /\ DOMAIN slots = 1..n /\ now \in Int
  BY DEF Slots, Times
<1>3. \A i \in 2..n : number[i] \in Int /\ slots[i].timestamp \in Int
  BY <1>2, SlotType DEF Times
<1>4. CASE OldSamples(slots) = {}
  <2>1. next = Append(slots, rec)
    BY <1>4 DEF Stored
  <2>2. /\ Len(next) = n + 1 /\ DOMAIN next = 1..(n + 1) /\ next[n + 1] = rec
        /\ \A i \in 1..n : next[i] = slots[i]
    BY <1>2, <2>1 DEF Slots, Recs
  <2> DEFINE new == [i \in 2..(n + 1) |-> IF i = n + 1 THEN made + 1 ELSE number[i]]
  <2>3. new \in [2..(n + 1) -> 1..CallsPerTick]
    BY <1>2, CallsAssumption
  <2>4. ASSUME NEW i \in 2..(n + 1), NEW j \in 2..(n + 1), i # j
        PROVE  next[i].timestamp # next[j].timestamp \/ new[i] # new[j]
    BY <1>1, <1>2, <1>3, <2>2, <2>4
  <2>5. ASSUME NEW i \in 2..(n + 1), next[i].timestamp = now PROVE new[i] <= made + 1
    BY <1>1, <1>2, <1>3, <2>2, <2>5
  <2> HIDE DEF new
  <2>6. Numbered(next, now, made + 1)
    BY <2>2, <2>3, <2>4, <2>5 DEF Numbered
  <2>7. NotLater(next, now)
    BY <1>2, <2>2 DEF NotLater
  <2>8. Len(next) <= CallsPerTick * (Window + 1) + 1
    <3> DEFINE most == CallsPerTick * (Window + 1)
    <3>1. n <= most
      BY <1>4, RecentSlotsFit
    <3>2. most \in Nat
      BY WindowAssumption, CallsAssumption
    <3> HIDE DEF most
    <3>3. n + 1 <= most + 1
      BY <1>2, <3>1, <3>2
    <3>4. QED
      BY <2>2, <3>3 DEF most
  <2>9. QED
    BY <2>6, <2>7, <2>8
<1>5. CASE OldSamples(slots) # {}
  <2>1. PICK o \in OldSamples(slots) : next = [slots EXCEPT ![o] = rec]
    BY <1>5 DEF Stored
  <2>2. o \in 1..n
    BY <1>2 DEF OldSamples
  <2>3. /\ Len(next) = n /\ DOMAIN next = 1..n /\ next[o] = rec
        /\ \A i \in 1..n : i # o => next[i] = slots[i]
    BY <1>2, <2>1, <2>2 DEF Slots
  <2> DEFINE new == [i \in 2..n |-> IF i = o THEN made + 1 ELSE number[i]]
  <2>4. new \in [2..n -> 1..CallsPerTick]
    BY <1>2, CallsAssumption
  <2>5. ASSUME NEW i \in 2..n, NEW j \in 2..n, i # j
        PROVE  next[i].timestamp # next[j].timestamp \/ new[i] # new[j]
    BY <1>1, <1>2, <1>3, <2>3, <2>5
  <2>6. ASSUME NEW i \in 2..n, next[i].timestamp = now PROVE new[i] <= made + 1
    BY <1>1, <1>2, <1>3, <2>3, <2>6
  <2> HIDE DEF new
  <2>7. Numbered(next, now, made + 1)
    BY <2>3, <2>4, <2>5, <2>6 DEF Numbered
  <2>8. NotLater(next, now)
    BY <1>2, <2>3 DEF NotLater
  <2>9. QED
    BY <2>3, <2>7, <2>8
<1>6. QED
  BY <1>4, <1>5

\* A short history needs no numbers.
LEMMA ShortNumbered ==
    ASSUME NEW slots, NEW when, NEW made, Len(slots) \in {0, 1}
    PROVE  Numbered(slots, when, made)
<1>1. 2..Len(slots) = {}
  <2>1. 2..0 = {} /\ 2..1 = {}
    OBVIOUS
  <2>2. QED
    BY <2>1
<1>2. [i \in {} |-> 1] \in [{} -> 1..CallsPerTick]
  OBVIOUS
<1>3. QED
  BY <1>1, <1>2 DEF Numbered

\* A seed changes nothing: it is the first slot.
LEMMA SeededNumbered ==
    ASSUME now \in Times, NEW slots \in Slots, NEW made, NEW current \in Replicas,
           Numbered(slots, now, made), NotLater(slots, now)
    PROVE  /\ Numbered(Seeded(slots, current), now, made)
           /\ NotLater(Seeded(slots, current), now)
           /\ slots = <<>> => Len(Seeded(slots, current)) = 1
           /\ slots # <<>> => Seeded(slots, current) = slots
<1>1. CASE slots # <<>>
  BY <1>1 DEF Seeded
<1>2. CASE slots = <<>>
  <2> DEFINE seeded == <<[timestamp |-> now, replicas |-> current]>>
  <2>1. Len(seeded) = 1 /\ DOMAIN seeded = 1..1 /\ seeded[1].timestamp = now
    OBVIOUS
  <2>2. Seeded(slots, current) = seeded
    BY <1>2 DEF Seeded
  <2> HIDE DEF seeded
  <2>3. NotLater(seeded, now)
    BY <2>1 DEF NotLater, Times
  <2>4. QED
    BY <1>2, <2>1, <2>2, <2>3, ShortNumbered
<1>3. QED
  BY <1>1, <1>2

LEMMA NumberStep ==
    TypeOK /\ NumberInv /\ HistoryBounded /\ [Next]_vars => NumberInv' /\ HistoryBounded'
<1> SUFFICES ASSUME TypeOK, NumberInv, HistoryBounded, [Next]_vars
             PROVE  NumberInv' /\ HistoryBounded'
  OBVIOUS
<1> DEFINE most == CallsPerTick * (Window + 1) + 1
<1>0. most \in Nat /\ most >= 1
  <2>1. CallsPerTick * (Window + 1) \in Nat
    BY WindowAssumption, CallsAssumption
  <2>2. QED
    BY <2>1
<1>1. \A k \in Keys : Len(historicalRecommendation[k]) <= most
  BY DEF HistoryBounded
<1>2. SUFFICES ASSUME NEW k \in Keys
               PROVE  /\ Numbered(historicalRecommendation'[k], now', calls'[k])
                      /\ NotLater(historicalRecommendation'[k], now')
                      /\ Len(historicalRecommendation'[k]) <= most
  BY DEF NumberInv, HistoryBounded
<1> DEFINE slots == historicalRecommendation[k]
<1> HIDE DEF most
<1>3. /\ slots \in Slots /\ Numbered(slots, now, calls[k]) /\ NotLater(slots, now)
      /\ calls[k] \in 0..CallsPerTick /\ now \in Times
  BY DEF TypeOK, NumberInv
<1>4. ASSUME NEW key \in Keys, NEW advice \in Replicas, NEW current \in Replicas,
             GetDesiredReplicas(key, advice, current)
      PROVE  /\ Numbered(historicalRecommendation'[k], now', calls'[k])
             /\ NotLater(historicalRecommendation'[k], now')
             /\ Len(historicalRecommendation'[k]) <= most
  <2>1. CASE key # k
    <3>1. /\ historicalRecommendation'[k] = slots /\ calls'[k] = calls[k] /\ now' = now
      BY <1>4, <2>1 DEF GetDesiredReplicas, TypeOK
    <3>2. QED
      BY <1>1, <1>3, <3>1
  <2>2. CASE key = k
    <3> DEFINE seeded == Seeded(slots, current)
               rec    == [timestamp |-> now, replicas |-> advice]
    <3>1. calls[k] < CallsPerTick /\ calls'[k] = calls[k] + 1 /\ now' = now
      BY <1>4, <2>2 DEF GetDesiredReplicas, TypeOK
    <3>2. PICK next \in Stored(seeded, rec) : historicalRecommendation'[k] = next
      BY <1>4, <2>2 DEF GetDesiredReplicas, TypeOK
    <3>3. seeded \in Slots /\ seeded # <<>>
      BY <1>3, SeededType
    <3>4. rec \in Recs /\ rec.timestamp = now
      BY <1>3 DEF Recs, Recommendation
    <3>5. /\ Numbered(seeded, now, calls[k]) /\ NotLater(seeded, now)
          /\ Len(seeded) <= most
      BY <1>0, <1>1, <1>3, SeededNumbered
    <3> HIDE DEF seeded, rec
    <3>6. /\ Numbered(next, now, calls[k] + 1) /\ NotLater(next, now)
          /\ Len(next) = Len(seeded) \/ Len(next) <= most
      BY <1>3, <3>1, <3>3, <3>4, <3>5, StoredNumbered DEF most
    <3>7. QED
      BY <3>1, <3>2, <3>5, <3>6
  <2>3. QED
    BY <2>1, <2>2
<1>5. CASE Tick
  <2>1. historicalRecommendation'[k] = slots /\ calls'[k] = 0 /\ now' = now + 1
    BY <1>5 DEF Tick
  <2>2. ASSUME NEW i \in DOMAIN slots
        PROVE  slots[i].timestamp <= now + 1 /\ slots[i].timestamp # now + 1
    BY <1>3, SlotType DEF NotLater, Times
  <2>3. DOMAIN slots = 1..Len(slots)
    BY <1>3 DEF Slots
  <2>4. Numbered(slots, now + 1, 0)
    <3>1. \A i \in 2..Len(slots) : slots[i].timestamp # now + 1
      BY <2>2, <2>3
    <3>2. QED
      BY <1>3, <3>1 DEF Numbered
  <2>5. QED
    BY <1>1, <2>1, <2>2, <2>4 DEF NotLater
<1>6. CASE Restart
  <2>1. historicalRecommendation'[k] = <<>>
    BY <1>6 DEF Restart
  <2>2. Len(<<>>) = 0 /\ DOMAIN <<>> = {}
    OBVIOUS
  <2>3. Numbered(<<>>, now', calls'[k]) /\ NotLater(<<>>, now')
    BY <2>2, ShortNumbered DEF NotLater
  <2>4. QED
    BY <1>0, <2>1, <2>2, <2>3
<1>7. CASE UNCHANGED vars
  BY <1>1, <1>3, <1>7 DEF vars
<1>8. QED
  BY <1>4, <1>5, <1>6, <1>7 DEF Next

\* The history of an autoscaler never holds more slots than the requests of Window + 1
\* ticks and the seed, for as long as the process runs: the reuse of one old slot per
\* request is enough, for every window and rate of requests.
THEOREM SlotsBounded == Spec => []HistoryBounded
<1>1. Init => NumberInv /\ HistoryBounded
  <2> SUFFICES ASSUME Init, NEW k \in Keys
               PROVE  /\ Numbered(historicalRecommendation[k], now, calls[k])
                      /\ NotLater(historicalRecommendation[k], now)
                      /\ Len(historicalRecommendation[k]) <= CallsPerTick * (Window + 1) + 1
    BY DEF NumberInv, HistoryBounded
  <2>1. historicalRecommendation[k] = <<>>
    BY DEF Init
  <2>2. Len(<<>>) = 0 /\ DOMAIN <<>> = {}
    OBVIOUS
  <2>3. Numbered(<<>>, now, calls[k]) /\ NotLater(<<>>, now)
    BY <2>2, ShortNumbered DEF NotLater
  <2>4. CallsPerTick * (Window + 1) \in Nat
    BY WindowAssumption, CallsAssumption
  <2>5. QED
    BY <2>1, <2>2, <2>3, <2>4
<1>2. QED
  BY <1>1, NumberStep, TypeCorrect, PTL DEF Spec
=============================================================================
