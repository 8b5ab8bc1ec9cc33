------------------------ MODULE TargetPipelineProofs ------------------------
(***************************************************************************)
(* Theorems about the loop over the targets of a spec, their outputs and   *)
(* their status entries.                                                   *)
(***************************************************************************)
EXTENDS TargetPipeline, SchedulesProofs

TypeInv ==
    /\ TypeOK
    /\ pass \in [index : Nat, outputs : [DOMAIN pass.outputs -> Nat], managed : Seq(Names),
                 asked : SUBSET Nat, answered : BOOLEAN]

-----------------------------------------------------------------------------
(* What the loop has done so far                                           *)

\* The targets the loop has been through.
Done == 1..(pass.index - 1)

\* No list has two targets of one scaler.
OwnScalers ==
    \A list \in TargetLists : \A i, j \in DOMAIN list : list[i].metric = list[j].metric => i = j

\* Every output asked for so far is still in the map: its scaler has not been asked again.
OutputsKept ==
    /\ \A m \in DOMAIN pass.outputs : \E i \in Done : specTargets[i].metric = m
    /\ \A n \in pass.asked : \E m \in DOMAIN pass.outputs : pass.outputs[m] = n

\* No list has two targets of one name.
OwnNames ==
    \A list \in TargetLists : \A i, j \in DOMAIN list : list[i].name = list[j].name => i = j

\* No name is managed twice.
ManagedOnce ==
    /\ \A k \in DOMAIN pass.managed : \E i \in Done : specTargets[i].name = pass.managed[k]
    /\ \A k, l \in DOMAIN pass.managed : pass.managed[k] = pass.managed[l] => k = l

\* The names whose last average must not be lost are managed as the loop goes through
\* them, and pods store none.
ManagedInTime ==
    /\ \A i \in Done : lastGood[specTargets[i].name] # Unset =>
          \E k \in DOMAIN pass.managed : pass.managed[k] = specTargets[i].name
    /\ \A t \in ListedTargets :
          lastGood[t.name] # Unset => t.metric \in {"prometheus", "rabbitmq"}

-----------------------------------------------------------------------------
(* The numbers scalers ask for and store                                   *)

LEMMA ProductPositive ==
    ASSUME NEW a \in Nat \ {0}, NEW b \in Nat \ {0}
    PROVE  a * b \in Nat \ {0}
OBVIOUS

LEMMA QuotientType ==
    ASSUME NEW a \in Nat, NEW b \in Nat \ {0}
    PROVE  a \div b \in Nat
OBVIOUS

LEMMA CeilDivType ==
    ASSUME NEW a \in Nat, NEW b \in Nat \ {0}
    PROVE  CeilDiv(a, b) \in Nat /\ (a # 0 => CeilDiv(a, b) # 0)
<1>1. a + b - 1 \in Nat
  OBVIOUS
<1>2. CeilDiv(a, b) \in Nat
  BY <1>1, QuotientType DEF CeilDiv
<1>3. ASSUME a # 0 PROVE (a + b - 1) \div b >= 1
  BY <1>3
<1>4. QED
  BY <1>2, <1>3 DEF CeilDiv

LEMMA RatioType ==
    ASSUME replicas \in Nat, NEW total \in Nat, NEW scale \in Nat \ {0}, NEW threshold \in Nat \ {0}
    PROVE  RatioReplicas(total, scale, threshold) \in Nat
BY ProductPositive, CeilDivType DEF RatioReplicas

\* A queue that has messages makes the scaler ask for a replica when there is none, so that
\* the average has something to be divided by.
LEMMA QueueType ==
    ASSUME replicas \in Nat, NEW amount, amount.total \in Nat, amount.scale \in Nat \ {0},
           NEW threshold \in Nat \ {0}, NEW desired,
           desired = QueueReplicas(amount, threshold, replicas, Toleration)
    PROVE  desired \in Nat /\ QueueAverage(amount, desired, replicas) \in Nat
<1>1. /\ CeilDiv(amount.total, threshold * amount.scale) \in Nat
      /\ amount.total # 0 => CeilDiv(amount.total, threshold * amount.scale) # 0
  BY ProductPositive, CeilDivType
<1>2. desired \in Nat /\ (replicas = 0 /\ amount.total # 0 => desired # 0)
  BY <1>1 DEF QueueReplicas
<1>3. CASE amount.total = 0
  BY <1>2, <1>3 DEF QueueAverage
<1>4. CASE amount.total # 0
  <2> DEFINE divisor == IF replicas = 0 THEN desired ELSE replicas
  <2>1. divisor \in Nat \ {0}
    BY <1>2, <1>4
  <2>2. amount.scale * divisor \in Nat \ {0}
    BY <2>1, ProductPositive
  <2>3. amount.total * 1000 \in Nat
    OBVIOUS
  <2>4. (amount.total * 1000) \div (amount.scale * divisor) \in Nat
    BY <2>2, <2>3, QuotientType
  <2>5. QED
    BY <1>2, <1>4, <2>4 DEF QueueAverage
<1>5. QED
  BY <1>3, <1>4

\* Whatever several queues hold, and however they become one, they become a number.
LEMMA ComposedType ==
    ASSUME NEW names, IsFiniteSet(names), NEW counts \in [names -> Nat], NEW isRate \in BOOLEAN,
           NEW operation \in Operations, NEW amount,
           amount = getComposedQueue(operation, counts, isRate)
    PROVE  amount.total \in Nat /\ amount.scale \in Nat \ {0}
<1>1. DOMAIN counts = names /\ \A q \in names : counts[q] \in Nat
  OBVIOUS
<1>2. getSum(counts) \in Nat
  BY <1>1, TotalType DEF getSum
<1>3. CASE names = {}
  BY <1>1, <1>3 DEF getComposedQueue, Whole
<1>4. CASE names # {}
  <2>1. Cardinality(names) \in Nat \ {0}
    BY <1>4, FS_CardinalityType, FS_EmptySet
  <2>2. getSum(counts) \div Cardinality(names) \in Nat
    BY <1>2, <2>1, QuotientType
  <2>3. getMaximum(counts) \in Nat
    <3> DEFINE all == {counts[q] : q \in names}
    <3>1. [q \in names |-> counts[q]] \in Surjection(names, all)
      BY DEF Surjection
    <3>2. IsFiniteSet(all)
      BY <3>1, FS_Surjection
    <3>3. IsFiniteSet({0}) /\ IsFiniteSet({0} \cup all)
      BY <3>2, FS_Singleton, FS_Union
    <3>4. {0} \cup all \in SUBSET Nat
      BY <1>1
    <3>5. \E n \in {0} \cup all : \A m \in {0} \cup all : m <= n
      BY <3>3, <3>4, GreatestExists
    <3>6. \E n \in {0} \cup all : \A m \in {0} \cup all : n >= m
      BY <3>4, <3>5
    <3>7. Max({0} \cup all) \in {0} \cup all
      BY <3>6 DEF Max
    <3>8. QED
      BY <1>1, <3>4, <3>7 DEF getMaximum
  <2> USE DEF getComposedQueue, Whole, Operations
  <2>4. CASE operation = "sum"
    BY <1>1, <1>2, <1>4, <2>4
  <2>5. CASE operation = "max"
    BY <1>1, <1>4, <2>3, <2>5
  <2>6. CASE operation = "avg"
    BY <1>1, <1>2, <1>4, <2>1, <2>2, <2>6
  <2>7. QED
    BY <2>4, <2>5, <2>6
<1>5. QED
  BY <1>3, <1>4

LEMMA RequestType ==
    ASSUME NEW names, IsFiniteSet(names), NEW infos \in [names -> QueueInfo],
           NEW s, s.type \in MessageTypes, s.regex \in BOOLEAN, ValidQueueSettings(s),
           NEW amount, amount = request(s, infos)
    PROVE  amount.total \in Nat /\ amount.scale \in Nat \ {0}
<1>1. DOMAIN infos = names
      /\ \A q \in names : infos[q].ready \in Nat /\ infos[q].unacked \in Nat /\ infos[q].rate \in Nat
  BY DEF QueueInfo
<1>2. CASE s.protocol = "http"
  <2> DEFINE isRate == s.mode = "MessageRate"
             counts == [q \in names |->
                          IF isRate THEN infos[q].rate ELSE MessagesOfType(infos[q], s.type)]
             operation == IF s.regex THEN s.operation ELSE "sum"
  <2>1. \A q \in names : MessagesOfType(infos[q], s.type) \in Nat
    BY <1>1 DEF MessagesOfType, MessageTypes
  <2>2. counts \in [names -> Nat] /\ isRate \in BOOLEAN
    BY <1>1, <2>1
  <2>3. operation \in Operations
    BY DEF ValidQueueSettings, Operations
  <2>4. amount = getComposedQueue(operation, counts, isRate)
    BY <1>1, <1>2, Zenon DEF request, requestViaHTTP
  <2> HIDE DEF counts, operation, isRate
  <2>5. QED
    BY <2>2, <2>3, <2>4, ComposedType
<1>3. CASE s.protocol # "http"
  <2> DEFINE ready == [q \in names |-> infos[q].ready]
  <2>1. getSum(ready) \in Nat
    <3>1. DOMAIN ready = names /\ \A q \in names : ready[q] \in Nat
      BY <1>1
    <3>2. QED
      BY <3>1, TotalType DEF getSum
  <2>2. amount = Whole(IF s.mode = "MessageRate" THEN 0 ELSE getSum(ready))
    BY <1>1, <1>3, Zenon DEF request, requestViaChannel
  <2> HIDE DEF ready
  <2>3. QED
    BY <2>1, <2>2 DEF Whole
<1>4. QED
  BY <1>2, <1>3

\* The settings in force are among those there can be.
LEMMA SettingsPossible ==
    ASSUME NEW when, NEW settings, NEW period,
           NEW s \in GetScheduledSettingsRaw(when, settings, period)
    PROVE  s \in PossibleSettings(settings)
BY DEF GetScheduledSettingsRaw, PossibleSettings

-----------------------------------------------------------------------------
(* status.targets                                                          *)

Entries == [target : Names, average : Nat]

LEMMA SetTargetStatusType ==
    ASSUME NEW list \in Seq(Entries), NEW entry \in Entries
    PROVE  SetTargetStatus(list, entry) \in Seq(Entries)
<1>1. CASE FirstOfName(list, entry.target) = {}
  BY <1>1 DEF SetTargetStatus
<1>2. CASE FirstOfName(list, entry.target) # {}
  <2> DEFINE new == [i \in 1..Len(list) |-> IF i \in FirstOfName(list, entry.target) THEN entry
                                            ELSE list[i]]
  <2>1. SetTargetStatus(list, entry) = new
    BY <1>2 DEF SetTargetStatus
  <2>2. new \in [1..Len(list) -> Entries] /\ Len(list) \in Nat
    OBVIOUS
  <2>3. QED
    BY <2>1, <2>2
<1>3. QED
  BY <1>1, <1>2

\* What SetTargetStatus stores is there, and the entries of other names stay.
LEMMA SetTargetStatusStores ==
    ASSUME NEW list \in Seq(Entries), NEW entry \in Entries
    PROVE  LET new == SetTargetStatus(list, entry)
           IN  /\ \E i \in DOMAIN new : new[i] = entry
               /\ \A i \in DOMAIN list : list[i].target # entry.target =>
                     i \in DOMAIN new /\ new[i] = list[i]
<1> DEFINE new == SetTargetStatus(list, entry)
<1>1. CASE FirstOfName(list, entry.target) = {}
  <2>1. new = Append(list, entry)
    BY <1>1 DEF SetTargetStatus
  <2>2. /\ DOMAIN new = 1..(Len(list) + 1) /\ DOMAIN list = 1..Len(list)
        /\ new[Len(list) + 1] = entry
        /\ \A i \in DOMAIN list : new[i] = list[i]
    BY <2>1
  <2>3. QED
    BY <2>2
<1>2. CASE FirstOfName(list, entry.target) # {}
  <2>1. new = [i \in DOMAIN list |-> IF i \in FirstOfName(list, entry.target) THEN entry
                                     ELSE list[i]]
    BY <1>2 DEF SetTargetStatus
  <2>2. \A i \in FirstOfName(list, entry.target) :
          i \in DOMAIN list /\ list[i].target = entry.target
    BY DEF FirstOfName
  <2>3. QED
    BY <1>2, <2>1, <2>2
<1>3. QED
  BY <1>1, <1>2

Unique(list) == \A i, j \in DOMAIN list : list[i].target = list[j].target => i = j

LEMMA SetTargetStatusUnique ==
    ASSUME NEW list \in Seq(Entries), NEW entry \in Entries, Unique(list)
    PROVE  Unique(SetTargetStatus(list, entry))
<1> DEFINE new == SetTargetStatus(list, entry)
<1>1. CASE FirstOfName(list, entry.target) = {}
  <2>1. \A i \in DOMAIN list : list[i].target # entry.target
    <3>1. SUFFICES ASSUME NEW i \in DOMAIN list, list[i].target = entry.target PROVE FALSE
      OBVIOUS
    <3>2. i \in 1..Len(list) /\ \A j \in 1..(i - 1) : j \in DOMAIN list /\ j # i
      OBVIOUS
    <3>3. i \in FirstOfName(list, entry.target)
      BY <3>1, <3>2 DEF FirstOfName, Unique
    <3>4. QED
      BY <1>1, <3>3
  <2>2. new = Append(list, entry)
    BY <1>1 DEF SetTargetStatus
  <2>3. /\ DOMAIN new = 1..(Len(list) + 1) /\ DOMAIN list = 1..Len(list)
        /\ new[Len(list) + 1] = entry
        /\ \A i \in DOMAIN list : new[i] = list[i]
    BY <2>2
  <2>4. \A i \in DOMAIN new : i \in DOMAIN list \/ i = Len(list) + 1
    BY <2>3
  <2>5. QED
    BY <2>1, <2>3, <2>4 DEF Unique
<1>2. CASE FirstOfName(list, entry.target) # {}
  <2>1. new = [i \in DOMAIN list |-> IF i \in FirstOfName(list, entry.target) THEN entry
                                     ELSE list[i]]
    BY <1>2 DEF SetTargetStatus
  <2>2. \A i \in DOMAIN list : new[i].target = list[i].target
    BY <2>1 DEF FirstOfName
  <2>3. QED
    BY <2>1, <2>2 DEF Unique
<1>3. QED
  BY <1>1, <1>2

\* Places are totally ordered, so each match has a rank of its own.
LEMMA RankLess ==
    ASSUME NEW matches \in SUBSET (Nat \X Nat), IsFiniteSet(matches),
           NEW p \in matches, NEW q \in matches, Earlier(p, q)
    PROVE  Rank(p, matches) < Rank(q, matches)
<1> DEFINE before(r) == {o \in matches : Earlier(o, r)}
<1>1. \A o \in matches : Earlier(o, p) => Earlier(o, q)
  BY DEF Earlier
<1>2. p \in before(q) /\ p \notin before(p)
  BY DEF Earlier
<1>3. before(p) \subseteq before(q) /\ before(q) \subseteq matches
  BY <1>1
<1>4. IsFiniteSet(before(q)) /\ IsFiniteSet(before(p))
  BY <1>3, FS_Subset
<1>5. /\ Cardinality(before(p)) <= Cardinality(before(q))
      /\ Cardinality(before(q)) = Cardinality(before(p)) => before(q) = before(p)
  BY <1>3, <1>4, FS_Subset
<1>6. Cardinality(before(p)) \in Nat /\ Cardinality(before(q)) \in Nat
  BY <1>4, FS_CardinalityType
<1>7. Cardinality(before(p)) # Cardinality(before(q))
  BY <1>2, <1>5
<1>8. Rank(p, matches) = Cardinality(before(p)) /\ Rank(q, matches) = Cardinality(before(q))
  BY DEF Rank
<1>9. QED
  BY <1>5, <1>6, <1>7, <1>8

LEMMA RankType ==
    ASSUME NEW matches \in SUBSET (Nat \X Nat), IsFiniteSet(matches), NEW p \in matches
    PROVE  /\ Cardinality(matches) \in Nat
           /\ Rank(p, matches) \in 0..(Cardinality(matches) - 1)
<1> DEFINE before == {o \in matches : Earlier(o, p)}
<1>1. before \subseteq matches /\ p \notin before
  BY DEF Earlier
<1>2. /\ IsFiniteSet(before) /\ Cardinality(before) <= Cardinality(matches)
      /\ Cardinality(matches) = Cardinality(before) => matches = before
  BY <1>1, FS_Subset
<1>3. Cardinality(before) \in Nat /\ Cardinality(matches) \in Nat
  BY <1>2, FS_CardinalityType
<1>4. Cardinality(before) # Cardinality(matches)
  BY <1>1, <1>2
<1>5. Rank(p, matches) = Cardinality(before)
  BY DEF Rank
<1>6. QED
  BY <1>2, <1>3, <1>4, <1>5

LEMMA RankInjective ==
    ASSUME NEW matches \in SUBSET (Nat \X Nat), IsFiniteSet(matches),
           NEW p \in matches, NEW q \in matches, Rank(p, matches) = Rank(q, matches)
    PROVE  p = q
<1>1. SUFFICES ASSUME p # q PROVE FALSE
  OBVIOUS
<1>2. p \in Nat \X Nat /\ q \in Nat \X Nat
  OBVIOUS
<1>3. Earlier(p, q) \/ Earlier(q, p)
  BY <1>1, <1>2 DEF Earlier
<1>4. Rank(p, matches) \in Int /\ Rank(q, matches) \in Int
  BY RankType
<1>5. QED
  BY <1>3, <1>4, RankLess

LEMMA RankOnto ==
    ASSUME NEW matches \in SUBSET (Nat \X Nat), IsFiniteSet(matches),
           NEW k \in 1..Cardinality(matches)
    PROVE  \E p \in matches : Rank(p, matches) = k - 1
<1> DEFINE n == Cardinality(matches)
           f == [p \in matches |-> Rank(p, matches)]
<1>1. n \in Nat
  BY FS_CardinalityType
<1>2. f \in [matches -> 0..(n - 1)]
  BY RankType
<1>3. \A p, q \in matches : f[p] = f[q] => p = q
  BY RankInjective
<1>4. f \in Injection(matches, 0..(n - 1))
  BY <1>2, <1>3 DEF Injection, IsInjective
<1>5. IsFiniteSet(0..(n - 1)) /\ Cardinality(0..(n - 1)) = n
  <2>1. n - 1 \in Int
    BY <1>1
  <2>2. Cardinality(0..(n - 1)) = IF 0 > n - 1 THEN 0 ELSE (n - 1) - 0 + 1
    BY <2>1, FS_Interval
  <2>3. IsFiniteSet(0..(n - 1))
    BY <2>1, FS_Interval
  <2>4. QED
    BY <1>1, <2>2, <2>3
<1> HIDE DEF f
<1>6. f \in Surjection(matches, 0..(n - 1))
  BY <1>4, <1>5, FS_Injection
<1>7. k - 1 \in 0..(n - 1)
  BY <1>1
<1>8. \E p \in matches : f[p] = k - 1
  BY <1>6, <1>7 DEF Surjection
<1>9. QED
  BY <1>8 DEF f

LEMMA MatchesType ==
    ASSUME NEW list \in Seq(Entries), NEW managed \in Seq(Names)
    PROVE  /\ Matches(managed, list) \in SUBSET (Nat \X Nat) /\ IsFiniteSet(Matches(managed, list))
           /\ Cardinality(Matches(managed, list)) \in Nat
<1>1. /\ DOMAIN list = 1..Len(list) /\ DOMAIN managed = 1..Len(managed)
      /\ Len(list) \in Nat /\ Len(managed) \in Nat
  OBVIOUS
<1>2. IsFiniteSet(1..Len(list)) /\ IsFiniteSet(1..Len(managed))
  BY <1>1, FS_Interval
<1>3. IsFiniteSet((1..Len(list)) \X (1..Len(managed)))
  BY <1>2, FS_Product
<1>4. Matches(managed, list) \subseteq (1..Len(list)) \X (1..Len(managed))
  BY <1>1 DEF Matches
<1>5. IsFiniteSet(Matches(managed, list))
  BY <1>3, <1>4, FS_Subset
<1>6. QED
  BY <1>1, <1>4, <1>5, FS_CardinalityType

\* Every entry of the purged list comes from a match, and every match gives one.
LEMMA PurgeShape ==
    ASSUME NEW list \in Seq(Entries), NEW managed \in Seq(Names)
    PROVE  LET matches == Matches(managed, list)
               purged == PurgeTargetStatus(managed, list)
           IN  /\ DOMAIN purged = 1..Cardinality(matches)
               /\ \A k \in DOMAIN purged : \E p \in matches :
                     Rank(p, matches) = k - 1 /\ purged[k] = list[p[1]]
               /\ \A p \in matches : \E k \in DOMAIN purged : purged[k] = list[p[1]]
<1> DEFINE matches == Matches(managed, list)
           ranked(k) == CHOOSE p \in matches : Rank(p, matches) = k - 1
           purged == [k \in 1..Cardinality(matches) |-> list[ranked(k)[1]]]
<1>1. PurgeTargetStatus(managed, list) = purged
  BY DEF PurgeTargetStatus
<1>2. matches \in SUBSET (Nat \X Nat) /\ IsFiniteSet(matches) /\ Cardinality(matches) \in Nat
  BY MatchesType
<1> HIDE DEF matches
<1>3. ASSUME NEW k \in 1..Cardinality(matches)
      PROVE  ranked(k) \in matches /\ Rank(ranked(k), matches) = k - 1
  BY <1>2, RankOnto
<1>4. ASSUME NEW p \in matches
      PROVE  \E k \in 1..Cardinality(matches) : purged[k] = list[p[1]]
  <2> DEFINE k == Rank(p, matches) + 1
  <2>1. k \in 1..Cardinality(matches) /\ k - 1 = Rank(p, matches)
    <3>1. Rank(p, matches) \in 0..(Cardinality(matches) - 1)
      BY <1>2, RankType
    <3>2. QED
      BY <1>2, <3>1
  <2>2. ranked(k) = p
    <3>1. ranked(k) \in matches /\ Rank(ranked(k), matches) = Rank(p, matches)
      BY <1>3, <2>1
    <3>2. QED
      BY <1>2, <3>1, RankInjective
  <2>3. purged[k] = list[p[1]]
    BY <2>1, <2>2
  <2>4. QED
    BY <2>1, <2>3
<1>5. DOMAIN purged = 1..Cardinality(matches)
  OBVIOUS
<1>6. \A k \in DOMAIN purged : \E p \in matches :
        Rank(p, matches) = k - 1 /\ purged[k] = list[p[1]]
  BY <1>3
<1> HIDE DEF purged
<1>7. /\ DOMAIN purged = 1..Cardinality(matches)
      /\ \A k \in DOMAIN purged : \E p \in matches :
            Rank(p, matches) = k - 1 /\ purged[k] = list[p[1]]
      /\ \A p \in matches : \E k \in DOMAIN purged : purged[k] = list[p[1]]
  BY <1>4, <1>5, <1>6
<1>8. QED
  BY <1>1, <1>7 DEF matches

LEMMA PurgeType ==
    ASSUME NEW list \in Seq(Entries), NEW managed \in Seq(Names)
    PROVE  PurgeTargetStatus(managed, list) \in Seq(Entries)
<1> DEFINE purged == PurgeTargetStatus(managed, list)
           n == Cardinality(Matches(managed, list))
<1>1. n \in Nat /\ DOMAIN purged = 1..n
  BY MatchesType, PurgeShape
<1>2. \A p \in Matches(managed, list) : list[p[1]] \in Entries
  BY DEF Matches
<1>3. \A k \in 1..n : purged[k] \in Entries
  BY <1>1, <1>2, PurgeShape
<1>4. purged = [k \in 1..n |-> purged[k]]
  BY DEF PurgeTargetStatus
<1> HIDE DEF purged, n
<1>5. purged \in [1..n -> Entries]
  BY <1>3, <1>4
<1>6. QED
  BY <1>1, <1>5 DEF purged

\* A managed entry is kept.
LEMMA PurgeKeeps ==
    ASSUME NEW list \in Seq(Entries), NEW managed \in Seq(Names),
           NEW i \in DOMAIN list, NEW k \in DOMAIN managed, list[i].target = managed[k]
    PROVE  \E j \in DOMAIN PurgeTargetStatus(managed, list) :
             PurgeTargetStatus(managed, list)[j] = list[i]
<1>1. <<i, k>> \in Matches(managed, list) /\ <<i, k>>[1] = i
  BY DEF Matches
<1>2. QED
  BY <1>1, PurgeShape

\* The purge doubles nothing when no name is managed twice.
LEMMA PurgeUnique ==
    ASSUME NEW list \in Seq(Entries), NEW managed \in Seq(Names), Unique(list),
           \A k, l \in DOMAIN managed : managed[k] = managed[l] => k = l
    PROVE  Unique(PurgeTargetStatus(managed, list))
<1> DEFINE matches == Matches(managed, list)
           purged == PurgeTargetStatus(managed, list)
<1>1. SUFFICES ASSUME NEW a \in DOMAIN purged, NEW b \in DOMAIN purged,
                      purged[a].target = purged[b].target
               PROVE  a = b
  BY DEF Unique
<1>2. PICK p \in matches : Rank(p, matches) = a - 1 /\ purged[a] = list[p[1]]
  BY PurgeShape
<1>3. PICK q \in matches : Rank(q, matches) = b - 1 /\ purged[b] = list[q[1]]
  BY PurgeShape
<1>4. /\ p \in (DOMAIN list) \X (DOMAIN managed) /\ list[p[1]].target = managed[p[2]]
      /\ q \in (DOMAIN list) \X (DOMAIN managed) /\ list[q[1]].target = managed[q[2]]
  BY DEF Matches
<1>5. p[1] = q[1]
  BY <1>1, <1>2, <1>3, <1>4 DEF Unique
<1>6. p[2] = q[2]
  BY <1>4, <1>5
<1>7. p = q
  BY <1>4, <1>5, <1>6
<1>8. a \in Int /\ b \in Int
  <2>1. a \in 1..Cardinality(matches) /\ b \in 1..Cardinality(matches)
    BY PurgeShape
  <2>2. QED
    BY <2>1
<1>9. QED
  BY <1>2, <1>3, <1>7, <1>8

-----------------------------------------------------------------------------
(* One call of the loop                                                    *)

\* A target without replicas is asked for nothing.
AsksNothing ==
    /\ Asked(0, <<>>, targets, FALSE)
    /\ lastGood' = [lastGood EXCEPT ![Current.name] = Unset]

\* A metric was answered and its average is stored.
Stores ==
    /\ Current.metric \in {"prometheus", "rabbitmq"}
    /\ \E desired, average \in Nat :
          /\ Asked(desired, <<Current.name>>,
                   SetTargetStatus(targets, [target |-> Current.name, average |-> average]), TRUE)
          /\ lastGood' = [lastGood EXCEPT ![Current.name] = average]

\* A call that stores nothing.
FallsBack ==
    /\ \E desired \in Nat : Asked(desired, <<Current.name>>, targets, FALSE)
    /\ UNCHANGED lastGood

StoresPods ==
    /\ Current.metric \in {"cpu", "memory"}
    /\ \E desired \in Nat :
          Asked(desired, <<Current.name>>,
                SetTargetStatus(targets, [target |-> Current.name, average |-> 0]), TRUE)
    /\ UNCHANGED lastGood

LEMMA CurrentType ==
    ASSUME TypeInv, pass.index \in DOMAIN specTargets
    PROVE  Current \in ListedTargets /\ Current.name \in Names /\ IsTarget(Current)
<1>1. specTargets \in TargetLists
  BY DEF TypeInv, TypeOK
<1>2. Current \in ListedTargets
  BY <1>1 DEF ListedTargets, Current
<1>3. QED
  BY <1>2, TargetsAssumption DEF Names

\* Whatever the scaler, a call aborts the pass or is one of these.
LEMMA AskCases ==
    ASSUME TypeInv, Ask \/ AskRefused
    PROVE  /\ pass.index \in DOMAIN specTargets
           /\ Aborted \/ (Current.metric \in Scalers
                          /\ (AsksNothing \/ Stores \/ FallsBack \/ StoresPods))
<1>1. pass.index \in DOMAIN specTargets
  BY DEF Ask, AskRefused
<1>2. Current \in ListedTargets /\ IsTarget(Current) /\ replicas \in Nat
  BY <1>1, CurrentType DEF TypeInv, TypeOK
<1>3. CASE AskRefused
  BY <1>1, <1>3 DEF AskRefused
<1>4. CASE Ask
  <2>1. PICK s \in CurrentSettings :
          \/ AskAtZero(s) \/ AskPrometheus(s) \/ AskInOutage(s)
          \/ AskRabbitMQ(s) \/ AskRabbitMQFails(s)
          \/ AskPods(s) \/ AskPodsFails(s)
    BY <1>4 DEF Ask
  <2>2. /\ s \in PossibleSettings(Current.settings)
        /\ Current.metric \in {"prometheus", "rabbitmq"} => s.threshold \in Int
    BY <1>2, <2>1, SettingsPossible DEF CurrentSettings, IsTarget
  <2>3. ASSUME NEW metrics, InLoop(metrics, s)
        PROVE  /\ Current.metric \in metrics /\ Current.metric \in Scalers
               /\ Current.metric \in {"prometheus", "rabbitmq"} => s.threshold \in Nat \ {0}
    BY <2>2, <2>3 DEF InLoop, ValidQueueSettings
  <2>4. CASE AskAtZero(s)
    BY <1>1, <2>3, <2>4 DEF AskAtZero, AsksNothing
  <2>5. CASE AskPrometheus(s)
    <3> DEFINE q == Current.name
               average == (value[q] * 1000) \div replicas
               desired == IF value[q] = 0 THEN 0 ELSE RatioReplicas(value[q], 1, s.threshold)
    <3>0. /\ Asked(desired, <<q>>, SetTargetStatus(targets, [target |-> q, average |-> average]),
                   TRUE)
          /\ lastGood' = [lastGood EXCEPT ![q] = average]
      BY <2>5, Zenon DEF AskPrometheus
    <3>1. /\ Current.metric = "prometheus" /\ Current.metric \in Scalers /\ replicas # 0
          /\ s.threshold \in Nat \ {0}
      BY <2>3, <2>5 DEF AskPrometheus
    <3>2. q \in Queries
      BY <1>2, <3>1 DEF Queries
    <3>3. value[q] \in Nat
      BY <3>2, ValuesAssumption DEF TypeInv, TypeOK
    <3>4. desired \in Nat
      BY <1>2, <3>1, <3>3, RatioType
    <3>5. average \in Nat
      <4>1. value[q] * 1000 \in Nat
        BY <3>3
      <4>2. QED
        BY <1>2, <3>1, <4>1, QuotientType
    <3> HIDE DEF desired, average
    <3>6. Stores
      BY <3>0, <3>1, <3>4, <3>5 DEF Stores
    <3>7. QED
      BY <1>1, <3>1, <3>6
  <2>6. CASE AskInOutage(s)
    <3>1. Current.metric = "prometheus" /\ Current.metric \in Scalers /\ s.threshold \in Nat \ {0}
      BY <2>3, <2>6 DEF AskInOutage
    <3>2. CASE Aborted
      BY <1>1, <3>2
    <3>3. CASE Asked(0, <<Current.name>>, targets, FALSE) /\ UNCHANGED lastGood
      BY <1>1, <3>1, <3>3 DEF FallsBack
    <3>4. ASSUME NEW entry \in GetTargetStatus(targets, Current.name),
                 Asked(RatioReplicas(entry.average * replicas, 1000, s.threshold),
                       <<Current.name>>, targets, FALSE),
                 UNCHANGED lastGood
          PROVE  FallsBack
      <4>1. entry.average \in Nat
        <5>1. targets \in Seq(Entries)
          BY DEF TypeInv, TypeOK, Entries
        <5>2. entry \in Entries
          BY <5>1 DEF GetTargetStatus, FirstOfName
        <5>3. QED
          BY <5>2 DEF Entries
      <4>2. entry.average * replicas \in Nat
        BY <1>2, <4>1
      <4>3. RatioReplicas(entry.average * replicas, 1000, s.threshold) \in Nat
        BY <1>2, <3>1, <4>2, RatioType
      <4>4. QED
        BY <3>4, <4>3 DEF FallsBack
    <3>5. QED
      BY <1>1, <2>6, <3>1, <3>2, <3>3, <3>4 DEF AskInOutage
  <2>7. CASE AskRabbitMQ(s)
    <3> DEFINE total == request(s, MatchedQueues)
               desired == QueueReplicas(total, s.threshold, replicas, Toleration)
               average == QueueAverage(total, desired, replicas)
    <3>1. /\ Current.metric = "rabbitmq" /\ Current.metric \in Scalers
          /\ s.threshold \in Nat \ {0} /\ ValidQueueSettings(s)
          /\ Asked(desired, <<Current.name>>,
                   SetTargetStatus(targets, [target |-> Current.name, average |-> average]), TRUE)
          /\ lastGood' = [lastGood EXCEPT ![Current.name] = average]
      BY <2>3, <2>7 DEF AskRabbitMQ, InLoop
    <3>2. Current.queues \subseteq Queues
      BY <1>2, <3>1 DEF Queues
    <3>3. MatchedQueues \in [Current.queues -> QueueStates]
      BY <3>2 DEF MatchedQueues, TypeInv, TypeOK
    <3>4. total.total \in Nat /\ total.scale \in Nat \ {0}
      <4>1. IsFiniteSet(Current.queues) /\ s.type \in MessageTypes /\ s.regex \in BOOLEAN
        BY <1>2, <2>2, <3>1 DEF IsTarget
      <4>2. MatchedQueues \in [Current.queues -> QueueInfo]
        BY <3>3, ValuesAssumption
      <4>3. QED
        BY <3>1, <4>1, <4>2, RequestType
    <3> HIDE DEF total
    <3>5. desired \in Nat /\ average \in Nat
      BY <1>2, <3>1, <3>4, QueueType
    <3> HIDE DEF desired, average
    <3>6. Stores
      BY <3>1, <3>5 DEF Stores
    <3>7. QED
      BY <1>1, <3>1, <3>6
  <2>8. CASE AskRabbitMQFails(s) \/ AskPodsFails(s)
    BY <1>1, <2>8 DEF AskRabbitMQFails, AskPodsFails
  <2>9. CASE AskPods(s)
    <3>1. Current.metric \in {"cpu", "memory"} /\ Current.metric \in Scalers
      BY <2>3, <2>9 DEF AskPods
    <3>2. FallsBack \/ StoresPods
      BY <1>2, <2>9, <3>1, ValuesAssumption DEF AskPods, FallsBack, StoresPods
    <3>3. QED
      BY <1>1, <3>1, <3>2
  <2>10. QED
    BY <2>1, <2>4, <2>5, <2>6, <2>7, <2>8, <2>9
<1>5. QED
  BY <1>3, <1>4

\* What a call adds to the pass.
LEMMA AskedShape ==
    ASSUME TypeInv, NEW desired, NEW managed, NEW list, NEW answered,
           Asked(desired, managed, list, answered)
    PROVE  /\ pass'.index = pass.index + 1
           /\ pass'.outputs = [m \in DOMAIN pass.outputs \cup {Current.metric} |->
                                 IF m = Current.metric THEN desired ELSE pass.outputs[m]]
           /\ pass'.managed = pass.managed \o managed
           /\ pass'.asked = pass.asked \cup {desired}
           /\ pass'.answered = (pass.answered \/ answered)
           /\ DOMAIN pass' = {"index", "outputs", "managed", "asked", "answered"}
           /\ targets' = list
           /\ UNCHANGED <<specTargets, replicas, value, queues, down, hour, changes>>
BY DEF Asked, TypeInv, world

LEMMA AskedType ==
    ASSUME TypeInv, pass.index \in DOMAIN specTargets, Current.metric \in Scalers,
           NEW desired \in Nat, NEW managed \in Seq(Names), NEW list \in Seq(Entries),
           NEW answered \in BOOLEAN, Asked(desired, managed, list, answered),
           lastGood' \in [Names -> Nat \cup {Unset}]
    PROVE  TypeInv'
<1> DEFINE outputs == [m \in DOMAIN pass.outputs \cup {Current.metric} |->
                         IF m = Current.metric THEN desired ELSE pass.outputs[m]]
           new == [index |-> pass.index + 1, outputs |-> outputs,
                   managed |-> pass.managed \o managed, asked |-> pass.asked \cup {desired},
                   answered |-> pass.answered \/ answered]
<1>1. /\ pass.managed \in Seq(Names) /\ pass.asked \in SUBSET Nat /\ pass.answered \in BOOLEAN
      /\ pass.index \in Nat
      /\ DOMAIN pass.outputs \subseteq Scalers
      /\ \A m \in DOMAIN pass.outputs : pass.outputs[m] \in Nat
  BY DEF TypeInv, TypeOK
<1>2. pass' = new
  BY Zenon DEF Asked, TypeInv
<1>3. /\ DOMAIN outputs = DOMAIN pass.outputs \cup {Current.metric}
      /\ outputs \in [DOMAIN outputs -> Nat]
  BY <1>1
<1>4. DOMAIN outputs \subseteq Scalers /\ \A m \in DOMAIN outputs : outputs[m] \in Nat
  BY <1>1, <1>3
<1> HIDE DEF outputs
<1>5. pass.managed \o managed \in Seq(Names)
  BY <1>1
<1>6. new \in [index : Nat, outputs : [DOMAIN outputs -> Nat], managed : Seq(Names),
               asked : SUBSET Nat, answered : BOOLEAN]
  BY <1>1, <1>3, <1>5
<1>7. new.index \in 0..(Len(specTargets) + 1)
  <2>1. specTargets \in Seq(ListedTargets)
    BY TargetsAssumption DEF TypeInv, TypeOK
  <2>2. QED
    BY <1>1, <2>1
<1>8. /\ pass' \in [index : Nat, outputs : [DOMAIN pass'.outputs -> Nat], managed : Seq(Names),
                    asked : SUBSET Nat, answered : BOOLEAN]
      /\ pass'.index \in 0..(Len(specTargets) + 1)
      /\ DOMAIN pass'.outputs \subseteq Scalers
      /\ \A m \in DOMAIN pass'.outputs : pass'.outputs[m] \in Nat
      /\ pass'.managed \in Seq(Names)
  BY <1>2, <1>4, <1>5, <1>6, <1>7
<1>9. targets' \in Seq([target : Names, average : Nat])
  BY DEF Asked, Entries
<1>10. UNCHANGED <<specTargets, replicas, value, queues, down, hour, changes>>
  BY DEF Asked, world
<1>11. QED
  BY <1>8, <1>9, <1>10 DEF TypeInv, TypeOK

LEMMA NoPassType ==
    /\ NoPass \in [index : Nat, outputs : [{} -> Nat], managed : Seq(Names),
                   asked : SUBSET Nat, answered : BOOLEAN]
    /\ DOMAIN NoPass.outputs = {} /\ NoPass.managed = <<>> /\ NoPass.index = 0
    /\ NoPass.asked = {} /\ NoPass.answered = FALSE
BY DEF NoPass

LEMMA PassStepType ==
    ASSUME TypeInv, PassStep
    PROVE  TypeInv'
<1> USE DEF TypeInv
<1>0. /\ specTargets \in Seq(ListedTargets) /\ Len(specTargets) \in Nat
      /\ targets \in Seq(Entries) /\ replicas \in Nat /\ lastGood \in [Names -> Nat \cup {Unset}]
  BY TargetsAssumption DEF TypeOK, Entries
<1>1. CASE StartPass
  <2>1. pass' = [NoPass EXCEPT !.index = 1]
    BY <1>1 DEF StartPass
  <2>2. /\ pass' \in [index : Nat, outputs : [{} -> Nat], managed : Seq(Names),
                      asked : SUBSET Nat, answered : BOOLEAN]
        /\ DOMAIN pass'.outputs = {} /\ pass'.index = 1
    BY <2>1, NoPassType
  <2>3. UNCHANGED <<specTargets, replicas, targets, value, queues, down, hour, changes, lastGood>>
    BY <1>1 DEF StartPass, world
  <2>4. QED
    BY <1>0, <2>2, <2>3 DEF TypeOK
<1>2. CASE Ask \/ AskRefused
  <2>1. pass.index \in DOMAIN specTargets /\ Current.name \in Names
    BY <1>2, AskCases, CurrentType
  <2>2. <<Current.name>> \in Seq(Names) /\ <<>> \in Seq(Names)
    BY <2>1
  <2>3. ASSUME NEW average \in Nat
        PROVE  SetTargetStatus(targets, [target |-> Current.name, average |-> average])
                 \in Seq(Entries)
    <3>1. [target |-> Current.name, average |-> average] \in Entries
      BY <2>1 DEF Entries
    <3>2. QED
      BY <1>0, <3>1, SetTargetStatusType
  <2>4. CASE Aborted
    <3>1. pass' = NoPass
      BY <2>4 DEF Aborted
    <3>2. UNCHANGED <<specTargets, replicas, targets, value, queues, down, hour, changes, lastGood>>
      BY <2>4 DEF Aborted, world
    <3>3. QED
      BY <1>0, <3>1, <3>2, NoPassType DEF TypeOK
  <2>5. CASE Current.metric \in Scalers /\ AsksNothing
    BY <1>0, <2>1, <2>2, <2>5, AskedType DEF AsksNothing
  <2>6. CASE Current.metric \in Scalers /\ Stores
    <3>1. PICK desired \in Nat, average \in Nat :
            /\ Asked(desired, <<Current.name>>,
                     SetTargetStatus(targets, [target |-> Current.name, average |-> average]), TRUE)
            /\ lastGood' = [lastGood EXCEPT ![Current.name] = average]
      BY <2>6 DEF Stores
    <3>2. lastGood' \in [Names -> Nat \cup {Unset}]
      BY <1>0, <3>1
    <3>3. QED
      BY <2>1, <2>2, <2>3, <2>6, <3>1, <3>2, AskedType
  <2>7. CASE Current.metric \in Scalers /\ FallsBack
    BY <1>0, <2>1, <2>2, <2>7, AskedType DEF FallsBack
  <2>8. CASE Current.metric \in Scalers /\ StoresPods
    <3>1. PICK desired \in Nat :
            Asked(desired, <<Current.name>>,
                  SetTargetStatus(targets, [target |-> Current.name, average |-> 0]), TRUE)
      BY <2>8 DEF StoresPods
    <3>2. lastGood' \in [Names -> Nat \cup {Unset}]
      BY <1>0, <2>8 DEF StoresPods
    <3>3. QED
      BY <2>1, <2>2, <2>3, <2>8, <3>1, <3>2, AskedType
  <2>9. QED
    BY <1>2, <2>4, <2>5, <2>6, <2>7, <2>8, AskCases
<1>3. CASE FinishPass
  <2>1. targets' \in Seq(Entries)
    BY <1>0, <1>3, PurgeType DEF FinishPass
  <2>2. replicas' \in Nat
    <3>1. PICK n \in {0} \cup {pass.outputs[m] : m \in DOMAIN pass.outputs} :
            replicas' = Limited(n)
      BY <1>3 DEF FinishPass
    <3>2. n \in Nat
      BY DEF TypeOK
    <3>3. QED
      BY <3>1, <3>2, LimitsAssumption DEF Limited
  <2>3. lastGood' \in [Names -> Nat \cup {Unset}]
    BY <1>0, <1>3 DEF FinishPass
  <2>4. pass' = NoPass /\ UNCHANGED <<specTargets, value, queues, down, hour, changes>>
    BY <1>3 DEF FinishPass, world
  <2>5. QED
    BY <1>0, <2>1, <2>2, <2>3, <2>4, NoPassType DEF TypeOK, Entries
<1>4. QED
  BY <1>1, <1>2, <1>3 DEF PassStep

WorldStep == ChangeValue \/ ChangeQueue \/ ChangeOutage \/ EditTargets \/ Tick

\* The world moves around the loop: it touches neither the pass nor the status, and the list
\* of targets only between passes.
LEMMA WorldShape ==
    ASSUME WorldStep
    PROVE  /\ UNCHANGED <<replicas, targets, pass, lastGood>>
           /\ UNCHANGED specTargets \/ (pass.index = 0 /\ specTargets' \in TargetLists)
BY DEF WorldStep, ChangeValue, ChangeQueue, ChangeOutage, EditTargets, Tick, world

LEMMA WorldStepType ==
    ASSUME TypeInv, WorldStep
    PROVE  TypeInv'
<1> USE DEF TypeInv, TypeOK
<1>1. /\ UNCHANGED <<replicas, targets, pass, lastGood>> /\ specTargets' \in TargetLists
      /\ pass'.index \in 0..(Len(specTargets') + 1)
  <2>1. /\ UNCHANGED <<replicas, targets, pass, lastGood>>
        /\ UNCHANGED specTargets \/ (pass.index = 0 /\ specTargets' \in TargetLists)
    BY WorldShape
  <2>2. CASE UNCHANGED specTargets
    BY <2>1, <2>2
  <2>3. CASE pass.index = 0 /\ specTargets' \in TargetLists
    <3>1. Len(specTargets') \in Nat
      BY <2>3, TargetsAssumption
    <3>2. QED
      BY <2>1, <2>3, <3>1
  <2>4. QED
    BY <2>1, <2>2, <2>3
<1>2. changes' \in 0..Changes
  BY BoundsAssumption DEF WorldStep, ChangeValue, ChangeQueue, ChangeOutage, EditTargets, Tick
<1>3. hour' \in 0..(Week - 1)
  <2>1. CASE Tick
    <3>1. hour' = (hour + 1) % Week /\ hour + 1 \in Nat /\ Week \in Nat \ {0}
      BY <2>1, BoundsAssumption DEF Tick
    <3>2. QED
      BY <3>1
  <2>2. CASE ~Tick
    BY <2>2 DEF WorldStep, ChangeValue, ChangeQueue, ChangeOutage, EditTargets, world
  <2>3. QED
    BY <2>1, <2>2
<1>4. value' \in [Queries -> Values] /\ queues' \in [Queues -> QueueStates]
  <2>1. CASE ChangeValue
    BY <2>1 DEF ChangeValue
  <2>2. CASE ChangeQueue
    BY <2>2 DEF ChangeQueue
  <2>3. CASE ChangeOutage \/ EditTargets \/ Tick
    BY <2>3 DEF ChangeOutage, EditTargets, Tick, world
  <2>4. QED
    BY <2>1, <2>2, <2>3 DEF WorldStep
<1>5. down' \subseteq Names
  <2>1. CASE ChangeOutage
    <3>1. NamesInUse \subseteq Names
      BY DEF NamesInUse, Names, ListedTargets
    <3>2. QED
      BY <2>1, <3>1 DEF ChangeOutage
  <2>2. CASE ~ChangeOutage
    BY <2>2 DEF WorldStep, ChangeValue, ChangeQueue, EditTargets, Tick, world
  <2>3. QED
    BY <2>1, <2>2
<1>6. QED
  BY <1>1, <1>2, <1>3, <1>4, <1>5

LEMMA TypeInit ==
    ASSUME Init
    PROVE  TypeInv
<1>1. specTargets \in TargetLists /\ Len(specTargets) \in Nat
  BY TargetsAssumption DEF Init
<1>2. pass = NoPass /\ targets = <<>> /\ lastGood \in [Names -> Nat \cup {Unset}]
  BY DEF Init
<1>3. replicas \in Nat /\ down \subseteq Names /\ hour \in 0..(Week - 1) /\ changes \in 0..Changes
  BY LimitsAssumption, BoundsAssumption DEF Init
<1>4. QED
  BY <1>1, <1>2, <1>3, NoPassType DEF Init, TypeInv, TypeOK

LEMMA TypeStep ==
    ASSUME TypeInv, [Next]_vars
    PROVE  TypeInv'
<1>1. CASE PassStep
  BY <1>1, PassStepType
<1>2. CASE WorldStep
  BY <1>2, WorldStepType
<1>3. CASE UNCHANGED vars
  BY <1>3 DEF TypeInv, TypeOK, vars, world
<1>4. QED
  BY <1>1, <1>2, <1>3 DEF Next, WorldStep

\* Every state of the loop is well typed: in particular no scaler divides by zero or asks
\* for less than nothing, whatever its settings, the answers and the replicas are, and the
\* purge leaves a list of entries.
THEOREM TypeCorrect == Spec => []TypeOK
<1>1. Spec => []TypeInv
  BY TypeInit, TypeStep, PTL DEF Spec
<1>2. TypeInv => TypeOK
  BY DEF TypeInv
<1>3. QED
  BY <1>1, <1>2, PTL

-----------------------------------------------------------------------------
(* Every target counts                                                     *)

LEMMA DoneGrows ==
    ASSUME TypeInv, pass.index \in DOMAIN specTargets,
           pass'.index = pass.index + 1, UNCHANGED specTargets
    PROVE  /\ Done' = Done \cup {pass.index} /\ pass.index \notin Done
           /\ Done \subseteq DOMAIN specTargets
<1>1. specTargets \in Seq(ListedTargets)
  BY TargetsAssumption DEF TypeInv, TypeOK
<1>2. Done' = 1..pass.index
  BY <1>1 DEF Done
<1>3. pass.index \in 1..Len(specTargets) /\ DOMAIN specTargets = 1..Len(specTargets)
  BY <1>1
<1>4. QED
  BY <1>1, <1>2, <1>3 DEF Done

LEMMA OutputsAsked ==
    ASSUME OwnScalers, TypeInv, OutputsKept, pass.index \in DOMAIN specTargets,
           NEW desired, NEW managed, NEW list, NEW answered,
           Asked(desired, managed, list, answered)
    PROVE  OutputsKept'
<1> DEFINE m == Current.metric
<1>1. /\ DOMAIN pass'.outputs = DOMAIN pass.outputs \cup {m}
      /\ pass'.outputs[m] = desired
      /\ \A o \in DOMAIN pass.outputs : o # m => pass'.outputs[o] = pass.outputs[o]
      /\ pass'.asked = pass.asked \cup {desired}
  BY AskedShape
<1>2. UNCHANGED specTargets /\ specTargets \in TargetLists
  BY DEF Asked, TypeInv, TypeOK
<1>3. /\ Done' = Done \cup {pass.index} /\ pass.index \notin Done
      /\ Done \subseteq DOMAIN specTargets
  BY <1>2, AskedShape, DoneGrows
<1>4. m \notin DOMAIN pass.outputs
  <2>1. SUFFICES ASSUME NEW i \in Done, specTargets[i].metric = m PROVE FALSE
    BY DEF OutputsKept
  <2>2. i = pass.index
    BY <1>2, <1>3, <2>1 DEF OwnScalers, Current
  <2>3. QED
    BY <1>3, <2>2
<1>5. \A o \in DOMAIN pass'.outputs : \E i \in Done' : specTargets[i].metric = o
  BY <1>1, <1>3 DEF OutputsKept, Current
<1>6. \A n \in pass'.asked : \E o \in DOMAIN pass'.outputs : pass'.outputs[o] = n
  BY <1>1, <1>4 DEF OutputsKept
<1>7. QED
  BY <1>2, <1>5, <1>6 DEF OutputsKept

\* A pass that is over, aborted or just begun, has no outputs.
LEMMA OutputsFresh ==
    ASSUME pass'.outputs = NoPass.outputs, pass'.asked = {}
    PROVE  OutputsKept'
BY NoPassType DEF OutputsKept

LEMMA OutputsStep ==
    ASSUME OwnScalers, TypeInv, OutputsKept, [Next]_vars
    PROVE  OutputsKept'
<1>1. CASE StartPass \/ FinishPass \/ Aborted
  <2>1. pass'.outputs = NoPass.outputs /\ pass'.asked = {}
    BY <1>1, NoPassType DEF StartPass, FinishPass, Aborted
  <2>2. QED
    BY <2>1, OutputsFresh
<1>2. CASE Ask \/ AskRefused
  <2>1. pass.index \in DOMAIN specTargets
    BY <1>2, AskCases
  <2>2. Aborted \/ \E desired, managed, list, answered : Asked(desired, managed, list, answered)
    BY <1>2, AskCases, Zenon DEF AsksNothing, Stores, FallsBack, StoresPods
  <2>3. QED
    BY <1>1, <2>1, <2>2, OutputsAsked
<1>3. CASE WorldStep
  <2>1. UNCHANGED pass /\ (UNCHANGED specTargets \/ pass.index = 0)
    BY <1>3, WorldShape
  <2>2. CASE UNCHANGED specTargets
    BY <2>1, <2>2 DEF OutputsKept, Done
  <2>3. CASE pass.index = 0
    <3>1. Done = {} /\ Done' = {}
      BY <2>1, <2>3 DEF Done
    <3>2. QED
      BY <2>1, <3>1 DEF OutputsKept
  <2>4. QED
    BY <2>1, <2>2, <2>3
<1>4. CASE UNCHANGED vars
  BY <1>4 DEF OutputsKept, Done, vars
<1>5. QED
  BY <1>1, <1>2, <1>3, <1>4 DEF Next, PassStep, WorldStep

LEMMA LimitedMonotone ==
    ASSUME NEW m \in Nat, NEW n \in Nat, m <= n
    PROVE  Limited(m) <= Limited(n)
BY LimitsAssumption DEF Limited

\* A pass in progress ends at its last target only by FinishPass.
LEMMA EndsOnce ==
    ASSUME TypeInv, [Next]_vars, pass.index > Len(specTargets), pass'.index = 0
    PROVE  FinishPass
<1>1. /\ specTargets \in Seq(ListedTargets) /\ Len(specTargets) \in Nat
      /\ DOMAIN specTargets = 1..Len(specTargets) /\ pass.index \in Nat
  BY TargetsAssumption DEF TypeInv, TypeOK
<1>2. pass.index # 0 /\ pass.index \notin DOMAIN specTargets
  BY <1>1
<1>3. ~StartPass /\ ~Ask /\ ~AskRefused
  BY <1>2 DEF StartPass, Ask, AskRefused
<1>4. ~WorldStep /\ ~UNCHANGED vars
  BY <1>2, WorldShape DEF vars
<1>5. QED
  BY <1>3, <1>4 DEF Next, PassStep, WorldStep

\* Where no spec has two targets of one scaler, no output is overwritten before the
\* replicator takes the maximum: the target ends every pass with at least what each of its
\* scalers asked for, as far as the limits allow, for any scalers, schedules and answers.
THEOREM EveryOutputCounts == OwnScalers => (Spec => EveryTargetCounts)
<1>1. SUFFICES ASSUME OwnScalers PROVE Spec => EveryTargetCounts
  OBVIOUS
<1>2. Init => OutputsKept
  <2>1. ASSUME Init PROVE DOMAIN pass.outputs = {} /\ pass.asked = {}
    BY <2>1, NoPassType DEF Init
  <2>2. QED
    BY <2>1 DEF OutputsKept
<1>3. ASSUME TypeInv, OutputsKept, [Next]_vars
      PROVE  [(pass.index > Len(specTargets) /\ pass'.index = 0) =>
                 \A n \in pass.asked : replicas' >= Limited(n)]_vars
  <2>1. SUFFICES ASSUME pass.index > Len(specTargets), pass'.index = 0, NEW n \in pass.asked
                 PROVE  replicas' >= Limited(n)
    OBVIOUS
  <2>2. FinishPass
    BY <1>3, <2>1, EndsOnce
  <2>3. PICK greatest \in {0} \cup {pass.outputs[m] : m \in DOMAIN pass.outputs} :
          IsGreatestOutput(greatest, pass.outputs) /\ replicas' = Limited(greatest)
    BY <2>2 DEF FinishPass
  <2>4. PICK m \in DOMAIN pass.outputs : pass.outputs[m] = n
    BY <1>3 DEF OutputsKept
  <2>5. n <= greatest /\ n \in Nat /\ greatest \in Nat
    BY <1>3, <2>3, <2>4 DEF IsGreatestOutput, TypeInv, TypeOK
  <2>6. Limited(n) <= Limited(greatest) /\ Limited(n) \in Nat /\ Limited(greatest) \in Nat
    BY <2>5, LimitedMonotone, LimitsAssumption DEF Limited
  <2>7. QED
    BY <2>3, <2>6
<1>4. QED
  BY <1>1, <1>2, <1>3, TypeInit, TypeStep, OutputsStep, PTL DEF Spec, EveryTargetCounts

-----------------------------------------------------------------------------
(* The entries of status.targets                                           *)

LEMMA ManagedAsked ==
    ASSUME OwnNames, TypeInv, ManagedOnce, pass.index \in DOMAIN specTargets,
           NEW desired, NEW managed, NEW list, NEW answered,
           Asked(desired, managed, list, answered),
           managed = <<>> \/ managed = <<Current.name>>
    PROVE  ManagedOnce'
<1>1. pass.managed \in Seq(Names) /\ pass'.managed = pass.managed \o managed
  BY AskedShape DEF TypeInv
<1>2. UNCHANGED specTargets /\ specTargets \in TargetLists
  BY DEF Asked, TypeInv, TypeOK
<1>3. /\ Done' = Done \cup {pass.index} /\ pass.index \notin Done
      /\ Done \subseteq DOMAIN specTargets
  BY <1>2, AskedShape, DoneGrows
<1>4. \A k \in DOMAIN pass.managed : pass.managed[k] # Current.name
  BY <1>2, <1>3 DEF ManagedOnce, OwnNames, Current
<1>5. CASE managed = <<>>
  <2>1. pass'.managed = pass.managed
    BY <1>1, <1>5
  <2>2. QED
    BY <1>2, <1>3, <2>1 DEF ManagedOnce
<1>6. CASE managed = <<Current.name>>
  <2>1. /\ DOMAIN pass'.managed = DOMAIN pass.managed \cup {Len(pass.managed) + 1}
        /\ pass'.managed[Len(pass.managed) + 1] = Current.name
        /\ \A k \in DOMAIN pass.managed : pass'.managed[k] = pass.managed[k]
    <3>1. Current.name \in Names
      BY CurrentType
    <3>2. pass'.managed = Append(pass.managed, Current.name)
      BY <1>1, <1>6, <3>1
    <3>3. QED
      BY <1>1, <3>1, <3>2
  <2>2. \A k \in DOMAIN pass'.managed : \E i \in Done' : specTargets[i].name = pass'.managed[k]
    BY <1>3, <2>1 DEF ManagedOnce, Current
  <2>3. \A k, l \in DOMAIN pass'.managed : pass'.managed[k] = pass'.managed[l] => k = l
    BY <1>4, <2>1 DEF ManagedOnce
  <2>4. QED
    BY <1>2, <2>2, <2>3 DEF ManagedOnce
<1>7. QED
  BY <1>5, <1>6

\* A call keeps the entries or sets the one of its name, and manages no other.
LEMMA AskKeepsOrSets ==
    ASSUME TypeInv, Ask \/ AskRefused
    PROVE  /\ pass.index \in DOMAIN specTargets
           /\ \/ Aborted
              \/ \E desired, managed, list, answered :
                    /\ Asked(desired, managed, list, answered)
                    /\ managed = <<>> \/ managed = <<Current.name>>
                    /\ \/ list = targets
                       \/ \E entry \in Entries : list = SetTargetStatus(targets, entry)
<1>1. pass.index \in DOMAIN specTargets /\ Current.name \in Names
  BY AskCases, CurrentType
<1>2. CASE Aborted
  BY <1>1, <1>2
<1>3. CASE AsksNothing
  BY <1>1, <1>3, Zenon DEF AsksNothing
<1>4. CASE FallsBack
  BY <1>1, <1>4, Zenon DEF FallsBack
<1>5. ASSUME NEW desired \in Nat, NEW average \in Nat,
             Asked(desired, <<Current.name>>,
                   SetTargetStatus(targets, [target |-> Current.name, average |-> average]), TRUE)
      PROVE  \E d, managed, list, answered :
                /\ Asked(d, managed, list, answered)
                /\ managed = <<>> \/ managed = <<Current.name>>
                /\ \/ list = targets
                   \/ \E entry \in Entries : list = SetTargetStatus(targets, entry)
  <2>1. [target |-> Current.name, average |-> average] \in Entries
    BY <1>1 DEF Entries
  <2>2. QED
    BY <1>5, <2>1, Zenon
<1>6. CASE Stores
  BY <1>1, <1>5, <1>6, Zenon DEF Stores
<1>7. CASE StoresPods
  <2>1. PICK desired \in Nat :
          Asked(desired, <<Current.name>>,
                SetTargetStatus(targets, [target |-> Current.name, average |-> 0]), TRUE)
    BY <1>7 DEF StoresPods
  <2>2. 0 \in Nat
    OBVIOUS
  <2>3. QED
    BY <1>1, <1>5, <2>1, <2>2, Zenon
<1>8. QED
  BY <1>2, <1>3, <1>4, <1>6, <1>7, AskCases

LEMMA UniqueStep ==
    ASSUME OwnNames, TypeInv, TargetsUnique, ManagedOnce, [Next]_vars
    PROVE  TargetsUnique' /\ ManagedOnce'
<1>0. targets \in Seq(Entries) /\ Unique(targets) /\ pass.managed \in Seq(Names)
  BY DEF TypeInv, TypeOK, Entries, TargetsUnique, Unique
<1>1. ASSUME pass'.managed = <<>> PROVE ManagedOnce'
  BY <1>1 DEF ManagedOnce
<1>2. CASE StartPass \/ Aborted
  <2>1. pass'.managed = <<>> /\ UNCHANGED targets
    BY <1>2, NoPassType DEF StartPass, Aborted
  <2>2. QED
    BY <1>1, <2>1 DEF TargetsUnique
<1>3. CASE FinishPass
  <2>1. pass'.managed = <<>> /\ targets' = PurgeTargetStatus(pass.managed, targets)
    BY <1>3, NoPassType DEF FinishPass
  <2>2. Unique(targets')
    BY <1>0, <2>1, PurgeUnique DEF ManagedOnce
  <2>3. QED
    BY <1>1, <2>1, <2>2 DEF TargetsUnique, Unique
<1>4. CASE Ask \/ AskRefused
  <2>1. pass.index \in DOMAIN specTargets
    BY <1>4, AskKeepsOrSets
  <2>2. CASE Aborted
    BY <1>2, <2>2
  <2>3. ASSUME NEW desired, NEW managed, NEW list, NEW answered,
               Asked(desired, managed, list, answered),
               managed = <<>> \/ managed = <<Current.name>>,
               list = targets \/ \E entry \in Entries : list = SetTargetStatus(targets, entry)
        PROVE  TargetsUnique' /\ ManagedOnce'
    <3>1. Unique(list)
      BY <1>0, <2>3, SetTargetStatusUnique
    <3>2. targets' = list
      BY <2>3 DEF Asked
    <3>3. ManagedOnce'
      BY <2>1, <2>3, ManagedAsked
    <3>4. QED
      BY <3>1, <3>2, <3>3 DEF TargetsUnique, Unique
  <2>4. QED
    BY <1>4, <2>2, <2>3, AskKeepsOrSets
<1>5. CASE WorldStep
  <2>1. UNCHANGED <<pass, targets>> /\ (UNCHANGED specTargets \/ pass.index = 0)
    BY <1>5, WorldShape
  <2>2. TargetsUnique'
    BY <2>1 DEF TargetsUnique
  <2>3. CASE UNCHANGED specTargets
    BY <2>1, <2>2, <2>3 DEF ManagedOnce, Done
  <2>4. CASE pass.index = 0
    <3>1. Done = {} /\ Done' = {}
      BY <2>1, <2>4 DEF Done
    <3>2. QED
      BY <2>1, <2>2, <3>1 DEF ManagedOnce
  <2>5. QED
    BY <2>1, <2>3, <2>4
<1>6. CASE UNCHANGED vars
  BY <1>6 DEF TargetsUnique, ManagedOnce, Done, vars
<1>7. QED
  BY <1>2, <1>3, <1>4, <1>5, <1>6 DEF Next, PassStep, WorldStep

\* Where no spec has two targets of one name, status.targets has one entry of a name in every
\* state: the purge, which keeps an entry once for every time its name is managed, doubles
\* none, however many passes failed half-way before it.
THEOREM EntriesUnique == OwnNames => (Spec => []TargetsUnique)
<1>1. SUFFICES ASSUME OwnNames PROVE Spec => []TargetsUnique
  OBVIOUS
<1>2. Init => TargetsUnique /\ ManagedOnce
  <2>1. ASSUME Init PROVE targets = <<>> /\ pass.managed = <<>>
    BY <2>1, NoPassType DEF Init
  <2>2. QED
    BY <2>1 DEF TargetsUnique, ManagedOnce
<1>3. QED
  BY <1>1, <1>2, TypeInit, TypeStep, UniqueStep, PTL DEF Spec

-----------------------------------------------------------------------------
(* The value a failover relies on                                          *)

\* A call changes what is remembered of its own name only, and remembers nothing that it does
\* not manage and the list does not hold.
LEMMA AskedRemembers ==
    ASSUME TypeInv, LastValueRemembered, ManagedInTime, pass.index \in DOMAIN specTargets,
           NEW desired, NEW managed, NEW list, NEW answered, NEW average,
           Asked(desired, managed, list, answered),
           managed = <<>> \/ managed = <<Current.name>>,
           lastGood' = [lastGood EXCEPT ![Current.name] = average],
           \A i \in DOMAIN targets : targets[i].target # Current.name =>
              \E j \in DOMAIN list : list[j] = targets[i],
           average # Unset =>
              /\ managed = <<Current.name>> /\ Current.metric \in {"prometheus", "rabbitmq"}
              /\ \E j \in DOMAIN list :
                    list[j].target = Current.name /\ list[j].average = average
    PROVE  LastValueRemembered' /\ ManagedInTime'
<1>1. /\ pass.managed \in Seq(Names) /\ pass'.managed = pass.managed \o managed
      /\ targets' = list /\ UNCHANGED specTargets
      /\ Current \in ListedTargets /\ Current.name \in Names /\ lastGood \in [Names -> Nat \cup {Unset}]
  BY AskedShape, CurrentType DEF TypeInv, TypeOK
<1>2. /\ lastGood'[Current.name] = average
      /\ \A q \in Names : q # Current.name => lastGood'[q] = lastGood[q]
  BY <1>1
<1>3. LastValueRemembered'
  <2>1. SUFFICES ASSUME NEW q \in Names, lastGood'[q] # Unset
                 PROVE  \E i \in DOMAIN list : list[i].target = q /\ list[i].average = lastGood'[q]
    BY <1>1 DEF LastValueRemembered
  <2>2. CASE q = Current.name
    BY <1>2, <2>1, <2>2
  <2>3. CASE q # Current.name
    <3>1. lastGood'[q] = lastGood[q]
      BY <1>2, <2>3
    <3>2. PICK i \in DOMAIN targets : targets[i].target = q /\ targets[i].average = lastGood[q]
      BY <2>1, <3>1 DEF LastValueRemembered
    <3>3. PICK j \in DOMAIN list : list[j] = targets[i]
      BY <2>3, <3>2
    <3>4. QED
      BY <3>1, <3>2, <3>3
  <2>4. QED
    BY <2>2, <2>3
<1>4. Done' = Done \cup {pass.index} /\ Done \subseteq DOMAIN specTargets
  BY <1>1, AskedShape, DoneGrows
<1>5. ASSUME NEW i \in DOMAIN specTargets PROVE specTargets[i].name \in Names
  BY DEF Names, ListedTargets, TypeInv, TypeOK
<1>6. /\ DOMAIN pass.managed \subseteq DOMAIN pass'.managed
      /\ \A k \in DOMAIN pass.managed : pass'.managed[k] = pass.managed[k]
      /\ managed = <<Current.name>> =>
            \E k \in DOMAIN pass'.managed : pass'.managed[k] = Current.name
  <2>1. CASE managed = <<>>
    BY <1>1, <2>1
  <2>2. CASE managed = <<Current.name>>
    <3>1. pass'.managed = Append(pass.managed, Current.name)
      BY <1>1, <2>2
    <3>2. /\ DOMAIN pass'.managed = 1..(Len(pass.managed) + 1)
          /\ DOMAIN pass.managed = 1..Len(pass.managed) /\ Len(pass.managed) \in Nat
          /\ pass'.managed[Len(pass.managed) + 1] = Current.name
          /\ \A k \in 1..Len(pass.managed) : pass'.managed[k] = pass.managed[k]
      BY <1>1, <3>1
    <3>3. QED
      BY <3>2
  <2>3. QED
    BY <2>1, <2>2
<1>7. ASSUME NEW i \in Done', lastGood'[specTargets[i].name] # Unset
      PROVE  \E k \in DOMAIN pass'.managed : pass'.managed[k] = specTargets[i].name
  <2>1. CASE specTargets[i].name = Current.name
    BY <1>2, <1>6, <1>7, <2>1
  <2>2. CASE specTargets[i].name # Current.name
    <3>1. i \in Done /\ specTargets[i].name \in Names
      BY <1>4, <1>5, <2>2 DEF Current
    <3>2. lastGood[specTargets[i].name] # Unset
      BY <1>2, <1>7, <2>2, <3>1
    <3>3. \E k \in DOMAIN pass.managed : pass.managed[k] = specTargets[i].name
      BY <3>1, <3>2 DEF ManagedInTime
    <3>4. QED
      BY <1>6, <3>3
  <2>3. QED
    BY <2>1, <2>2
<1>8. ASSUME NEW t \in ListedTargets, lastGood'[t.name] # Unset
      PROVE  t.metric \in {"prometheus", "rabbitmq"}
  <2>1. t.name \in Names
    BY DEF Names
  <2>2. CASE t.name = Current.name
    BY <1>1, <1>2, <1>8, <2>2, NamesAssumption
  <2>3. CASE t.name # Current.name
    BY <1>2, <1>8, <2>1, <2>3 DEF ManagedInTime
  <2>4. QED
    BY <2>2, <2>3
<1>9. QED
  BY <1>1, <1>3, <1>7, <1>8 DEF ManagedInTime

LEMMA RememberedAcrossCalls ==
    ASSUME TypeInv, LastValueRemembered, ManagedInTime, Ask \/ AskRefused, ~Aborted
    PROVE  LastValueRemembered' /\ ManagedInTime'
<1> DEFINE name == Current.name
<1>1. /\ pass.index \in DOMAIN specTargets /\ name \in Names /\ Current \in ListedTargets
      /\ targets \in Seq(Entries) /\ lastGood \in [Names -> Nat \cup {Unset}]
  BY AskCases, CurrentType DEF TypeInv, TypeOK, Entries
<1>2. ASSUME NEW average \in Nat
      PROVE  LET list == SetTargetStatus(targets, [target |-> name, average |-> average])
             IN  /\ \A i \in DOMAIN targets : targets[i].target # name =>
                       \E j \in DOMAIN list : list[j] = targets[i]
                 /\ \E j \in DOMAIN list : list[j].target = name /\ list[j].average = average
  <2> DEFINE entry == [target |-> name, average |-> average]
  <2>1. entry \in Entries /\ entry.target = name /\ entry.average = average
    BY <1>1 DEF Entries
  <2> HIDE DEF entry
  <2>2. /\ \E i \in DOMAIN SetTargetStatus(targets, entry) :
              SetTargetStatus(targets, entry)[i] = entry
        /\ \A i \in DOMAIN targets : targets[i].target # entry.target =>
              /\ i \in DOMAIN SetTargetStatus(targets, entry)
              /\ SetTargetStatus(targets, entry)[i] = targets[i]
    BY <1>1, <2>1, SetTargetStatusStores
  <2>3. QED
    BY <2>1, <2>2 DEF entry
<1>3. CASE AsksNothing
  BY <1>1, <1>3, AskedRemembers DEF AsksNothing
<1>4. CASE Stores
  <2>1. PICK desired \in Nat, average \in Nat :
          /\ Asked(desired, <<name>>,
                   SetTargetStatus(targets, [target |-> name, average |-> average]), TRUE)
          /\ lastGood' = [lastGood EXCEPT ![name] = average]
    BY <1>4 DEF Stores
  <2>2. Current.metric \in {"prometheus", "rabbitmq"}
    BY <1>4 DEF Stores
  <2> DEFINE list == SetTargetStatus(targets, [target |-> name, average |-> average])
  <2>3. /\ \A i \in DOMAIN targets : targets[i].target # name =>
              \E j \in DOMAIN list : list[j] = targets[i]
        /\ \E j \in DOMAIN list : list[j].target = name /\ list[j].average = average
    BY <1>2
  <2> HIDE DEF list
  <2>4. Asked(desired, <<name>>, list, TRUE)
    BY <2>1 DEF list
  <2>5. QED
    BY <1>1, <2>1, <2>2, <2>3, <2>4, AskedRemembers
<1>5. lastGood[name] # Unset =>
         /\ Current.metric \in {"prometheus", "rabbitmq"}
         /\ \E j \in DOMAIN targets :
               targets[j].target = name /\ targets[j].average = lastGood[name]
  BY <1>1 DEF LastValueRemembered, ManagedInTime
<1>6. UNCHANGED lastGood => lastGood' = [lastGood EXCEPT ![name] = lastGood[name]]
  BY <1>1
<1>7. CASE FallsBack
  <2>1. PICK desired \in Nat : Asked(desired, <<name>>, targets, FALSE)
    BY <1>7 DEF FallsBack
  <2>2. lastGood' = [lastGood EXCEPT ![name] = lastGood[name]]
    BY <1>6, <1>7 DEF FallsBack
  <2>3. QED
    BY <1>1, <1>5, <2>1, <2>2, AskedRemembers
<1>8. CASE StoresPods
  <2>1. PICK desired \in Nat :
          Asked(desired, <<name>>,
                SetTargetStatus(targets, [target |-> name, average |-> 0]), TRUE)
    BY <1>8 DEF StoresPods
  <2>2. lastGood' = [lastGood EXCEPT ![name] = lastGood[name]] /\ lastGood[name] = Unset
    BY <1>5, <1>6, <1>8 DEF StoresPods
  <2> DEFINE list == SetTargetStatus(targets, [target |-> name, average |-> 0])
  <2>3. /\ \A i \in DOMAIN targets : targets[i].target # name =>
              \E j \in DOMAIN list : list[j] = targets[i]
        /\ \E j \in DOMAIN list : list[j].target = name /\ list[j].average = 0
    BY <1>2
  <2> HIDE DEF list
  <2>4. Asked(desired, <<name>>, list, TRUE)
    BY <2>1 DEF list
  <2>5. QED
    BY <1>1, <2>1, <2>2, <2>3, <2>4, AskedRemembers
<1>9. QED
  BY <1>3, <1>4, <1>7, <1>8, AskCases

LEMMA RememberedAcrossPurge ==
    ASSUME TypeInv, LastValueRemembered, ManagedInTime, FinishPass
    PROVE  LastValueRemembered'
<1>1. /\ targets \in Seq(Entries) /\ pass.managed \in Seq(Names)
      /\ specTargets \in Seq(ListedTargets) /\ pass.index \in 0..(Len(specTargets) + 1)
  BY TargetsAssumption DEF TypeInv, TypeOK, Entries
<1>2. /\ targets' = PurgeTargetStatus(pass.managed, targets)
      /\ lastGood' = [q \in Names |-> IF q \in NamesInUse THEN lastGood[q] ELSE Unset]
  BY DEF FinishPass
<1>3. Done = DOMAIN specTargets
  BY <1>1 DEF FinishPass, Done
<1>4. SUFFICES ASSUME NEW q \in Names, lastGood'[q] # Unset
               PROVE  \E i \in DOMAIN targets' :
                        targets'[i].target = q /\ targets'[i].average = lastGood'[q]
  BY DEF LastValueRemembered
<1>5. q \in NamesInUse /\ lastGood'[q] = lastGood[q]
  BY <1>2, <1>4
<1>6. PICK i \in DOMAIN targets : targets[i].target = q /\ targets[i].average = lastGood[q]
  BY <1>4, <1>5 DEF LastValueRemembered
<1>7. PICK k \in DOMAIN pass.managed : pass.managed[k] = q
  BY <1>3, <1>4, <1>5 DEF ManagedInTime, NamesInUse
<1>8. PICK j \in DOMAIN targets' : targets'[j] = targets[i]
  BY <1>1, <1>2, <1>6, <1>7, PurgeKeeps
<1>9. QED
  BY <1>5, <1>6, <1>8

LEMMA RememberStep ==
    ASSUME TypeInv, LastValueRemembered, ManagedInTime, [Next]_vars
    PROVE  LastValueRemembered' /\ ManagedInTime'
<1>1. ASSUME Done' = {}, UNCHANGED lastGood PROVE ManagedInTime'
  BY <1>1 DEF ManagedInTime
<1>2. CASE StartPass \/ Aborted
  <2>1. pass'.index \in {0, 1} /\ UNCHANGED <<targets, lastGood>>
    BY <1>2, NoPassType DEF StartPass, Aborted
  <2>2. Done' = {}
    BY <2>1 DEF Done
  <2>3. QED
    BY <1>1, <2>1, <2>2 DEF LastValueRemembered
<1>3. CASE FinishPass
  <2>1. Done' = {}
    BY <1>3, NoPassType DEF FinishPass, Done
  <2>2. ASSUME NEW t \in ListedTargets, lastGood'[t.name] # Unset
        PROVE  lastGood[t.name] # Unset
    BY <1>3, <2>2 DEF FinishPass, Names
  <2>3. ManagedInTime'
    BY <2>1, <2>2 DEF ManagedInTime
  <2>4. QED
    BY <1>3, <2>3, RememberedAcrossPurge
<1>4. CASE Ask \/ AskRefused
  BY <1>2, <1>4, RememberedAcrossCalls
<1>5. CASE WorldStep
  <2>1. UNCHANGED <<pass, targets, lastGood>> /\ (UNCHANGED specTargets \/ pass.index = 0)
    BY <1>5, WorldShape
  <2>2. LastValueRemembered'
    BY <2>1 DEF LastValueRemembered
  <2>3. CASE UNCHANGED specTargets
    BY <2>1, <2>2, <2>3 DEF ManagedInTime, Done
  <2>4. CASE pass.index = 0
    <3>1. Done' = {}
      BY <2>1, <2>4 DEF Done
    <3>2. QED
      BY <1>1, <2>1, <2>2, <3>1
  <2>5. QED
    BY <2>1, <2>3, <2>4
<1>6. CASE UNCHANGED vars
  BY <1>6 DEF LastValueRemembered, ManagedInTime, Done, vars
<1>7. QED
  BY <1>2, <1>3, <1>4, <1>5, <1>6 DEF Next, PassStep, WorldStep

\* The value a failover relies on is there when an outage comes: whatever fails, is edited or
\* purged meanwhile, and however many targets share a scaler or a name, the last average
\* stored for a query of the spec is an entry of status.targets until the target has no
\* replicas.
THEOREM LastValuesKept == Spec => []LastValueRemembered
<1>1. Init => LastValueRemembered /\ ManagedInTime
  <2>1. ASSUME Init
        PROVE  /\ \A q \in Names : lastGood[q] = Unset
               /\ Done = {}
    BY <2>1, NoPassType DEF Init, Done
  <2>2. \A t \in ListedTargets : t.name \in Names
    BY DEF Names
  <2>3. QED
    BY <2>1, <2>2 DEF LastValueRemembered, ManagedInTime
<1>2. QED
  BY <1>1, TypeInit, TypeStep, RememberStep, PTL DEF Spec

-----------------------------------------------------------------------------
(* The schedules                                                           *)

\* At every hour, for every list of accepted schedules whose starts and ends take turns in
\* cycles of any length, and of which no two overlap at that hour, the comparison of next
\* firings gives the settings of the schedule that was entered and not left since, or the
\* default.
THEOREM SchedulesFollowed == Spec => []SettingsFollowSchedules
<1>1. ASSUME TypeInv PROVE SettingsFollowSchedules
  <2>1. hour \in Int /\ Week \in Nat \ {0}
    BY <1>1, BoundsAssumption DEF TypeInv, TypeOK
  <2> SUFFICES ASSUME NEW i \in DOMAIN specTargets
               PROVE  LET settings == specTargets[i].settings
                          list == settings.schedules
                          entered == {j \in DOMAIN list :
                                         Entered(list[j].start, list[j].end, Week, hour)}
                      IN  (/\ \A j \in DOMAIN list :
                                 ~Refused(list[j]) /\ Alternating(list[j].start, list[j].end, Week)
                           /\ \A j, k \in entered : j = k)
                          => GetScheduledSettingsRaw(hour, settings, Week) =
                                IF entered = {} THEN {settings.default}
                                ELSE {MergePatch(settings.default, list[j].settings) : j \in entered}
    BY Zenon DEF SettingsFollowSchedules
  <2> DEFINE settings == specTargets[i].settings
             list == settings.schedules
             in(j) == Entered(list[j].start, list[j].end, Week, hour)
             entered == {j \in DOMAIN list : in(j)}
             inForce == {j \in DOMAIN list : in(j) /\ \A k \in 1..(j - 1) : ~in(k)}
  <2>2. SUFFICES ASSUME \A j \in DOMAIN list :
                           ~Refused(list[j]) /\ Alternating(list[j].start, list[j].end, Week),
                        \A j, k \in entered : j = k
                 PROVE  GetScheduledSettingsRaw(hour, settings, Week) =
                           IF entered = {} THEN {settings.default}
                           ELSE {MergePatch(settings.default, list[j].settings) : j \in entered}
    OBVIOUS
  <2>3. IsScheduleList(list, Week)
    <3>1. specTargets[i] \in ListedTargets
      BY <1>1 DEF TypeInv, TypeOK, ListedTargets
    <3>2. QED
      BY <3>1, TargetsAssumption DEF IsTarget
  <2>4. GetScheduledSettingsRaw(hour, settings, Week) =
           IF inForce = {} THEN {settings.default}
           ELSE {MergePatch(settings.default, list[j].settings) : j \in inForce}
    BY <2>1, <2>2, <2>3, FirstEnteredWins
  \* The only one is the first.
  <2>5. inForce = entered
    <3>1. PICK n \in Nat : DOMAIN list = 1..n
      BY <2>3 DEF IsScheduleList
    <3> HIDE DEF in, list
    <3>2. ASSUME NEW j \in entered, NEW k \in 1..(j - 1) PROVE ~in(k)
      <4>1. k \in DOMAIN list /\ k # j
        BY <3>1
      <4>2. QED
        BY <2>2, <4>1
    <3>3. QED
      BY <3>2
  <2>6. QED
    BY <2>4, <2>5
<1>2. QED
  BY <1>1, TypeInit, TypeStep, PTL DEF Spec
=============================================================================
