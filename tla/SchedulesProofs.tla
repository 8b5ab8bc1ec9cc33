-------------------------- MODULE SchedulesProofs --------------------------
(***************************************************************************)
(* Comparing next firings, as CronScheduler.Contains does, tells whether   *)
(* a range has been entered and not left, for every cycle in which starts  *)
(* and ends take turns.                                                    *)
(***************************************************************************)
EXTENDS Schedules, TotalsProofs

-----------------------------------------------------------------------------
(* Places in a cycle                                                       *)

LEMMA ModuloType ==
    ASSUME NEW a \in Int, NEW period \in Nat \ {0}
    PROVE  /\ a % period \in 0..(period - 1) /\ a \div period \in Int
           /\ a = (a \div period) * period + (a % period)
OBVIOUS

LEMMA MultipleFar ==
    ASSUME NEW k \in Int, NEW period \in Nat \ {0}, k # 0
    PROVE  k * period >= period \/ k * period <= -period
<1>1. CASE k >= 1
  <2>1. k * period = period + (k - 1) * period /\ (k - 1) * period \in Nat
    BY <1>1
  <2>2. QED
    BY <2>1
<1>2. CASE k <= -1
  <2>1. k * period = -period - (-k - 1) * period /\ (-k - 1) * period \in Nat
    BY <1>2
  <2>2. QED
    BY <2>1
<1>3. QED
  BY <1>1, <1>2

\* What differs by whole cycles has the same place.
LEMMA ModuloUnique ==
    ASSUME NEW a \in Int, NEW period \in Nat \ {0}, NEW k \in Int, NEW place \in 0..(period - 1),
           a = k * period + place
    PROVE  a % period = place
<1> DEFINE q == a \div period
           m == a % period
<1>1. m \in 0..(period - 1) /\ q \in Int /\ a = q * period + m
  BY ModuloType
<1> HIDE DEF q, m
<1>2. (k - q) * period = m - place
  BY <1>1
<1>3. k = q
  <2>1. SUFFICES ASSUME k - q # 0 PROVE FALSE
    BY <1>1
  <2>2. (k - q) * period >= period \/ (k - q) * period <= -period
    BY <1>1, <2>1, MultipleFar
  <2>3. QED
    BY <1>1, <1>2, <2>2
<1>4. QED
  BY <1>1, <1>3 DEF m

\* How long ago a firing was.
Age(at, period, when) == (when - at) % period

LEMMA AgeType ==
    ASSUME NEW period \in Nat \ {0}, NEW when \in Int, NEW at \in Int
    PROVE  Age(at, period, when) \in 0..(period - 1) /\ Age(at, period, when) \in Nat
<1>1. when - at \in Int
  OBVIOUS
<1>2. Age(at, period, when) \in 0..(period - 1)
  BY <1>1, ModuloType DEF Age
<1>3. QED
  BY <1>2

\* What happened `ago` before has that age.
LEMMA AgeOf ==
    ASSUME NEW period \in Nat \ {0}, NEW when \in Int, NEW ago \in 0..(period - 1)
    PROVE  Age((when - ago) % period, period, when) = ago
<1> DEFINE q == (when - ago) \div period
           at == (when - ago) % period
<1>1. when - ago \in Int
  OBVIOUS
<1>2. q \in Int /\ at \in Int /\ when - ago = q * period + at
  BY <1>1, ModuloType
<1> HIDE DEF q, at
<1>3. when - at = q * period + ago /\ when - at \in Int
  BY <1>2
<1>4. (when - at) % period = ago
  BY <1>2, <1>3, ModuloUnique
<1>5. QED
  BY <1>4 DEF Age, at

LEMMA AgeBack ==
    ASSUME NEW period \in Nat \ {0}, NEW when \in Int, NEW at \in 0..(period - 1)
    PROVE  (when - Age(at, period, when)) % period = at
<1> DEFINE age == (when - at) % period
           q == (when - at) \div period
<1>1. when - at \in Int
  OBVIOUS
<1>2. q \in Int /\ age \in Int /\ when - at = q * period + age
  BY <1>1, ModuloType
<1> HIDE DEF q, age
<1>3. when - age = q * period + at /\ when - age \in Int
  BY <1>2
<1>4. (when - age) % period = at
  BY <1>2, <1>3, ModuloUnique
<1>5. QED
  BY <1>4 DEF Age, age

\* No two places have the same age.
LEMMA AgeInjective ==
    ASSUME NEW period \in Nat \ {0}, NEW when \in Int, NEW a \in 0..(period - 1),
           NEW b \in 0..(period - 1), Age(a, period, when) = Age(b, period, when)
    PROVE  a = b
BY AgeBack

-----------------------------------------------------------------------------
(* The two ways to look at a range                                         *)

IsFirings(spec, period) == spec \subseteq 0..(period - 1) /\ spec # {}

LEMMA FiringsFinite ==
    ASSUME NEW period \in Nat \ {0}, NEW when \in Int, NEW spec, IsFirings(spec, period)
    PROVE  LET ages == {Age(a, period, when) : a \in spec}
           IN  ages \in SUBSET Nat /\ ages # {} /\ IsFiniteSet(ages)
<1> DEFINE ages == {Age(a, period, when) : a \in spec}
<1>1. \A a \in spec : a \in Int
  BY DEF IsFirings
<1>2. \A a \in spec : Age(a, period, when) \in 0..(period - 1) /\ Age(a, period, when) \in Nat
  BY <1>1, AgeType
<1>3. ages \subseteq 0..(period - 1) /\ ages \in SUBSET Nat /\ ages # {}
  BY <1>2 DEF IsFirings
<1>4. IsFiniteSet(0..(period - 1))
  BY FS_Interval
<1> HIDE DEF ages
<1>5. IsFiniteSet(ages)
  BY <1>3, <1>4, FS_Subset
<1>6. QED
  BY <1>3, <1>5 DEF ages

\* The last firing is one with the least age, the next one is the one with the greatest.
LEMMA YoungestAndOldest ==
    ASSUME NEW period \in Nat \ {0}, NEW when \in Int, NEW spec, IsFirings(spec, period)
    PROVE  /\ \E a \in spec : \A b \in spec : Age(a, period, when) <= Age(b, period, when)
           /\ \E a \in spec : \A b \in spec : Age(b, period, when) <= Age(a, period, when)
<1> DEFINE ages == {Age(a, period, when) : a \in spec}
<1>1. ages \in SUBSET Nat /\ ages # {} /\ IsFiniteSet(ages)
  BY FiringsFinite
<1>2. PICK least \in ages : \A n \in ages : least <= n
  BY <1>1, LeastExists
<1>3. PICK greatest \in ages : \A n \in ages : n <= greatest
  BY <1>1, GreatestExists
<1>4. QED
  BY <1>2, <1>3

\* Contains holds when the oldest firing is an end.
LEMMA ContainsByAge ==
    ASSUME NEW period \in Nat \ {0}, NEW when \in Int, NEW start, IsFirings(start, period),
           NEW end, IsFirings(end, period)
    PROVE  CronContains(start, end, period, when) <=>
             \E e \in end : \A s \in start : Age(s, period, when) < Age(e, period, when)
<1> DEFINE age(a) == Age(a, period, when)
           oldest(spec) == {a \in spec : \A b \in spec : age(b) <= age(a)}
<1>1. \A a \in start \cup end : age(a) \in Nat /\ age(a) \in 0..(period - 1)
  <2>1. \A a \in start \cup end : a \in Int
    BY DEF IsFirings
  <2>2. QED
    BY <2>1, AgeType
<1>2. ASSUME NEW spec, spec = start \/ spec = end
      PROVE  NextFiring(spec, period, when) = {when + (period - age(a)) : a \in oldest(spec)}
  <2>1. \A a \in spec : age(a) \in Nat
    BY <1>1, <1>2
  <2>2. NextFiring(spec, period, when)
          = {when + (period - age(at)) :
                at \in {a \in spec : \A b \in spec : period - age(a) <= period - age(b)}}
    BY DEF NextFiring, Age
  <2> HIDE DEF age
  <2>3. {a \in spec : \A b \in spec : period - age(a) <= period - age(b)} = oldest(spec)
    BY <2>1
  <2>4. QED
    BY <2>2, <2>3
<1>3. CronContains(start, end, period, when) <=>
        \E s \in oldest(start), e \in oldest(end) :
            when + (period - age(e)) < when + (period - age(s))
  <2>1. /\ NextFiring(start, period, when) = {when + (period - age(a)) : a \in oldest(start)}
        /\ NextFiring(end, period, when) = {when + (period - age(a)) : a \in oldest(end)}
    BY <1>2
  <2> HIDE DEF age, oldest
  <2>2. CronContains(start, end, period, when) <=>
          \E x \in {when + (period - age(a)) : a \in oldest(start)},
             y \in {when + (period - age(a)) : a \in oldest(end)} : y < x
    BY <2>1 DEF CronContains
  <2>3. QED
    BY <2>2
<1>4. (\E s \in oldest(start) : TRUE) /\ (\E e \in oldest(end) : TRUE)
  BY YoungestAndOldest
<1> HIDE DEF age
<1>5. ASSUME NEW s \in start, NEW e \in end
      PROVE  when + (period - age(e)) < when + (period - age(s)) <=> age(s) < age(e)
  BY <1>1
<1>6. ASSUME CronContains(start, end, period, when)
      PROVE  \E e \in end : \A s \in start : age(s) < age(e)
  <2>1. PICK s \in oldest(start), e \in oldest(end) : age(s) < age(e)
    BY <1>3, <1>5, <1>6
  <2>2. \A t \in start : age(t) < age(e)
    BY <1>1, <2>1
  <2>3. QED
    BY <2>2
<1>7. ASSUME NEW e \in end, \A s \in start : age(s) < age(e)
      PROVE  CronContains(start, end, period, when)
  <2>1. PICK s \in oldest(start), f \in oldest(end) : TRUE
    BY <1>4
  <2>2. age(s) < age(f)
    BY <1>1, <1>7, <2>1
  <2>3. QED
    BY <1>3, <1>5, <2>1, <2>2
<1>8. QED
  BY <1>6, <1>7 DEF age

\* A range was entered when the youngest firing is a start.
LEMMA EnteredByAge ==
    ASSUME NEW period \in Nat \ {0}, NEW when \in Int, NEW start, IsFirings(start, period),
           NEW end, IsFirings(end, period)
    PROVE  Entered(start, end, period, when) <=>
             \E s \in start : \A e \in end : Age(s, period, when) <= Age(e, period, when)
<1> DEFINE age(a) == Age(a, period, when)
<1>1. \A a \in start \cup end : a \in 0..(period - 1) /\ age(a) \in 0..(period - 1)
  <2>1. \A a \in start \cup end : a \in Int /\ a \in 0..(period - 1)
    BY DEF IsFirings
  <2>2. QED
    BY <2>1, AgeType
<1>2. \A a \in start \cup end : (when - age(a)) % period = a
  BY <1>1, AgeBack
<1>3. \A ago \in 0..(period - 1) : age((when - ago) % period) = ago
  BY AgeOf
<1>4. ASSUME NEW ago \in 0..(period - 1), (when - ago) % period \in start,
             \A d \in 0..(ago - 1) : (when - d) % period \notin end
      PROVE  \E s \in start : \A e \in end : age(s) <= age(e)
  <2>1. age((when - ago) % period) = ago
    BY <1>3
  <2> HIDE DEF age
  <2>2. ASSUME NEW e \in end PROVE ago <= age(e)
    <3>1. age(e) \in 0..(period - 1) /\ (when - age(e)) % period \in end
      BY <1>1, <1>2
    <3>2. age(e) \notin 0..(ago - 1)
      BY <1>4, <3>1
    <3>3. QED
      BY <3>1, <3>2
  <2>3. QED
    BY <1>4, <2>1, <2>2
<1>5. ASSUME NEW s \in start, \A e \in end : age(s) <= age(e)
      PROVE  Entered(start, end, period, when)
  <2>1. age(s) \in 0..(period - 1) /\ (when - age(s)) % period \in start
    BY <1>1, <1>2
  <2>2. ASSUME NEW d \in 0..(age(s) - 1), (when - d) % period \in end PROVE FALSE
    <3>1. d \in 0..(period - 1) /\ d < age(s)
      BY <2>1
    <3>2. age((when - d) % period) = d
      BY <1>3, <3>1
    <3> HIDE DEF age
    <3>3. QED
      BY <1>5, <2>1, <2>2, <3>1, <3>2
  <2> HIDE DEF age
  <2>3. QED
    BY <2>1, <2>2 DEF Entered
<1>6. QED
  BY <1>4, <1>5 DEF Entered

\* From the youngest firing on, across the present, to the oldest nothing fires.
LEMMA QuietAcrossPresent ==
    ASSUME NEW period \in Nat \ {0}, NEW when \in Int, NEW young \in 0..(period - 1),
           NEW old \in 0..(period - 1),
           NEW d \in 1..((old - young - 1) % period), NEW at, at = (young + d) % period,
           Age(young, period, when) <= Age(old, period, when)
    PROVE  \/ Age(at, period, when) < Age(young, period, when)
           \/ Age(at, period, when) > Age(old, period, when)
<1> DEFINE y == Age(young, period, when)
           o == Age(old, period, when)
<1>1. y \in 0..(period - 1) /\ o \in 0..(period - 1)
  <2>1. young \in Int /\ old \in Int
    OBVIOUS
  <2>2. QED
    BY <2>1, AgeType
<1>2. PICK k \in Int : when - young = k * period + y
  <2>1. when - young \in Int
    OBVIOUS
  <2>2. QED
    BY <2>1, ModuloType DEF Age
<1>3. PICK l \in Int : when - old = l * period + o
  <2>1. when - old \in Int
    OBVIOUS
  <2>2. QED
    BY <2>1, ModuloType DEF Age
<1> HIDE DEF y, o
<1>4. (old - young - 1) % period = period + y - o - 1
  <2>1. period + y - o - 1 \in 0..(period - 1)
    BY <1>1 DEF y, o
  <2>2. old - young - 1 = (k - l - 1) * period + (period + y - o - 1)
    BY <1>1, <1>2, <1>3
  <2>3. old - young - 1 \in Int /\ k - l - 1 \in Int
    OBVIOUS
  <2>4. QED
    BY <2>1, <2>2, <2>3, ModuloUnique
<1>5. d \in 1..(period + y - o - 1)
  BY <1>4
<1>6. PICK q \in Int : young + d = q * period + at
  <2>1. young + d \in Int
    BY <1>1, <1>5
  <2>2. QED
    BY <2>1, ModuloType
<1>7. at \in Int
  <2>1. young + d \in Int
    BY <1>1, <1>5
  <2>2. QED
    BY <2>1, ModuloType
<1>8. when - at = (k + q) * period + (y - d)
  BY <1>1, <1>2, <1>5, <1>6, <1>7
<1>9. CASE d <= y
  <2>1. y - d \in 0..(period - 1) /\ when - at \in Int /\ k + q \in Int
    BY <1>1, <1>5, <1>7, <1>9
  <2>2. Age(at, period, when) = y - d
    BY <1>8, <2>1, ModuloUnique DEF Age
  <2>3. QED
    BY <1>1, <1>5, <2>2 DEF y
<1>10. CASE d > y
  <2>1. period + y - d \in 0..(period - 1) /\ when - at \in Int /\ k + q - 1 \in Int
    BY <1>1, <1>5, <1>7, <1>10
  <2>2. when - at = (k + q - 1) * period + (period + y - d)
    BY <1>1, <1>5, <1>8
  <2>3. Age(at, period, when) = period + y - d
    BY <2>1, <2>2, ModuloUnique DEF Age
  <2>4. QED
    BY <1>1, <1>5, <2>3 DEF o
<1>11. QED
  BY <1>1, <1>5, <1>9, <1>10

\* Between two firings of one kind there is one of the other.
Apart(xs, ys, period) ==
    \A a, b \in xs :
        LET between == {(a + d) % period : d \in 1..((b - a - 1) % period)}
        IN  between \cap xs = {} => between \cap ys # {}

\* No firing is younger than the one or older than the other.
Span(young, old, firings, period, when) ==
    \A a \in firings : /\ Age(young, period, when) <= Age(a, period, when)
                       /\ Age(a, period, when) <= Age(old, period, when)

\* Where firings of two kinds take turns, the youngest and the oldest are of different kinds.
LEMMA EndsDiffer ==
    ASSUME NEW period \in Nat \ {0}, NEW when \in Int, NEW start, IsFirings(start, period),
           NEW end, IsFirings(end, period), Apart(start, end, period),
           NEW young \in start, NEW old \in start, Span(young, old, start, period, when),
           Span(young, old, end, period, when)
    PROVE  FALSE
<1> DEFINE between == {(young + d) % period : d \in 1..((old - young - 1) % period)}
<1>1. young \in 0..(period - 1) /\ old \in 0..(period - 1)
      /\ \A a \in start \cup end : a \in Int
  BY DEF IsFirings
<1>2. Age(young, period, when) \in Nat /\ Age(old, period, when) \in Nat
      /\ \A a \in start \cup end : Age(a, period, when) \in Nat
  BY <1>1, AgeType
<1>3. ASSUME NEW at \in between, at \in start \cup end PROVE FALSE
  <2>1. PICK d \in 1..((old - young - 1) % period) : at = (young + d) % period
    BY <1>3
  <2>2. \/ Age(at, period, when) < Age(young, period, when)
        \/ Age(at, period, when) > Age(old, period, when)
    <3>1. Age(young, period, when) <= Age(old, period, when)
      BY DEF Span
    <3>2. QED
      BY <1>1, <2>1, <3>1, QuietAcrossPresent
  <2>3. QED
    BY <1>2, <1>3, <2>2 DEF Span
<1>4. between \cap start = {} => between \cap end # {}
  BY DEF Apart
<1>5. QED
  BY <1>3, <1>4

\* CronScheduler.Contains says what a range means.
LEMMA ContainsMeansEntered ==
    ASSUME NEW period \in Nat \ {0}, NEW when \in Int, NEW start \in SUBSET (0..(period - 1)),
           NEW end \in SUBSET (0..(period - 1)), Alternating(start, end, period)
    PROVE  CronContains(start, end, period, when) <=> Entered(start, end, period, when)
<1> DEFINE age(a) == Age(a, period, when)
<1>1. IsFirings(start, period) /\ IsFirings(end, period) /\ start \cap end = {}
  BY DEF IsFirings, Alternating
<1>2. Apart(start, end, period) /\ Apart(end, start, period)
  BY Zenon DEF Alternating, Apart
<1>3. \A a \in start \cup end : age(a) \in Nat
  <2>1. \A a \in start \cup end : a \in Int
    OBVIOUS
  <2>2. QED
    BY <2>1, AgeType
<1>4. \A s \in start, e \in end : age(s) # age(e)
  BY <1>1, AgeInjective
<1>5. PICK youngStart \in start : \A a \in start : age(youngStart) <= age(a)
  BY <1>1, YoungestAndOldest
<1>6. PICK oldStart \in start : \A a \in start : age(a) <= age(oldStart)
  BY <1>1, YoungestAndOldest
<1>7. PICK youngEnd \in end : \A a \in end : age(youngEnd) <= age(a)
  BY <1>1, YoungestAndOldest
<1>8. PICK oldEnd \in end : \A a \in end : age(a) <= age(oldEnd)
  BY <1>1, YoungestAndOldest
<1>9. CronContains(start, end, period, when) <=> age(oldStart) < age(oldEnd)
  <2>1. CronContains(start, end, period, when) <=> \E e \in end : \A s \in start : age(s) < age(e)
    BY <1>1, ContainsByAge
  <2> HIDE DEF age
  <2>2. QED
    BY <1>3, <1>6, <1>8, <2>1
<1>10. Entered(start, end, period, when) <=> age(youngStart) < age(youngEnd)
  <2>1. Entered(start, end, period, when) <=> \E s \in start : \A e \in end : age(s) <= age(e)
    BY <1>1, EnteredByAge
  <2> HIDE DEF age
  <2>2. QED
    BY <1>3, <1>4, <1>5, <1>7, <2>1
<1>11. ASSUME age(oldStart) < age(oldEnd), ~(age(youngStart) < age(youngEnd)) PROVE FALSE
  <2>1. \A a \in end \cup start : age(youngEnd) <= age(a) /\ age(a) <= age(oldEnd)
    <3> HIDE DEF age
    <3>1. QED
      BY <1>3, <1>5, <1>6, <1>7, <1>8, <1>11
  <2>2. /\ Span(youngEnd, oldEnd, start, period, when)
        /\ Span(youngEnd, oldEnd, end, period, when)
    BY <2>1 DEF Span
  <2>3. QED
    BY <1>1, <1>2, <2>2, EndsDiffer
<1>12. ASSUME ~(age(oldStart) < age(oldEnd)), age(youngStart) < age(youngEnd) PROVE FALSE
  <2>1. \A a \in start \cup end : age(youngStart) <= age(a) /\ age(a) <= age(oldStart)
    <3> HIDE DEF age
    <3>1. QED
      BY <1>3, <1>5, <1>6, <1>7, <1>8, <1>12
  <2>2. /\ Span(youngStart, oldStart, start, period, when)
        /\ Span(youngStart, oldStart, end, period, when)
    BY <2>1 DEF Span
  <2>3. QED
    BY <1>1, <1>2, <2>2, EndsDiffer
<1> HIDE DEF age
<1>13. QED
  BY <1>9, <1>10, <1>11, <1>12

-----------------------------------------------------------------------------
(* The settings of the moment                                              *)

\* GetScheduledSettingsRaw takes the first schedule that was entered and not left.
LEMMA FirstEnteredWins ==
    ASSUME NEW period \in Nat \ {0}, NEW when \in Int, NEW settings,
           IsScheduleList(settings.schedules, period),
           \A j \in DOMAIN settings.schedules :
              LET s == settings.schedules[j]
              IN  ~Refused(s) /\ Alternating(s.start, s.end, period)
    PROVE  LET list == settings.schedules
               in(j) == Entered(list[j].start, list[j].end, period, when)
               inForce == {j \in DOMAIN list : in(j) /\ \A k \in 1..(j - 1) : ~in(k)}
           IN  GetScheduledSettingsRaw(when, settings, period) =
                  IF inForce = {} THEN {settings.default}
                  ELSE {MergePatch(settings.default, list[j].settings) : j \in inForce}
<1> DEFINE list == settings.schedules
           in(j) == Entered(list[j].start, list[j].end, period, when)
           inForce == {j \in DOMAIN list : in(j) /\ \A k \in 1..(j - 1) : ~in(k)}
           ends == {i \in DOMAIN list : \/ Refused(list[i])
                                        \/ CronContains(list[i].start, list[i].end, period, when)}
           first == {i \in ends : \A j \in ends : i <= j}
<1>1. PICK n \in Nat : DOMAIN list = 1..n
  BY DEF IsScheduleList
<1>2. ASSUME NEW j \in DOMAIN list
      PROVE  ~Refused(list[j]) /\ (CronContains(list[j].start, list[j].end, period, when) <=> in(j))
  <2>1. ~Refused(list[j]) /\ Alternating(list[j].start, list[j].end, period)
    OBVIOUS
  <2>2. /\ list[j].start \in SUBSET (0..(period - 1))
        /\ list[j].end \in SUBSET (0..(period - 1))
    BY DEF IsScheduleList, IsSchedule
  <2>3. QED
    BY <2>1, <2>2, ContainsMeansEntered
<1>3. GetScheduledSettingsRaw(when, settings, period) =
        IF ends = {} THEN {settings.default}
        ELSE {MergePatch(settings.default, list[i].settings) : i \in {j \in first : ~Refused(list[j])}}
  BY Zenon DEF GetScheduledSettingsRaw
<1> HIDE DEF list, in
<1>4. ends = {j \in DOMAIN list : in(j)}
  BY <1>2
<1>5. first = inForce
  <2>1. \A j \in DOMAIN list : j \in Nat /\ \A k \in 1..(j - 1) : k \in DOMAIN list /\ k \in Nat
    BY <1>1
  <2>2. \A j, k \in DOMAIN list : k < j => k \in 1..(j - 1)
    BY <1>1
  <2>3. ASSUME NEW j \in first PROVE j \in inForce
    BY <1>4, <2>1, <2>3
  <2>4. ASSUME NEW j \in inForce PROVE j \in first
    <3>1. j \in ends /\ j \in DOMAIN list
      BY <1>4
    <3>2. ASSUME NEW k \in ends PROVE j <= k
      BY <1>4, <2>1, <2>2, <3>1
    <3>3. QED
      BY <3>1, <3>2
  <2>5. QED
    BY <2>3, <2>4
<1>6. ends # {} => first # {}
  <2>1. ends \in SUBSET Nat
    BY <1>1
  <2>2. QED
    BY <2>1, LeastExists
<1>7. {j \in first : ~Refused(list[j])} = first
  BY <1>2
<1>8. ends = {} => first = {}
  OBVIOUS
<1> HIDE DEF inForce, ends, first
<1>9. QED
  BY <1>3, <1>5, <1>6, <1>7, <1>8 DEF inForce, in, list
=============================================================================
