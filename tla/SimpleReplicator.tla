-------------------------- MODULE SimpleReplicator --------------------------
(***************************************************************************)
(* plugins/replicator_simple: the history of each autoscaler is a slice of *)
(* slots.  A new recommendation takes the place of the last slot found to  *)
(* be older than the window, or is appended when every slot is recent.     *)
(***************************************************************************)
EXTENDS Recommendations, Sequences, Functions

CONSTANTS Keys,          \* getUniqueKeyForAutoscaler of the autoscalers
          Replicas,      \* replica counts scalers may output
          Window,        \* DownscaleStabilizationWindow in ticks
          MaxTime,       \* bound on the clock
          CallsPerTick   \* bound on the requests for one key in one tick

\* Config.Validate refuses a negative window.
ASSUME WindowAssumption == Window \in Nat
ASSUME TimeAssumption == MaxTime \in Nat
ASSUME ReplicasAssumption == Replicas \subseteq Nat /\ 0 \in Replicas
ASSUME CallsAssumption == CallsPerTick \in Nat

VARIABLES now,                        \* the clock
          historicalRecommendation,   \* per key, the slots; <<>> is the nil slice
          answer,                     \* per key, the last returned value
          calls                       \* per key, the requests of this tick

vars == <<now, historicalRecommendation, answer, calls>>

Times == 0..MaxTime

Slots == Seq(Recommendation(Times, Replicas))

TypeOK ==
    /\ now \in Times
    /\ historicalRecommendation \in [Keys -> Slots]
    /\ answer \in [Keys -> Replicas]
    /\ calls \in [Keys -> 0..CallsPerTick]

Init ==
    /\ now = 0
    /\ historicalRecommendation = [k \in Keys |-> <<>>]
    /\ answer = [k \in Keys |-> 0]
    /\ calls = [k \in Keys |-> 0]

\* The slice the request works on: a nil history starts with the replicas the
\* target is specified to have.
Seeded(slots, current) ==
    IF slots = <<>> THEN <<[timestamp |-> now, replicas |-> current]>> ELSE slots

\* Mutant: a sample as old as the cutoff counts as old.
OldSamplesAtCutoff(slots) == {i \in DOMAIN slots : slots[i].timestamp <= now - Window}

\* The samples a new recommendation may replace.
OldSamples(slots) == {i \in DOMAIN slots : IsOld(slots[i], now, Window)}

\* Mutant: no slot is reused.
StoredByAppending(slots, rec) == {Append(slots, rec)}

\* Mutant: the slot is stamped with the end of its window.
StoredWithExpiry(slots, rec) ==
    {Append(slots, [rec EXCEPT !.timestamp = @ + Window])}

\* What stabilizeRecommendation leaves behind: the newest recommendation takes
\* the place of the last old sample (oldSampleIndex), or is appended.
Stored(slots, rec) ==
    LET old == OldSamples(slots)
    IN  IF old = {} THEN {Append(slots, rec)}
        ELSE {[slots EXCEPT ![i] = rec] : i \in {i \in old : \A j \in old : j <= i}}

\* GetDesiredReplicas for key k, with the greatest scaler output `advice` and
\* the target's spec.replicas `current`.
GetDesiredReplicas(k, advice, current) ==
    LET slots == Seeded(historicalRecommendation[k], current)
        rec   == [timestamp |-> now, replicas |-> advice]
    IN  /\ calls[k] < CallsPerTick
        /\ \E m \in Replicas :
              /\ IsMaxRecommendation(m, advice, Range(slots), now, Window)
              /\ answer' = [answer EXCEPT ![k] = m]
        /\ \E next \in Stored(slots, rec) :
              historicalRecommendation' =
                  [historicalRecommendation EXCEPT ![k] = next]
        /\ calls' = [calls EXCEPT ![k] = @ + 1]
        /\ UNCHANGED now

Tick ==
    /\ now < MaxTime
    /\ now' = now + 1
    /\ calls' = [k \in Keys |-> 0]
    /\ UNCHANGED <<historicalRecommendation, answer>>

\* The process restarts: New builds an empty map.
Restart ==
    /\ historicalRecommendation' = [k \in Keys |-> <<>>]
    /\ UNCHANGED <<now, answer, calls>>

Next ==
    \/ \E k \in Keys, advice, current \in Replicas :
           GetDesiredReplicas(k, advice, current)
    \/ Tick
    \/ Restart

Spec == Init /\ [][Next]_vars

-----------------------------------------------------------------------------
\* The slots of a key that the window still covers are all that an answer
\* depends on: that is what the abstract specification remembers.
rememberedSlots ==
    [k \in Keys |-> Recent(Range(historicalRecommendation[k]), now, Window)]

seededKeys == {k \in Keys : historicalRecommendation[k] # <<>>}

Abstract == INSTANCE WindowMax WITH remembered <- rememberedSlots,
                                    seeded <- seededKeys

\* Reusing one old slot per request never forgets a recommendation that is
\* still in the window and never brings one back: the slot array implements
\* the maximum over the whole stabilization window.
ImplementsWindowMax == Abstract!Spec

\* Reusing old slots keeps the history of an autoscaler bounded: no more slots
\* than the requests of Window + 1 ticks and the seed, for as long as the
\* process runs.
HistoryBounded ==
    \A k \in Keys :
        Len(historicalRecommendation[k]) <= CallsPerTick * (Window + 1) + 1
=============================================================================
