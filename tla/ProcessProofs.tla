--------------------------- MODULE ProcessProofs ---------------------------
(***************************************************************************)
(* One process serves only when all its plugins are set up, hands a key to *)
(* one worker at a time, and stabilizes as long as the accesses of the     *)
(* workers to the histories do not overlap: for every number of workers,   *)
(* autoscalers, plugins, restarts and edits of the configuration.          *)
(***************************************************************************)
EXTENDS Process, TLAPS

Recs == Recommendation(0..MaxTime, Replicas)

\* A worker that has a key took it from the queue, and the pass still counts.
KeyInHand ==
    \A w \in Workers : workers[w] # Idle =>
        /\ workers[w].key \notin queue
        /\ passes[workers[w].key] < MaxPasses

\* No two workers have the same key.
KeysDiffer ==
    \A v, w \in Workers : v # w /\ workers[v] # Idle /\ workers[w] # Idle
        => workers[v].key # workers[w].key

\* Workers are started last and end with the process.
OnlyServingWorks == phase # "serving" => \A w \in Workers : workers[w] = Idle

\* What TypeOK leaves out: the histories are sequences for all keys, and what was advised.
TypeInv ==
    /\ file \in Files /\ phase \in Phases /\ IsConfig(config)
    /\ loaded \in 0..Len(Plugins) /\ queue \subseteq Keys
    /\ workers \in [Workers -> WorkerStates]
    /\ historicalRecommendation \in [Keys -> Seq(Recs)]
    /\ advised \in [Keys -> SUBSET Recs]
    /\ now \in 0..MaxTime /\ passes \in [Keys -> 0..MaxPasses]
    /\ edits \in 0..MaxEdits /\ deaths \in 0..MaxDeaths /\ raced \in BOOLEAN
    /\ KeyInHand /\ KeysDiffer /\ OnlyServingWorks

PluginReady(i) ==
    /\ Plugins[i] \in Registered
    /\ Plugins[i] \in DOMAIN config /\ config[Plugins[i]] = "valid"

\* The plugins are set up in order, from the one configuration the process has read.
LoadInv ==
    /\ \A i \in 1..loaded : PluginReady(i)
    /\ phase \in {"down", "starting", "connecting", "syncing"} => loaded = 0
    /\ phase = "serving" => loaded = Len(Plugins)

\* All that was advised in the window is in a slot.
Kept(k) ==
    \A rec \in Recent(advised[k], now, Window) :
        \E i \in DOMAIN historicalRecommendation[k] : historicalRecommendation[k][i] = rec

\* What a worker found out about the history of its key still holds.
UpToDate(w) ==
    LET worker == workers[w]
        slots  == historicalRecommendation[worker.key]
    IN  /\ worker.at = "seeding" => slots = <<>>
        /\ worker.at \in {"appending", "storing"} =>
              \A rec \in Recent(advised[worker.key], now, Window) : rec.replicas <= worker.answer
        /\ worker.at = "storing" =>
              worker.old \in DOMAIN slots /\ IsOld(slots[worker.old], now, Window)

HistoryInv == raced \/ ((\A k \in Keys : Kept(k)) /\ (\A w \in Workers : UpToDate(w)))

-----------------------------------------------------------------------------
(* Workers and the map                                                     *)

\* A worker is idle, or has a key and the scalers' advice for it.
LEMMA WorkerType ==
    ASSUME TypeInv, NEW w \in Workers
    PROVE  /\ workers[w] \in WorkerStates
           /\ workers[w].at = "idle" <=> workers[w] = Idle
           /\ workers[w] # Idle => workers[w].key \in Keys /\ workers[w].advice \in Replicas
           /\ workers[w].at \in {"appending", "storing"} =>
                 workers[w].answer \in Replicas /\ workers[w].old \in Nat
<1>1. workers[w] \in WorkerStates
  BY DEF TypeInv
<1>2. CASE workers[w] = Idle
  BY <1>1, <1>2 DEF Idle
<1>3. CASE workers[w] \in [at : {"checking", "seeding", "scanning"}, key : Keys, advice : Replicas]
  BY <1>1, <1>3 DEF Idle
<1>4. CASE workers[w] \in [at : {"appending", "storing"}, key : Keys, advice : Replicas,
                          answer : Replicas, old : Nat]
  BY <1>1, <1>4 DEF Idle
<1>5. QED
  BY <1>1, <1>2, <1>3, <1>4 DEF WorkerStates

\* While accesses do not overlap, the map becomes what the worker makes of it; otherwise it
\* is a map of histories still.
LEMMA AccessType ==
    ASSUME TypeInv, NEW w \in Workers, NEW m \in [Keys -> Seq(Recs)], Access(w, m)
    PROVE  /\ historicalRecommendation' \in [Keys -> Seq(Recs)]
           /\ raced' \in BOOLEAN
           /\ ~raced' => ~raced /\ historicalRecommendation' = m
<1>1. <<>> \in Seq(Recs)
  OBVIOUS
<1>2. historicalRecommendation' \in [Keys -> Seq(Recs)]
  BY <1>1 DEF Access
<1>3. raced' \in BOOLEAN /\ (~raced' => ~raced /\ ~Overlap(w))
  BY DEF Access, TypeInv
<1>4. QED
  BY <1>2, <1>3 DEF Access

\* A recommendation of now, as it is stored.
LEMMA NewRec ==
    ASSUME TypeInv, NEW r \in Replicas
    PROVE  [timestamp |-> now, replicas |-> r] \in Recs
BY DEF TypeInv, Recs, Recommendation

\* Worker w goes on with its key.
LEMMA KeepsKey ==
    ASSUME TypeInv, NEW w \in Workers, NEW worker \in WorkerStates,
           workers[w] # Idle, worker # Idle, worker.key = workers[w].key,
           Moves(w, worker), queue' = queue, passes' = passes
    PROVE  /\ workers' \in [Workers -> WorkerStates]
           /\ KeyInHand' /\ KeysDiffer'
<1>1. workers' \in [Workers -> WorkerStates] /\ workers' = [workers EXCEPT ![w] = worker]
  BY DEF Moves, TypeInv
<1>2. \A v \in Workers : /\ workers'[v] = Idle <=> workers[v] = Idle
                         /\ workers[v] # Idle => workers'[v].key = workers[v].key
  BY <1>1 DEF TypeInv
<1>3. KeyInHand'
  BY <1>2 DEF KeyInHand, TypeInv
<1>4. KeysDiffer'
  BY <1>2 DEF KeysDiffer, TypeInv
<1>5. QED
  BY <1>1, <1>3, <1>4

\* Worker w puts its key back.
LEMMA FinishType ==
    ASSUME TypeInv, NEW w \in Workers, workers[w] # Idle, now' = now, Finish(w)
    PROVE  /\ workers' \in [Workers -> WorkerStates]
           /\ queue' \subseteq Keys /\ passes' \in [Keys -> 0..MaxPasses]
           /\ advised' \in [Keys -> SUBSET Recs]
           /\ KeyInHand' /\ KeysDiffer'
<1> DEFINE k == workers[w].key
<1>1. k \in Keys /\ workers[w].advice \in Replicas
  BY WorkerType
<1>2. /\ workers' = [workers EXCEPT ![w] = Idle] /\ queue' = queue \cup {k}
      /\ passes' = [passes EXCEPT ![k] = @ + 1]
      /\ advised' = [advised EXCEPT ![k] = @ \cup {[timestamp |-> now, replicas |-> workers[w].advice]}]
  BY DEF Finish, Moves, Advise
<1>3. workers' \in [Workers -> WorkerStates]
  BY <1>2 DEF TypeInv, WorkerStates
<1>4. passes[k] < MaxPasses /\ passes[k] \in 0..MaxPasses
  BY <1>1 DEF TypeInv, KeyInHand
<1>5. passes' \in [Keys -> 0..MaxPasses]
  BY <1>1, <1>2, <1>4, ProcessAssumption DEF TypeInv
<1>6. advised' \in [Keys -> SUBSET Recs]
  BY <1>1, <1>2, NewRec DEF TypeInv
<1>7. \A v \in Workers : workers'[v] # Idle =>
        v # w /\ workers[v] # Idle /\ workers'[v] = workers[v] /\ workers[v].key # k
  BY <1>2 DEF TypeInv, KeysDiffer
<1>8. \A v \in Workers : workers'[v] # Idle => workers[v].key \in Keys
  BY <1>7, WorkerType
<1>9. KeyInHand'
  BY <1>1, <1>2, <1>7, <1>8 DEF KeyInHand, TypeInv
<1>10. KeysDiffer'
  BY <1>7 DEF KeysDiffer, TypeInv
<1>11. QED
  BY <1>1, <1>2, <1>3, <1>5, <1>6, <1>9, <1>10 DEF TypeInv

-----------------------------------------------------------------------------
(* Types                                                                   *)

\* The end of the process empties its memory.
LEMMA EndsType ==
    ASSUME TypeInv, Ends, file' \in Files, now' = now, passes' = passes, edits' = edits,
           deaths' \in 0..MaxDeaths
    PROVE  TypeInv'
<1>1. workers' \in [Workers -> WorkerStates] /\ \A w \in Workers : workers'[w] = Idle
  BY DEF Ends, WorkerStates
<1>2. KeyInHand' /\ KeysDiffer' /\ OnlyServingWorks'
  BY <1>1 DEF KeyInHand, KeysDiffer, OnlyServingWorks
<1>3. IsConfig(config')
  BY DEF Ends, NoConfig, IsConfig
<1>4. historicalRecommendation' \in [Keys -> Seq(Recs)] /\ advised' \in [Keys -> SUBSET Recs]
  BY DEF Ends
<1>5. loaded' \in 0..Len(Plugins)
  BY ProcessAssumption DEF Ends
<1>6. queue' \subseteq Keys /\ phase' \in Phases /\ raced' \in BOOLEAN
  BY DEF Ends, Phases
<1>7. QED
  BY <1>1, <1>2, <1>3, <1>4, <1>5, <1>6 DEF TypeInv

\* Exit and Dies end the process.
LEMMA ExitType == TypeInv /\ (Exit \/ Dies) => TypeInv'
<1>1. TypeInv /\ Exit => TypeInv'
  BY EndsType DEF Exit, TypeInv
<1>2. TypeInv /\ Dies => TypeInv'
  <2> SUFFICES ASSUME TypeInv, Dies PROVE TypeInv'
    OBVIOUS
  <2>1. deaths' \in 0..MaxDeaths
    BY ProcessAssumption DEF Dies, TypeInv
  <2>2. QED
    BY <2>1, EndsType DEF Dies, TypeInv
<1>3. QED
  BY <1>1, <1>2

\* The start of the process, until it serves.
LEMMA StartType == TypeInv /\ StartStep => TypeInv'
<1> SUFFICES ASSUME TypeInv, StartStep PROVE TypeInv'
  OBVIOUS
<1> USE DEF KeyInHand, KeysDiffer, OnlyServingWorks
<1>1. CASE Start
  BY <1>1 DEF Start, memory, TypeInv, Phases
<1>2. CASE LoadConfig
  <2>1. CASE Exit
    BY <2>1, ExitType
  <2>2. CASE ~Exit
    <3>1. IsConfig(config')
      BY <1>2, <2>2, FilesAssumption DEF LoadConfig, TypeInv, IsFile
    <3>2. QED
      BY <1>2, <2>2, <3>1 DEF LoadConfig, TypeInv, Phases
  <2>3. QED
    BY <2>1, <2>2
<1>3. CASE NewManager
  BY <1>3 DEF NewManager, memory, TypeInv, Phases
<1>4. CASE SyncCaches
  BY <1>4 DEF SyncCaches, memory, TypeInv, Phases
<1>5. CASE LoadPlugin
  <2>1. CASE Exit
    BY <2>1, ExitType
  <2>2. CASE ~Exit
    <3>1. loaded' \in 0..Len(Plugins)
      BY <1>5, <2>2, ProcessAssumption DEF LoadPlugin, TypeInv
    <3>2. QED
      BY <1>5, <2>2, <3>1 DEF LoadPlugin, TypeInv
  <2>3. QED
    BY <2>1, <2>2
<1>6. CASE Serve
  <2>1. \A w \in Workers : workers[w] = Idle
    BY <1>6 DEF Serve, TypeInv
  <2>2. QED
    BY <1>6, <2>1 DEF Serve, Listed, TypeInv, Phases
<1>7. QED
  BY <1>1, <1>2, <1>3, <1>4, <1>5, <1>6 DEF StartStep

\* The steps of a worker.
LEMMA WorkType ==
    ASSUME TypeInv, NEW w \in Workers,
           Take(w) \/ Check(w) \/ Seed(w) \/ Scan(w) \/ Store(w) \/ AppendSlot(w)
    PROVE  TypeInv'
<1> DEFINE worker == workers[w]
           k      == worker.key
           slots  == historicalRecommendation[k]
           rec    == [timestamp |-> now, replicas |-> worker.advice]
<1>0. historicalRecommendation \in [Keys -> Seq(Recs)]
  BY DEF TypeInv
<1>1. CASE Take(w)
  <2>1. PICK key \in queue, advice \in Replicas :
          /\ passes[key] < MaxPasses
          /\ queue' = queue \ {key}
          /\ Moves(w, [at |-> "checking", key |-> key, advice |-> advice])
    BY <1>1 DEF Take, Dequeued
  <2> DEFINE taken == [at |-> "checking", key |-> key, advice |-> advice]
  <2>2. taken \in WorkerStates /\ taken # Idle /\ taken.key = key /\ key \in Keys
    BY DEF WorkerStates, Idle, TypeInv
  <2>3. workers' = [workers EXCEPT ![w] = taken]
    BY <2>1 DEF Moves
  <2> HIDE DEF taken
  <2>4. workers' \in [Workers -> WorkerStates]
    BY <2>2, <2>3 DEF TypeInv
  <2>5. \A v \in Workers : v # w /\ workers'[v] # Idle =>
          workers'[v] = workers[v] /\ workers[v] # Idle /\ workers[v].key # key
    BY <2>3 DEF TypeInv, KeyInHand
  <2>6. workers'[w].key = key
    BY <2>2, <2>3 DEF TypeInv
  <2>7. passes' = passes
    BY <1>1 DEF Take
  <2>8. KeyInHand'
    BY <2>1, <2>5, <2>6, <2>7 DEF KeyInHand, TypeInv
  <2>9. KeysDiffer'
    BY <2>5, <2>6 DEF KeysDiffer, TypeInv
  <2>10. QED
    BY <1>1, <2>1, <2>4, <2>8, <2>9 DEF Take, WorkerStep, TypeInv, OnlyServingWorks
<1>2. CASE Check(w)
  <2>1. worker.at = "checking" /\ worker # Idle
    BY <1>2 DEF Check, Idle
  <2>2. PICK at \in {"scanning", "seeding"} : Moves(w, [worker EXCEPT !.at = at])
    BY <1>2 DEF Check
  <2>3. /\ [worker EXCEPT !.at = at] \in WorkerStates
        /\ [worker EXCEPT !.at = at] # Idle
        /\ [worker EXCEPT !.at = at].key = worker.key
    BY <2>1, WorkerType DEF WorkerStates, Idle
  <2>4. workers' \in [Workers -> WorkerStates] /\ KeyInHand' /\ KeysDiffer'
    BY <1>2, <2>1, <2>2, <2>3, KeepsKey DEF Check
  <2>5. historicalRecommendation' \in [Keys -> Seq(Recs)] /\ raced' \in BOOLEAN
    BY <1>0, <1>2, AccessType DEF Check
  <2>6. QED
    BY <1>2, <2>4, <2>5 DEF Check, WorkerStep, TypeInv, OnlyServingWorks
<1>3. CASE Seed(w)
  <2>1. worker.at = "seeding" /\ worker # Idle /\ k \in Keys
    BY <1>3, WorkerType DEF Seed, Idle
  <2>2. PICK current \in Replicas :
          Access(w, Seeded(k, current)) /\ Advise(k, current)
    BY <1>3 DEF Seed
  <2>3. [timestamp |-> now, replicas |-> current] \in Recs
    BY NewRec
  <2>4. Seeded(k, current) \in [Keys -> Seq(Recs)]
    BY <1>0, <2>1, <2>3 DEF Seeded
  <2>5. historicalRecommendation' \in [Keys -> Seq(Recs)] /\ raced' \in BOOLEAN
    BY <2>2, <2>4, AccessType
  <2>6. advised' \in [Keys -> SUBSET Recs]
    BY <2>1, <2>2, <2>3 DEF Advise, TypeInv
  <2>7. /\ [worker EXCEPT !.at = "scanning"] \in WorkerStates
        /\ [worker EXCEPT !.at = "scanning"] # Idle
        /\ [worker EXCEPT !.at = "scanning"].key = worker.key
    BY <2>1, WorkerType DEF WorkerStates, Idle
  <2>8. workers' \in [Workers -> WorkerStates] /\ KeyInHand' /\ KeysDiffer'
    BY <1>3, <2>1, <2>7, KeepsKey DEF Seed
  <2>9. QED
    BY <1>3, <2>5, <2>6, <2>8 DEF Seed, WorkerStep, TypeInv, OnlyServingWorks
<1>4. CASE Scan(w)
  <2>1. worker.at = "scanning" /\ worker # Idle /\ k \in Keys /\ worker.advice \in Replicas
    BY <1>4, WorkerType DEF Scan, Idle
  <2>2. PICK m \in Replicas, old \in OldSamples(slots) \cup {0} :
          Moves(w, [at |-> IF old = 0 THEN "appending" ELSE "storing", key |-> k,
                    advice |-> worker.advice, answer |-> m, old |-> old])
    BY <1>4 DEF Scan
  <2> DEFINE scanned == [at |-> IF old = 0 THEN "appending" ELSE "storing", key |-> k,
                         advice |-> worker.advice, answer |-> m, old |-> old]
  <2>3. old \in Nat
    BY <1>0, <2>1 DEF OldSamples
  <2>4. scanned \in WorkerStates /\ scanned # Idle /\ scanned.key = k
    BY <2>1, <2>3 DEF WorkerStates, Idle
  <2>5. workers' \in [Workers -> WorkerStates] /\ KeyInHand' /\ KeysDiffer'
    BY <1>4, <2>1, <2>2, <2>4, KeepsKey DEF Scan
  <2>6. historicalRecommendation' \in [Keys -> Seq(Recs)] /\ raced' \in BOOLEAN
    BY <1>0, <1>4, AccessType DEF Scan
  <2>7. QED
    BY <1>4, <2>5, <2>6 DEF Scan, WorkerStep, TypeInv, OnlyServingWorks
<1>5. CASE Store(w)
  <2>1. worker.at = "storing" /\ worker # Idle /\ k \in Keys /\ rec \in Recs
    BY <1>5, WorkerType, NewRec DEF Store, Idle
  <2>2. CASE worker.old \in DOMAIN slots
    <3>1. [slots EXCEPT ![worker.old] = rec] \in Seq(Recs)
      BY <1>0, <2>1, <2>2
    <3>2. [historicalRecommendation EXCEPT ![k][worker.old] = rec] \in [Keys -> Seq(Recs)]
      BY <1>0, <2>1, <3>1
    <3>3. historicalRecommendation' \in [Keys -> Seq(Recs)] /\ raced' \in BOOLEAN
      BY <1>5, <2>2, <3>2, AccessType DEF Store
    <3>4. /\ workers' \in [Workers -> WorkerStates]
          /\ queue' \subseteq Keys /\ passes' \in [Keys -> 0..MaxPasses]
          /\ advised' \in [Keys -> SUBSET Recs]
          /\ KeyInHand' /\ KeysDiffer'
      BY <1>5, <2>1, <2>2, FinishType DEF Store, WorkerStep
    <3>5. QED
      BY <1>5, <2>2, <3>3, <3>4 DEF Store, WorkerStep, TypeInv, OnlyServingWorks
  <2>3. CASE worker.old \notin DOMAIN slots
    BY <1>5, <2>3, ExitType DEF Store
  <2>4. QED
    BY <2>2, <2>3
<1>6. CASE AppendSlot(w)
  <2>1. worker.at = "appending" /\ worker # Idle /\ k \in Keys /\ rec \in Recs
    BY <1>6, WorkerType, NewRec DEF AppendSlot, Idle
  <2>2. [historicalRecommendation EXCEPT ![k] = Append(@, rec)] \in [Keys -> Seq(Recs)]
    BY <1>0, <2>1
  <2>3. historicalRecommendation' \in [Keys -> Seq(Recs)] /\ raced' \in BOOLEAN
    BY <1>6, <2>2, AccessType DEF AppendSlot
  <2>4. /\ workers' \in [Workers -> WorkerStates]
        /\ queue' \subseteq Keys /\ passes' \in [Keys -> 0..MaxPasses]
        /\ advised' \in [Keys -> SUBSET Recs]
        /\ KeyInHand' /\ KeysDiffer'
    BY <1>6, <2>1, FinishType DEF AppendSlot, WorkerStep
  <2>5. QED
    BY <1>6, <2>3, <2>4 DEF AppendSlot, WorkerStep, TypeInv, OnlyServingWorks
<1>7. QED
  BY <1>1, <1>2, <1>3, <1>4, <1>5, <1>6

LEMMA TypeStep == TypeInv /\ [Next]_vars => TypeInv'
<1> SUFFICES ASSUME TypeInv, [Next]_vars PROVE TypeInv'
  OBVIOUS
<1>1. CASE StartStep
  BY <1>1, StartType
<1>2. CASE Work
  BY <1>2, WorkType DEF Work
<1>3. CASE Crash
  BY <1>3, ExitType DEF Crash
<1>4. CASE EditFile
  <2>1. edits' \in 0..MaxEdits
    BY <1>4, ProcessAssumption DEF EditFile, TypeInv
  <2>2. QED
    BY <1>4, <2>1 DEF EditFile, memory, TypeInv, KeyInHand, KeysDiffer, OnlyServingWorks
<1>5. CASE Tick
  <2>1. now' \in 0..MaxTime
    BY <1>5, ProcessAssumption DEF Tick, TypeInv
  <2>2. advised' \in [Keys -> SUBSET Recs]
    BY <1>5 DEF Tick, TypeInv, Recent
  <2>3. QED
    BY <1>5, <2>1, <2>2 DEF Tick, TypeInv, KeyInHand, KeysDiffer, OnlyServingWorks
<1>6. CASE UNCHANGED vars
  BY <1>6 DEF vars, memory, TypeInv, KeyInHand, KeysDiffer, OnlyServingWorks
<1>7. QED
  BY <1>1, <1>2, <1>3, <1>4, <1>5, <1>6 DEF Next

LEMMA TypeInvariant == Spec => []TypeInv
<1>1. Init => TypeInv
  <2> SUFFICES ASSUME Init PROVE TypeInv
    OBVIOUS
  <2>1. workers \in [Workers -> WorkerStates] /\ \A w \in Workers : workers[w] = Idle
    BY DEF Init, WorkerStates
  <2>2. KeyInHand /\ KeysDiffer /\ OnlyServingWorks
    BY <2>1 DEF KeyInHand, KeysDiffer, OnlyServingWorks
  <2>3. loaded \in 0..Len(Plugins) /\ now \in 0..MaxTime /\ edits \in 0..MaxEdits
        /\ deaths \in 0..MaxDeaths /\ passes \in [Keys -> 0..MaxPasses]
    BY ProcessAssumption DEF Init
  <2>4. IsConfig(config) /\ raced \in BOOLEAN /\ phase \in Phases
    BY DEF Init, NoConfig, IsConfig, Phases
  <2>5. QED
    BY <2>1, <2>2, <2>3, <2>4 DEF Init, TypeInv
<1>2. QED
  BY <1>1, TypeStep, PTL DEF Spec

\* Every variable keeps its type and the queue never gives a key to two workers at a time,
\* however many workers there are and however often the process ends and starts again.
THEOREM TypeCorrect == Spec => []TypeOK
<1>1. TypeInv => TypeOK
  <2> SUFFICES ASSUME TypeInv PROVE TypeOK
    OBVIOUS
  <2>1. IsFile(file)
    BY FilesAssumption DEF TypeInv
  <2>2. \A k \in Keys : \A i \in DOMAIN historicalRecommendation[k] :
          historicalRecommendation[k][i] \in Recommendation(0..MaxTime, Replicas)
    BY DEF TypeInv, Recs
  <2>3. QED
    BY <2>1, <2>2 DEF TypeInv, TypeOK, KeysDiffer
<1>2. QED
  BY <1>1, TypeInvariant, PTL

-----------------------------------------------------------------------------
(* Loading                                                                 *)

\* Without a process there are no plugins.
LEMMA EndsLoad == Ends => LoadInv'
<1> SUFFICES ASSUME Ends PROVE LoadInv'
  OBVIOUS
<1>1. loaded' = 0 /\ phase' = "down"
  BY DEF Ends
<1>2. QED
  BY <1>1 DEF LoadInv

LEMMA LoadStep == TypeInv /\ LoadInv /\ [Next]_vars => LoadInv'
<1> SUFFICES ASSUME TypeInv, LoadInv, [Next]_vars PROVE LoadInv'
  OBVIOUS
<1> USE DEF LoadInv, PluginReady
<1>1. CASE Ends
  BY <1>1, EndsLoad
<1>2. CASE Start
  BY <1>2 DEF Start, memory
<1>3. CASE LoadConfig /\ ~Ends
  <2>1. loaded = 0 /\ loaded' = 0 /\ phase' = "connecting"
    BY <1>3 DEF LoadConfig, Exit
  <2>2. QED
    BY <2>1
<1>4. CASE NewManager
  BY <1>4 DEF NewManager, memory
<1>5. CASE SyncCaches
  BY <1>5 DEF SyncCaches, memory
<1>6. CASE LoadPlugin /\ ~Ends
  <2>1. /\ loaded' = loaded + 1 /\ phase' = phase /\ config' = config /\ phase = "loading"
        /\ loaded \in Nat
        /\ PluginReady(loaded + 1)
    BY <1>6 DEF LoadPlugin, Exit, GetPlugin, SetupFunc, GetPluginConfig, TypeInv
  <2>2. ASSUME NEW i \in 1..loaded' PROVE PluginReady(i)
    <3>1. i \in 1..loaded \/ i = loaded + 1
      BY <2>1
    <3>2. QED
      BY <2>1, <3>1
  <2>3. QED
    BY <2>1, <2>2
<1>7. CASE Serve
  BY <1>7 DEF Serve
<1>8. CASE Work /\ ~Ends
  <2>1. WorkerStep
    BY <1>8 DEF Work, Take, Check, Seed, Scan, Store, AppendSlot, Exit
  <2>2. QED
    BY <2>1 DEF WorkerStep
<1>9. CASE EditFile
  BY <1>9 DEF EditFile, memory
<1>10. CASE Tick
  BY <1>10 DEF Tick
<1>11. CASE UNCHANGED vars
  BY <1>11 DEF vars, memory
<1>12. QED
  BY <1>1, <1>2, <1>3, <1>4, <1>5, <1>6, <1>7, <1>8, <1>9, <1>10, <1>11
     DEF Next, StartStep, Crash, Dies

\* A worker only ever has a key in a process that set up all its plugins, each from the
\* configuration that was read at this start and that the plugin accepted.
THEOREM ServesOnlyConfigured == Spec => []ServesFullyConfigured
<1>1. Init => LoadInv
  BY DEF Init, LoadInv
<1>2. TypeInv /\ LoadInv => ServesFullyConfigured
  <2> SUFFICES ASSUME TypeInv, LoadInv, NEW w \in Workers, workers[w] # Idle,
                      NEW i \in DOMAIN Plugins
               PROVE  PluginReady(i)
    BY DEF ServesFullyConfigured, PluginReady
  <2>1. phase = "serving"
    BY DEF TypeInv, OnlyServingWorks
  <2>2. i \in 1..loaded
    BY <2>1, ProcessAssumption DEF LoadInv
  <2>3. QED
    BY <2>2 DEF LoadInv
<1>3. QED
  BY <1>1, <1>2, LoadStep, TypeInvariant, PTL DEF Spec

-----------------------------------------------------------------------------
(* Stabilization                                                           *)

\* A new process has nothing to keep and nobody works.
LEMMA EndsHistory == Ends => HistoryInv'
<1> SUFFICES ASSUME Ends PROVE HistoryInv'
  OBVIOUS
<1>1. ASSUME NEW k \in Keys PROVE Kept(k)'
  BY DEF Ends, Kept, Recent
<1>2. ASSUME NEW w \in Workers PROVE UpToDate(w)'
  BY DEF Ends, UpToDate, Idle
<1>3. QED
  BY <1>1, <1>2 DEF HistoryInv

\* What is old stays old.
LEMMA OldLater ==
    ASSUME TypeInv, NEW rec \in Recs, IsOld(rec, now, Window)
    PROVE  IsOld(rec, now + 1, Window)
BY ProcessAssumption DEF TypeInv, Recs, Recommendation, IsOld

\* Worker w takes its step without touching the histories, nor what was advised.
LEMMA FrameHistory ==
    ASSUME TypeInv, ~raced, HistoryInv, NEW w \in Workers, NEW worker, Moves(w, worker),
           historicalRecommendation' = historicalRecommendation, advised' = advised, now' = now,
           UpToDate(w)'
    PROVE  HistoryInv'
<1>1. ASSUME NEW k \in Keys PROVE Kept(k)'
  BY DEF HistoryInv, Kept
<1>2. ASSUME NEW v \in Workers, v # w PROVE UpToDate(v)'
  <2>1. workers'[v] = workers[v]
    BY <1>2 DEF Moves, TypeInv
  <2>2. QED
    BY <2>1 DEF HistoryInv, UpToDate
<1>3. QED
  BY <1>1, <1>2 DEF HistoryInv

\* Worker w changes the history of its own key, and nothing that others know changes.
LEMMA OthersUpToDate ==
    ASSUME TypeInv, ~raced, HistoryInv, NEW w \in Workers, workers[w] # Idle, NEW worker,
           Moves(w, worker), now' = now,
           \A j \in Keys : j # workers[w].key =>
               /\ historicalRecommendation'[j] = historicalRecommendation[j]
               /\ advised'[j] = advised[j],
           \A j \in Keys : j = workers[w].key => Kept(j)',
           UpToDate(w)'
    PROVE  HistoryInv'
<1>1. ASSUME NEW k \in Keys PROVE Kept(k)'
  BY DEF HistoryInv, Kept
<1>2. ASSUME NEW v \in Workers, v # w PROVE UpToDate(v)'
  <2>1. workers'[v] = workers[v]
    BY <1>2 DEF Moves, TypeInv
  <2>2. CASE workers[v] = Idle
    BY <2>1, <2>2 DEF UpToDate, Idle
  <2>3. CASE workers[v] # Idle
    <3>1. workers[v].key # workers[w].key /\ workers[v].key \in Keys
      BY <1>2, <2>3, WorkerType DEF TypeInv, KeysDiffer
    <3>2. QED
      BY <2>1, <3>1 DEF HistoryInv, UpToDate
  <2>4. QED
    BY <2>2, <2>3
<1>3. QED
  BY <1>1, <1>2 DEF HistoryInv

\* The steps of a worker keep what was advised in the window, and what it knows of the
\* history of its key.
LEMMA WorkHistory ==
    ASSUME TypeInv, TypeInv', HistoryInv, ~Ends, NEW w \in Workers,
           Take(w) \/ Check(w) \/ Seed(w) \/ Scan(w) \/ Store(w) \/ AppendSlot(w)
    PROVE  HistoryInv'
<1> SUFFICES ASSUME ~raced' PROVE HistoryInv'
  BY DEF HistoryInv
<1> DEFINE worker == workers[w]
           k      == worker.key
           slots  == historicalRecommendation[k]
           rec    == [timestamp |-> now, replicas |-> worker.advice]
<1>0. historicalRecommendation \in [Keys -> Seq(Recs)] /\ advised \in [Keys -> SUBSET Recs]
  BY DEF TypeInv
<1>1. CASE Take(w)
  <2>1. PICK key \in queue, advice \in Replicas :
          Moves(w, [at |-> "checking", key |-> key, advice |-> advice])
    BY <1>1 DEF Take
  <2>2. workers'[w].at = "checking"
    BY <2>1 DEF Moves, TypeInv
  <2>3. UpToDate(w)'
    BY <2>2 DEF UpToDate
  <2>4. ~raced
    BY <1>1 DEF Take
  <2>5. QED
    BY <1>1, <2>1, <2>3, <2>4, FrameHistory DEF Take, WorkerStep
<1>2. CASE Check(w)
  <2>1. worker.at = "checking" /\ worker # Idle
    BY <1>2 DEF Check, Idle
  <2>2. ~raced /\ historicalRecommendation' = historicalRecommendation
    BY <1>0, <1>2, AccessType DEF Check
  <2> DEFINE at == IF slots # <<>> THEN "scanning" ELSE "seeding"
  <2>3. Moves(w, [worker EXCEPT !.at = at])
    BY <1>2 DEF Check
  <2>4. worker \in [at : {"checking", "seeding", "scanning"}, key : Keys, advice : Replicas]
    BY <2>1, WorkerType DEF WorkerStates, Idle
  <2>5. workers'[w].at = at /\ workers'[w].key = k
    BY <2>3, <2>4 DEF Moves, TypeInv
  <2>6. UpToDate(w)'
    BY <2>2, <2>5 DEF UpToDate
  <2>7. QED
    BY <1>2, <2>2, <2>3, <2>6, FrameHistory DEF Check, WorkerStep
<1>3. CASE Seed(w)
  <2>1. worker.at = "seeding" /\ worker # Idle /\ k \in Keys
    BY <1>3, WorkerType DEF Seed, Idle
  <2>2. PICK current \in Replicas :
          Access(w, Seeded(k, current)) /\ Advise(k, current)
    BY <1>3 DEF Seed
  <2> DEFINE seed == [timestamp |-> now, replicas |-> current]
  <2>3. seed \in Recs
    BY NewRec
  <2>4. Seeded(k, current) \in [Keys -> Seq(Recs)]
    BY <1>0, <2>1, <2>3 DEF Seeded
  <2>5. ~raced /\ historicalRecommendation' = [historicalRecommendation EXCEPT ![k] = <<seed>>]
    BY <2>2, <2>4, AccessType DEF Seeded
  <2>6. advised' = [advised EXCEPT ![k] = @ \cup {seed}] /\ now' = now
    BY <1>3, <2>2 DEF Seed, Advise, WorkerStep
  <2>7. slots = <<>> /\ Recent(advised[k], now, Window) = {}
    BY <2>1, <2>5 DEF HistoryInv, UpToDate, Kept
  <2>8. historicalRecommendation'[k] = <<seed>> /\ advised'[k] = advised[k] \cup {seed}
    BY <1>0, <2>1, <2>5, <2>6
  <2> HIDE DEF seed
  <2>9. Recent(advised[k] \cup {seed}, now, Window) \subseteq {seed}
    BY <2>7 DEF Recent
  <2>10. \A j \in Keys : j = k => Kept(j)'
    BY <2>6, <2>8, <2>9 DEF Kept
  <2>11. Moves(w, [worker EXCEPT !.at = "scanning"])
    BY <1>3 DEF Seed
  <2>12. worker \in [at : {"checking", "seeding", "scanning"}, key : Keys, advice : Replicas]
    BY <2>1, WorkerType DEF WorkerStates, Idle
  <2>13. workers'[w].at = "scanning"
    BY <2>11, <2>12 DEF Moves, TypeInv
  <2>14. UpToDate(w)'
    BY <2>13 DEF UpToDate
  <2>15. \A j \in Keys : j # k => /\ historicalRecommendation'[j] = historicalRecommendation[j]
                                 /\ advised'[j] = advised[j]
    BY <1>0, <2>1, <2>5, <2>6
  <2>16. QED
    BY <2>1, <2>5, <2>6, <2>10, <2>11, <2>14, <2>15, OthersUpToDate
<1>4. CASE Scan(w)
  <2>1. worker.at = "scanning" /\ worker # Idle /\ k \in Keys /\ worker.advice \in Replicas
    BY <1>4, WorkerType DEF Scan, Idle
  <2>2. ~raced /\ historicalRecommendation' = historicalRecommendation
    BY <1>0, <1>4, AccessType DEF Scan
  <2>3. PICK m \in Replicas, old \in OldSamples(slots) \cup {0} :
          /\ IsMaxRecommendation(m, worker.advice, {slots[i] : i \in DOMAIN slots}, now, Window)
          /\ Moves(w, [at |-> IF old = 0 THEN "appending" ELSE "storing", key |-> k,
                       advice |-> worker.advice, answer |-> m, old |-> old])
    BY <1>4 DEF Scan
  <2>4. workers'[w] = [at |-> IF old = 0 THEN "appending" ELSE "storing", key |-> k,
                       advice |-> worker.advice, answer |-> m, old |-> old]
    BY <2>3 DEF Moves, TypeInv
  <2>5. /\ workers'[w].at = IF old = 0 THEN "appending" ELSE "storing"
        /\ workers'[w].key = k /\ workers'[w].answer = m /\ workers'[w].old = old
    BY <2>4
  <2>6. ASSUME NEW r \in Recent(advised[k], now, Window) PROVE r.replicas <= m
    <3>1. PICK i \in DOMAIN slots : slots[i] = r
      BY <2>1, <2>2 DEF HistoryInv, Kept
    <3>2. r \in Recent({slots[j] : j \in DOMAIN slots}, now, Window)
      BY <3>1 DEF Recent
    <3>3. QED
      BY <2>3, <3>2 DEF IsMaxRecommendation
  <2>7. old # 0 => old \in DOMAIN slots /\ IsOld(slots[old], now, Window)
    BY DEF OldSamples
  <2>8. advised' = advised /\ now' = now
    BY <1>4 DEF Scan, WorkerStep
  <2>9. UpToDate(w)'
    BY <2>2, <2>5, <2>6, <2>7, <2>8 DEF UpToDate
  <2>10. QED
    BY <2>2, <2>3, <2>8, <2>9, FrameHistory
<1>5. CASE Store(w)
  <2>1. worker.at = "storing" /\ worker # Idle /\ k \in Keys /\ rec \in Recs
    BY <1>5, WorkerType, NewRec DEF Store, Idle
  <2>2. worker.old \in DOMAIN slots /\ WorkerStep /\ Finish(w)
        /\ Access(w, [historicalRecommendation EXCEPT ![k][worker.old] = rec])
    BY <1>5 DEF Store, Exit
  <2> DEFINE stored == [slots EXCEPT ![worker.old] = rec]
  <2>3. stored \in Seq(Recs)
    BY <1>0, <2>1, <2>2
  <2>4. [historicalRecommendation EXCEPT ![k][worker.old] = rec] \in [Keys -> Seq(Recs)]
    BY <1>0, <2>1, <2>3
  <2>5. ~raced /\ historicalRecommendation' = [historicalRecommendation EXCEPT ![k][worker.old] = rec]
    BY <2>2, <2>4, AccessType
  <2>6. /\ historicalRecommendation'[k] = stored
        /\ \A j \in Keys : j # k => historicalRecommendation'[j] = historicalRecommendation[j]
    BY <1>0, <2>1, <2>5
  <2>7. advised' = [advised EXCEPT ![k] = @ \cup {rec}] /\ now' = now /\ Moves(w, Idle)
    BY <2>2 DEF Finish, Advise, WorkerStep
  <2>8. /\ advised'[k] = advised[k] \cup {rec}
        /\ \A j \in Keys : j # k => advised'[j] = advised[j]
    BY <1>0, <2>1, <2>7
  <2>9. IsOld(slots[worker.old], now, Window)
    BY <2>1, <2>5 DEF HistoryInv, UpToDate
  <2>10. /\ DOMAIN stored = DOMAIN slots /\ stored[worker.old] = rec
         /\ \A i \in DOMAIN slots : i # worker.old => stored[i] = slots[i]
    BY <1>0, <2>1, <2>2
  <2> HIDE DEF stored, rec
  <2>11. ASSUME NEW r \in Recent(advised[k] \cup {rec}, now, Window)
         PROVE  \E i \in DOMAIN stored : stored[i] = r
    <3>1. CASE r = rec
      BY <2>2, <2>10, <3>1
    <3>2. CASE r # rec
      <4>1. r \in Recent(advised[k], now, Window) /\ ~IsOld(r, now, Window)
        BY <3>2 DEF Recent
      <4>2. PICK i \in DOMAIN slots : slots[i] = r
        BY <2>1, <2>5, <4>1 DEF HistoryInv, Kept
      <4>3. i # worker.old
        BY <2>9, <4>1, <4>2
      <4>4. QED
        BY <2>10, <4>2, <4>3
    <3>3. QED
      BY <3>1, <3>2
  <2>12. \A j \in Keys : j = k => Kept(j)'
    BY <2>6, <2>7, <2>8, <2>11 DEF Kept
  <2>13. UpToDate(w)'
    BY <2>7 DEF Moves, TypeInv, UpToDate, Idle
  <2>14. QED
    BY <2>1, <2>5, <2>6, <2>7, <2>8, <2>12, <2>13, OthersUpToDate
<1>6. CASE AppendSlot(w)
  <2>1. worker.at = "appending" /\ worker # Idle /\ k \in Keys /\ rec \in Recs
    BY <1>6, WorkerType, NewRec DEF AppendSlot, Idle
  <2>2. [historicalRecommendation EXCEPT ![k] = Append(@, rec)] \in [Keys -> Seq(Recs)]
    BY <1>0, <2>1
  <2>3. ~raced /\ historicalRecommendation' = [historicalRecommendation EXCEPT ![k] = Append(@, rec)]
    BY <1>6, <2>2, AccessType DEF AppendSlot
  <2>4. /\ historicalRecommendation'[k] = Append(slots, rec)
        /\ \A j \in Keys : j # k => historicalRecommendation'[j] = historicalRecommendation[j]
    BY <1>0, <2>1, <2>3
  <2>5. advised' = [advised EXCEPT ![k] = @ \cup {rec}] /\ now' = now /\ Moves(w, Idle)
    BY <1>6 DEF AppendSlot, Finish, Advise, WorkerStep
  <2>6. /\ advised'[k] = advised[k] \cup {rec}
        /\ \A j \in Keys : j # k => advised'[j] = advised[j]
    BY <1>0, <2>1, <2>5
  <2>7. slots \in Seq(Recs)
    BY <1>0, <2>1
  <2> HIDE DEF rec
  <2>8. ASSUME NEW r \in Recent(advised[k] \cup {rec}, now, Window)
        PROVE  \E i \in DOMAIN Append(slots, rec) : Append(slots, rec)[i] = r
    <3>1. CASE r = rec
      <4>1. Len(slots) + 1 \in DOMAIN Append(slots, rec) /\ Append(slots, rec)[Len(slots) + 1] = rec
        BY <2>1, <2>7
      <4>2. QED
        BY <3>1, <4>1
    <3>2. CASE r # rec
      <4>1. r \in Recent(advised[k], now, Window)
        BY <3>2 DEF Recent
      <4>2. PICK i \in DOMAIN slots : slots[i] = r
        BY <2>1, <2>3, <4>1 DEF HistoryInv, Kept
      <4>3. i \in DOMAIN Append(slots, rec) /\ Append(slots, rec)[i] = slots[i]
        BY <2>1, <2>7
      <4>4. QED
        BY <4>2, <4>3
    <3>3. QED
      BY <3>1, <3>2
  <2> DEFINE appended == Append(slots, rec)
  <2> HIDE DEF appended
  <2>9. \A j \in Keys : j = k => Kept(j)'
    <3>1. historicalRecommendation'[k] = appended
      BY <2>4 DEF appended
    <3>2. \A r \in Recent(advised[k] \cup {rec}, now, Window) :
            \E i \in DOMAIN appended : appended[i] = r
      BY <2>8 DEF appended
    <3>3. QED
      BY <2>5, <2>6, <3>1, <3>2 DEF Kept
  <2>10. UpToDate(w)'
    BY <2>5 DEF Moves, TypeInv, UpToDate, Idle
  <2>11. QED
    BY <2>1, <2>3, <2>4, <2>5, <2>6, <2>9, <2>10, OthersUpToDate
<1>7. QED
  BY <1>1, <1>2, <1>3, <1>4, <1>5, <1>6

LEMMA HistoryStep == TypeInv /\ TypeInv' /\ HistoryInv /\ [Next]_vars => HistoryInv'
<1> SUFFICES ASSUME TypeInv, TypeInv', HistoryInv, [Next]_vars PROVE HistoryInv'
  OBVIOUS
<1>1. CASE Ends
  BY <1>1, EndsHistory
<1>2. CASE Work /\ ~Ends
  BY <1>2, WorkHistory DEF Work
<1>3. CASE Tick
  <2> SUFFICES ASSUME ~raced PROVE HistoryInv'
    BY <1>3 DEF Tick, HistoryInv
  <2>1. /\ now' = now + 1 /\ workers' = workers
        /\ historicalRecommendation' = historicalRecommendation
        /\ \A k \in Keys : advised'[k] = Recent(advised[k], now + 1, Window)
    BY <1>3 DEF Tick
  <2>2. ASSUME NEW k \in Keys, NEW rec \in Recent(advised'[k], now', Window)
        PROVE  rec \in Recent(advised[k], now, Window)
    <3>1. rec \in advised[k] /\ ~IsOld(rec, now + 1, Window)
      BY <2>1 DEF Recent
    <3>2. rec \in Recs
      BY <3>1 DEF TypeInv
    <3>3. QED
      BY <3>1, <3>2, OldLater DEF Recent
  <2>3. ASSUME NEW k \in Keys PROVE Kept(k)'
    BY <2>1, <2>2 DEF HistoryInv, Kept
  <2>4. ASSUME NEW w \in Workers PROVE UpToDate(w)'
    <3>1. CASE workers[w] = Idle
      BY <2>1, <3>1 DEF UpToDate, Idle
    <3>2. CASE workers[w] # Idle
      <4> DEFINE slots == historicalRecommendation[workers[w].key]
      <4>1. workers[w].key \in Keys /\ UpToDate(w)
        BY <3>2, WorkerType DEF HistoryInv
      <4>2. workers[w].at = "storing" => IsOld(slots[workers[w].old], now + 1, Window)
        <5> SUFFICES ASSUME workers[w].at = "storing"
                     PROVE  IsOld(slots[workers[w].old], now + 1, Window)
          OBVIOUS
        <5>1. slots \in Seq(Recs)
          BY <4>1 DEF TypeInv
        <5>2. workers[w].old \in DOMAIN slots /\ IsOld(slots[workers[w].old], now, Window)
          BY <4>1 DEF UpToDate
        <5>3. slots[workers[w].old] \in Recs
          BY <5>1, <5>2
        <5>4. QED
          BY <5>2, <5>3, OldLater
      <4>3. QED
        BY <2>1, <2>2, <4>1, <4>2 DEF UpToDate
    <3>3. QED
      BY <3>1, <3>2
  <2>5. QED
    BY <2>3, <2>4 DEF HistoryInv
<1>4. CASE (StartStep /\ ~Ends) \/ EditFile \/ UNCHANGED vars
  <2>1. UNCHANGED <<workers, historicalRecommendation, advised, now, raced>>
    BY <1>4 DEF StartStep, Start, LoadConfig, NewManager, SyncCaches, LoadPlugin, Serve, Exit,
                EditFile, vars, memory
  <2>2. \A k \in Keys : Kept(k) => Kept(k)'
    BY <2>1 DEF Kept
  <2>3. \A w \in Workers : UpToDate(w) => UpToDate(w)'
    BY <2>1 DEF UpToDate
  <2>4. QED
    BY <2>1, <2>2, <2>3 DEF HistoryInv
<1>5. QED
  BY <1>1, <1>2, <1>3, <1>4 DEF Next, Crash, Dies

\* However many workers share the map of histories: as long as no two of their accesses
\* overlap, every answer is at least every seed and recommendation of the window, and the
\* slot a worker chose for reuse is still there, and old, when it stores.
THEOREM StabilizedByTurns == Spec => []StabilizedUnlessRaced
<1>1. Init => HistoryInv
  <2> SUFFICES ASSUME Init PROVE HistoryInv
    OBVIOUS
  <2>1. ASSUME NEW k \in Keys PROVE Kept(k)
    BY DEF Init, Kept, Recent
  <2>2. ASSUME NEW w \in Workers PROVE UpToDate(w)
    BY DEF Init, UpToDate, Idle
  <2>3. QED
    BY <2>1, <2>2 DEF HistoryInv
<1>2. HistoryInv => StabilizedUnlessRaced
  BY DEF HistoryInv, UpToDate, StabilizedUnlessRaced
<1>3. QED
  BY <1>1, <1>2, HistoryStep, TypeInvariant, PTL DEF Spec
=============================================================================
