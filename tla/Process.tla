------------------------------ MODULE Process ------------------------------
(***************************************************************************)
(* One process of the controller: main reads the configuration, waits for  *)
(* the pod cache, sets up the plugins one after the other and starts the   *)
(* workers, which then ask the one simple replicator for different         *)
(* autoscalers at the same time.  Its map of histories has no lock, so the *)
(* accesses of two workers may overlap.                                    *)
(***************************************************************************)
EXTENDS Recommendations, Sequences, FiniteSets

CONSTANTS Plugins,       \* engine.Replicators and engine.Scalers, in the order they are loaded
          Registered,    \* the plugins linked into the program
          Files,         \* what the configuration file may hold
          Keys,          \* the autoscalers
          Workers,       \* MaxConcurrentReconciles of them
          Replicas, Window, MaxTime,
          MaxPasses,     \* bound on the passes of a key
          MaxEdits,      \* bound on the edits of the file
          MaxDeaths      \* bound on how often a running process dies

ASSUME ProcessAssumption ==
    /\ Plugins \in Seq(STRING) /\ Plugins # <<>>
    /\ Workers # {} /\ IsFiniteSet(Workers) /\ Replicas \subseteq Nat
    /\ {Window, MaxTime, MaxPasses, MaxEdits, MaxDeaths} \subseteq Nat

VARIABLES file,          \* wing.yaml
          phase,         \* how far the process has come
          config,        \* config.Plugins, as read at the start
          loaded,        \* how many of Plugins are set up
          queue,         \* the keys in the work queue
          workers,       \* where each worker is in GetDesiredReplicas
          historicalRecommendation, \* per key, <<>> if the map has no entry
          now, passes, edits, deaths,
          advised,       \* history: all seeds and recommendations of the process in the window
          raced          \* history: two accesses of the map have overlapped

memory == <<config, loaded, queue, workers, historicalRecommendation, advised, raced>>
vars == <<file, phase, memory, now, passes, edits, deaths>>

Phases == {"down", "starting", "connecting", "syncing", "loading", "serving"}

\* The configuration of some plugins, which the plugin may refuse, in a file that main can
\* read and parse, or cannot.
IsConfig(c) == \A p \in DOMAIN c : c[p] \in {"valid", "refused"}
IsFile(f) == f.readable \in BOOLEAN /\ IsConfig(f.plugins)

ASSUME FilesAssumption == \A f \in Files : IsFile(f)

Idle == [at |-> "idle"]

NoConfig == [p \in {} |-> "valid"]

-----------------------------------------------------------------------------
(* Start and end of the process                                            *)

Init ==
    /\ file \in Files
    /\ phase = "down"
    /\ config = NoConfig /\ loaded = 0
    /\ queue = {}
    /\ workers = [w \in Workers |-> Idle]
    /\ historicalRecommendation = [k \in Keys |-> <<>>]
    /\ now = 0
    /\ passes = [k \in Keys |-> 0]
    /\ edits = 0 /\ deaths = 0
    /\ advised = [k \in Keys |-> {}]
    /\ raced = FALSE

\* The container is started again after every end of the process.
Start ==
    /\ phase = "down" /\ phase' = "starting"
    /\ UNCHANGED <<file, memory, now, passes, edits, deaths>>

\* os.Exit, a panic or a fatal error: all that was in memory is gone.
Ends ==
    /\ phase' = "down"
    /\ config' = NoConfig /\ loaded' = 0
    /\ queue' = {}
    /\ workers' = [w \in Workers |-> Idle]
    /\ historicalRecommendation' = [k \in Keys |-> <<>>]
    /\ advised' = [k \in Keys |-> {}]
    /\ raced' = FALSE

Exit == Ends /\ UNCHANGED <<file, now, passes, edits, deaths>>

Dies == /\ deaths < MaxDeaths /\ deaths' = deaths + 1
        /\ Ends /\ UNCHANGED <<file, now, passes, edits>>

\* At any moment, and in particular when the runtime notices that accesses of the map
\* overlap: fatal error: concurrent map writes.
Crash == phase # "down" /\ Dies

LoadConfig ==
    /\ phase = "starting"
    /\ IF ~file.readable THEN Exit
       ELSE /\ config' = file.plugins /\ phase' = "connecting"
            /\ UNCHANGED <<file, loaded, queue, workers, historicalRecommendation, advised,
                           raced, now, passes, edits, deaths>>

\* ctrl.NewManager connects to the API server; that it cannot is one way to Crash.
NewManager ==
    /\ phase = "connecting" /\ phase' = "syncing"
    /\ UNCHANGED <<file, memory, now, passes, edits, deaths>>

\* InformerFactory.Run, which waits without a limit.
SyncCaches ==
    /\ phase = "syncing" /\ phase' = "loading"
    /\ UNCHANGED <<file, memory, now, passes, edits, deaths>>

\* Mutant: a plugin without a configuration runs with its defaults.
PluginConfigAccepted(name) == name \in DOMAIN config => config[name] = "valid"

\* GetPluginConfig as the setup functions use it: it must be there and pass Validate.
GetPluginConfig(name) == name \in DOMAIN config /\ config[name] = "valid"

GetPlugin(name) == name \in Registered

\* The setup function of a plugin: it asks for its configuration and adds itself to the
\* scalers or replicators of the engine.
SetupFunc(name) == GetPluginConfig(name)

\* A step of loadPlugins.
LoadPlugin ==
    /\ phase = "loading" /\ loaded < Len(Plugins)
    /\ IF GetPlugin(Plugins[loaded + 1]) /\ SetupFunc(Plugins[loaded + 1])
       THEN /\ loaded' = loaded + 1
            /\ UNCHANGED <<file, phase, config, queue, workers, historicalRecommendation,
                           advised, raced, now, passes, edits, deaths>>
       ELSE Exit

\* Mutant: after a crash only what changes is queued.
ListedOnce == IF deaths = 0 THEN Keys ELSE {}

\* The first list of the watch puts every autoscaler into the queue.
Listed == Keys

\* SetupWithManager and mgr.Start.
Serve ==
    /\ phase = "loading" /\ loaded = Len(Plugins)
    /\ phase' = "serving"
    /\ queue' = Listed
    /\ UNCHANGED <<file, config, loaded, workers, historicalRecommendation, advised, raced,
                   now, passes, edits, deaths>>

\* The file is only read at the start, so an edit may as well wait for the end.
EditFile ==
    /\ phase = "down"
    /\ edits < MaxEdits /\ edits' = edits + 1
    /\ file' \in Files \ {file}
    /\ UNCHANGED <<phase, memory, now, passes, deaths>>

Tick ==
    /\ now < MaxTime /\ now' = now + 1
    /\ advised' = [k \in Keys |-> Recent(advised[k], now + 1, Window)]
    /\ UNCHANGED <<file, phase, config, loaded, queue, workers, historicalRecommendation,
                   raced, passes, edits, deaths>>

-----------------------------------------------------------------------------
(* The workers in GetDesiredReplicas                                       *)

Writing(w) == workers[w].at \in {"seeding", "appending"}

\* Worker w is about to use the map while another one is writing to it.
Overlap(w) == workers[w].at # "idle" /\ \E v \in Workers \ {w} : Writing(v)

\* The map becomes m.  What happens when accesses overlap is not defined: nothing, the end of
\* the process (Crash), or the entry of some key is lost, as when two inserts take the
\* same cell of a bucket.
Access(w, m) ==
    /\ \/ historicalRecommendation' = m
       \/ Overlap(w) /\ \E k \in Keys : historicalRecommendation' = [m EXCEPT ![k] = <<>>]
    /\ raced' = (raced \/ Overlap(w))

WorkerStep ==
    /\ phase = "serving"
    /\ UNCHANGED <<file, phase, config, loaded, now, edits, deaths>>

Moves(w, worker) == workers' = [workers EXCEPT ![w] = worker]

Advise(k, replicas) ==
    advised' = [advised EXCEPT ![k] = @ \cup {[timestamp |-> now, replicas |-> replicas]}]

\* Mutant: a key stays in the queue while a worker has it.
StillQueued(k) == queue

Dequeued(k) == queue \ {k}

\* The queue hands a key to one worker at a time.  The scalers' advice comes before the
\* replicator and is anything.
Take(w) ==
    /\ WorkerStep /\ workers[w] = Idle
    /\ \E k \in queue, advice \in Replicas :
          /\ passes[k] < MaxPasses
          /\ queue' = Dequeued(k)
          /\ Moves(w, [at |-> "checking", key |-> k, advice |-> advice])
    /\ UNCHANGED <<historicalRecommendation, advised, raced, passes>>

\* Is there an entry?
Check(w) ==
    LET worker == workers[w]
        found  == historicalRecommendation[worker.key] # <<>>
    IN  /\ WorkerStep /\ worker.at = "checking"
        /\ Access(w, historicalRecommendation)
        /\ Moves(w, [worker EXCEPT !.at = IF found THEN "scanning" ELSE "seeding"])
        /\ UNCHANGED <<queue, advised, passes>>

\* Mutant: the first request of a key starts a new map.
SeededAlone(k, current) ==
    [j \in Keys |-> IF j = k THEN <<[timestamp |-> now, replicas |-> current]>> ELSE <<>>]

Seeded(k, current) ==
    [historicalRecommendation EXCEPT ![k] = <<[timestamp |-> now, replicas |-> current]>>]

\* The end of the write of the seed, the spec.replicas of the target.
Seed(w) ==
    LET worker == workers[w]
    IN  /\ WorkerStep /\ worker.at = "seeding"
        /\ \E current \in Replicas :
              Access(w, Seeded(worker.key, current)) /\ Advise(worker.key, current)
        /\ Moves(w, [worker EXCEPT !.at = "scanning"])
        /\ UNCHANGED <<queue, passes>>

OldSamples(slots) == {i \in DOMAIN slots : IsOld(slots[i], now, Window)}

\* The loop of stabilizeRecommendation: the greatest recommendation of the window and
\* the last slot older than it, 0 if there is none.
Scan(w) ==
    LET worker == workers[w]
        slots  == historicalRecommendation[worker.key]
    IN  /\ WorkerStep /\ worker.at = "scanning"
        /\ Access(w, historicalRecommendation)
        /\ \E m \in Replicas, old \in OldSamples(slots) \cup {0} :
              /\ IsMaxRecommendation(m, worker.advice, {slots[i] : i \in DOMAIN slots}, now, Window)
              /\ \A i \in OldSamples(slots) : i <= old
              /\ Moves(w, [at |-> IF old = 0 THEN "appending" ELSE "storing", key |-> worker.key,
                           advice |-> worker.advice, answer |-> m, old |-> old])
        /\ UNCHANGED <<queue, advised, passes>>

\* The pass goes on with the answer and in the end asks for the key again.
Finish(w) ==
    /\ Moves(w, Idle)
    /\ Advise(workers[w].key, workers[w].advice)
    /\ queue' = queue \cup {workers[w].key}
    /\ passes' = [passes EXCEPT ![workers[w].key] = @ + 1]

\* The old slot is overwritten, which only reads the map; without its entry the index is
\* out of range.
Store(w) ==
    LET worker == workers[w]
        slots  == historicalRecommendation[worker.key]
        rec    == [timestamp |-> now, replicas |-> worker.advice]
    IN  /\ phase = "serving" /\ worker.at = "storing"
        /\ IF worker.old \in DOMAIN slots
           THEN /\ WorkerStep /\ Finish(w)
                /\ Access(w, [historicalRecommendation EXCEPT ![worker.key][worker.old] = rec])
           ELSE Exit

\* The end of the write of the appended slot.
AppendSlot(w) ==
    LET worker == workers[w]
        rec    == [timestamp |-> now, replicas |-> worker.advice]
    IN  /\ WorkerStep /\ worker.at = "appending"
        /\ Access(w, [historicalRecommendation EXCEPT ![worker.key] = Append(@, rec)])
        /\ Finish(w)

StartStep == Start \/ LoadConfig \/ NewManager \/ SyncCaches \/ LoadPlugin \/ Serve

Work == \E w \in Workers : Take(w) \/ Check(w) \/ Seed(w) \/ Scan(w) \/ Store(w) \/ AppendSlot(w)

Next == StartStep \/ Work \/ Crash \/ EditFile \/ Tick

\* The container is restarted, caches sync when the API server can be reached, and
\* goroutines are scheduled.
Spec == Init /\ [][Next]_vars /\ WF_vars(StartStep) /\ WF_vars(Work)

-----------------------------------------------------------------------------
(* Properties                                                              *)

WorkerStates ==
    {Idle} \cup [at : {"checking", "seeding", "scanning"}, key : Keys, advice : Replicas]
           \cup [at : {"appending", "storing"}, key : Keys, advice : Replicas,
                 answer : Replicas, old : Nat]

\* Every variable has its type, and no two workers have the same key.
TypeOK ==
    /\ IsFile(file) /\ phase \in Phases /\ IsConfig(config)
    /\ loaded \in 0..Len(Plugins) /\ queue \subseteq Keys
    /\ workers \in [Workers -> WorkerStates]
    /\ \A k \in Keys : \A i \in DOMAIN historicalRecommendation[k] :
          historicalRecommendation[k][i] \in Recommendation(0..MaxTime, Replicas)
    /\ \A v, w \in Workers : v # w /\ workers[v] # Idle /\ workers[w] # Idle
          => workers[v].key # workers[w].key
    /\ now \in 0..MaxTime /\ passes \in [Keys -> 0..MaxPasses]
    /\ edits \in 0..MaxEdits /\ deaths \in 0..MaxDeaths /\ raced \in BOOLEAN

\* No autoscaler is ever worked on by a process in which a plugin is missing or runs
\* with a configuration that was not given or is refused, whatever the file held before,
\* holds now, and however often the process was started.
ServesFullyConfigured ==
    (\E w \in Workers : workers[w] # Idle) =>
        \A i \in DOMAIN Plugins :
            /\ Plugins[i] \in Registered
            /\ Plugins[i] \in DOMAIN config /\ config[Plugins[i]] = "valid"

\* Any number of workers may take turns at the map: as long as no two of their accesses
\* overlap, the answer for a key is at least every seed and recommendation this process
\* has seen for it in the window, and the slot chosen for reuse is there when it is stored.
StabilizedUnlessRaced ==
    raced \/ \A w \in Workers : workers[w].at \in {"appending", "storing"} =>
        LET worker == workers[w]
        IN  /\ \A rec \in Recent(advised[worker.key], now, Window) :
                  rec.replicas <= worker.answer
            /\ worker.at = "storing" =>
                  worker.old \in DOMAIN historicalRecommendation[worker.key]

\* Once the configuration file is complete, every autoscaler is served in the end, in
\* spite of processes that exited on what the file held before or died with keys in hand.
EveryKeyServed ==
    <>[](file.readable /\ \A i \in DOMAIN Plugins :
            Plugins[i] \in DOMAIN file.plugins /\ file.plugins[Plugins[i]] = "valid")
        => \A k \in Keys : <>(passes[k] > 0)
=============================================================================
