------------------------------ MODULE WindowMax ------------------------------
(***************************************************************************)
(* What the simple replicator promises: for each autoscaler it remembers   *)
(* every recommendation of the downscale stabilization window and answers  *)
(* with the greatest of them, so that replicas go down only after the      *)
(* window has seen nothing higher.  The first recommendation of a process  *)
(* is compared with the replicas the target has.  Nothing survives a       *)
(* restart of the process.                                                 *)
(***************************************************************************)
EXTENDS Recommendations

CONSTANTS Keys,          \* the autoscalers
          Replicas,      \* possible replica counts
          Window,        \* DownscaleStabilizationWindow in ticks
          MaxTime        \* bound on the clock

VARIABLES now,           \* the clock
          remembered,    \* per key, the recommendations of the window
          seeded,        \* the keys asked for since the process started
          answer         \* per key, the last answer

vars == <<now, remembered, seeded, answer>>

Init ==
    /\ now = 0
    /\ remembered = [k \in Keys |-> {}]
    /\ seeded = {}
    /\ answer = [k \in Keys |-> 0]

\* One request: the greatest scaler output is `advice`, the target's
\* spec.replicas is `current`.
GetDesiredReplicas(k, advice, current) ==
    LET seed   == IF k \in seeded THEN {}
                  ELSE {[timestamp |-> now, replicas |-> current]}
        before == remembered[k] \cup seed
    IN  /\ \E m \in Replicas :
              /\ IsMaxRecommendation(m, advice, before, now, Window)
              /\ answer' = [answer EXCEPT ![k] = m]
        /\ remembered' = [remembered EXCEPT
              ![k] = before \cup {[timestamp |-> now, replicas |-> advice]}]
        /\ seeded' = seeded \cup {k}
        /\ UNCHANGED now

\* Time passes and the window moves on.
Tick ==
    /\ now < MaxTime
    /\ now' = now + 1
    /\ remembered' = [k \in Keys |-> Recent(remembered[k], now + 1, Window)]
    /\ UNCHANGED <<seeded, answer>>

Restart ==
    /\ remembered' = [k \in Keys |-> {}]
    /\ seeded' = {}
    /\ UNCHANGED <<now, answer>>

Next ==
    \/ \E k \in Keys, advice, current \in Replicas :
           GetDesiredReplicas(k, advice, current)
    \/ Tick
    \/ Restart

Spec == Init /\ [][Next]_vars
=============================================================================
