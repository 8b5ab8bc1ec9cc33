---------------------------- MODULE MCReconciler ----------------------------
(***************************************************************************)
(* Small instances of Reconciler.                                          *)
(***************************************************************************)
EXTENDS Reconciler

Plain == [min |-> 1, max |-> 3, strategy |-> Nil, metric |-> "known",
          replicator |-> "known", exhaust |-> FALSE]
Static == [Plain EXCEPT !.min = Nil, !.max = 2, !.exhaust = TRUE]
Panicking == [Plain EXCEPT !.strategy = [threshold |-> 150, window |-> 2]]
NoScaler == [Plain EXCEPT !.metric = "unknown", !.exhaust = TRUE]
NoReplicator == [Plain EXCEPT !.replicator = "unknown"]

\* Every kind of spec that needs no panic mode.
CalmSpecs == {Plain, Static, NoScaler, NoReplicator}
PlainSpecs == {Plain}
PanicSpecs == {Panicking}
NoScalerSpecs == {NoScaler}
ScalingSpecs == {Panicking, [Plain EXCEPT !.min = 2]}

\* A patch that ends and is purged, one without a timezone that is purged as
\* well, a tick later, but never works, and a daily one.
ThreePatches == <<
    [form |-> "date", start |-> 0, end |-> 1, retention |-> 0, min |-> 2, max |-> 2],
    [form |-> "zoneless", start |-> 0, end |-> 1, retention |-> 1, min |-> 4, max |-> 4],
    [form |-> "cron", start |-> 1, end |-> 3, retention |-> 0, min |-> 1, max |-> 1]>>
AllThree == {{1, 2, 3}}
SomePatches == {{1}, {1, 3}}
\* The daily patch, or text that does not parse.
DailyOrGarbled == {{3}, Garbled}
NoPatches == <<>>
NoAnnotation == {{}}
=============================================================================
