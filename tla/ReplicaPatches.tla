--------------------------- MODULE ReplicaPatches ---------------------------
(***************************************************************************)
(* Replica patches: the annotation of a ReplicaAutoscaler that overrides   *)
(* its limits for a while (utils/replicapatche.go, core/scheduling and     *)
(* utils/timerange).  The annotation is a JSON list; here it is the set of *)
(* the positions, in PatchTable, of the patches it lists, in that order,   *)
(* or Garbled when it does not parse.  No annotation is the empty set.     *)
(***************************************************************************)
EXTENDS TimeRanges, Sequences

CONSTANTS PatchTable,   \* the patches annotations are made of
          Day           \* ticks between two occurrences of a daily cron time

\* A nil retentionSeconds counts as 0.  The form of a patch says which parsers accept it:
\*   date      both ends are dates, the first before the second
\*   cron      both ends are daily cron times, not the same one
\*   zoneless  two dates without a timezone: time.LoadLocation accepts "",
\*             GetReplicaPatch does not
\*   broken    nothing parses it
PatchForms == {"date", "cron", "zoneless", "broken"}

ReplicaPatch == [form : PatchForms, start : Nat, end : Nat, retention : Int,
                 min : Nat, max : Nat]

ASSUME DayAssumption == Day \in Nat \ {0}
ASSUME PatchAssumption == PatchTable \in Seq(ReplicaPatch)

\* The annotations that parse, and one that json.Unmarshal refuses.
Patches == SUBSET DOMAIN PatchTable
Garbled == {0}

\* A cron patch has one daily firing for each end.
Contains(p, when) ==
    \/ p.form = "date" /\ DateContains(p.start, p.end, when)
    \/ p.form = "cron" /\ CronContains({p.start}, {p.end}, Day, when)

\* GetReplicaPatch gives up with an error on the first patch it cannot use.
Unusable(p) == p.form \in {"zoneless", "broken"}

\* GetReplicaPatch: the first listed patch that contains the time, unless an
\* unusable one is listed before it.  The set has at most one element.
GetReplicaPatch(when, patches) ==
    {i \in patches :
        /\ Contains(PatchTable[i], when)
        /\ \A j \in patches :
              j < i => ~Contains(PatchTable[j], when) /\ ~Unusable(PatchTable[j])}

\* getWorkingReplicaPatch; an error falls back to the limits of the spec.
WorkingReplicaPatch(when, annotation) ==
    IF annotation = Garbled THEN {} ELSE GetReplicaPatch(when, annotation)

ExpiredTime(p) == p.end + p.retention

Expired(p, when) == p.form \in {"date", "zoneless"} /\ when > ExpiredTime(p)

\* Mutant: a patch is purged at its expiry, not after it.
PurgeAtExpiry(annotation, when) ==
    IF annotation = Garbled THEN Garbled
    ELSE {i \in annotation :
             ~(PatchTable[i].form \in {"date", "zoneless"}
               /\ when >= ExpiredTime(PatchTable[i]))}

\* The patches that are kept; an annotation that does not parse is left alone.
PurgeUnusedReplicaPatches(annotation, when) ==
    IF annotation = Garbled THEN Garbled
    ELSE {i \in annotation : ~Expired(PatchTable[i], when)}
=============================================================================
