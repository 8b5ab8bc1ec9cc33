--------------------------- MODULE Recommendations ---------------------------
(***************************************************************************)
(* The timestamped recommendations that the simple replicator compares     *)
(* (plugins/replicator_simple).  Times are ticks of a clock, replicas are  *)
(* natural numbers.                                                        *)
(***************************************************************************)
EXTENDS Integers

\* timestampedRecommendation.
Recommendation(times, replicas) == [timestamp : times, replicas : replicas]

\* rec.timestamp.Before(cutoff) with cutoff = now - window.
IsOld(rec, now, window) == rec.timestamp < now - window

\* The recommendations that still take part in the maximum.
Recent(recs, now, window) == {rec \in recs : ~IsOld(rec, now, window)}

\* m is what the loop over the history leaves in maxRecommendation when it
\* starts from the newest recommendation.
IsMaxRecommendation(m, newest, recs, now, window) ==
    LET candidates == {newest} \cup {rec.replicas : rec \in Recent(recs, now, window)}
    IN  m \in candidates /\ \A c \in candidates : c <= m
=============================================================================
