------------------------------- MODULE Totals -------------------------------
(***************************************************************************)
(* The sum of natural numbers over a finite set of keys, as the number of  *)
(* units the keys have together.  A fold says the same, but nothing can be *)
(* proved of it: that would take an induction over the set.                *)
(***************************************************************************)
EXTENDS Integers, FiniteSets

\* As many pairs of a key as its number says.
Units(f, keys) == UNION {{k} \X (1..f[k]) : k \in keys}

Total(f, keys) == Cardinality(Units(f, keys))
=============================================================================
