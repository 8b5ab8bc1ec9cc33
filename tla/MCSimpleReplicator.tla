------------------------- MODULE MCSimpleReplicator -------------------------
(***************************************************************************)
(* The simple replicator on a small instance.                              *)
(***************************************************************************)
EXTENDS SimpleReplicator
=============================================================================
