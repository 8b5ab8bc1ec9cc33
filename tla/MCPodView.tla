----------------------------- MODULE MCPodView -----------------------------
(***************************************************************************)
(* A small instance of PodView.                                            *)
(***************************************************************************)
EXTENDS PodView, TLC

\* All alike, and two that differ with a third that has a container without a request.
SomeRequests == [cpu    |-> "p1" :> 2 @@ "p2" :> 2 @@ "p3" :> 2,
                 memory |-> "p1" :> 4 @@ "p2" :> 1]

Half == [percent |-> TRUE, number |-> 50]
=============================================================================
