----------------------------- MODULE MCProcess -----------------------------
(***************************************************************************)
(* A small instance of Process.                                            *)
(***************************************************************************)
EXTENDS Process, TLC

ThreePlugins == <<"simple", "cpu", "prometheus">>

Complete == [p \in {"simple", "cpu", "prometheus"} |-> "valid"]

File(plugins) == [readable |-> TRUE, plugins |-> plugins]

\* Nothing to read, all there, one plugin left out, one refused.
SomeFiles == {[readable |-> FALSE, plugins |-> Complete], File(Complete),
              File([p \in {"simple", "cpu"} |-> "valid"]),
              File([Complete EXCEPT !["cpu"] = "refused"])}
=============================================================================
