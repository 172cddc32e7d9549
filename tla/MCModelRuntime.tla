--------------------------- MODULE MCModelRuntime ---------------------------
(* ModelRuntime on a small instance: the two ends of the pipeline. *)
EXTENDS ModelRuntime, TLC

TwoAgents == <<"analyst", "reviewer">>
Rounds    == [analyst |-> 2, reviewer |-> 2]
OneOrTwo  == [analyst |-> 1, reviewer |-> 2]
=============================================================================
