---------------------------- MODULE MCRunRegistry ----------------------------
(* A small instance of RunRegistry for TLC. *)
EXTENDS RunRegistry, TLC

CONSTANTS r1, r2, r3    \* run ids

ThreeRuns == {r1, r2, r3}
=============================================================================
