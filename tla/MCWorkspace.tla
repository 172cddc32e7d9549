---------------------------- MODULE MCWorkspace ----------------------------
(* Workspace on a small instance. *)
EXTENDS Workspace, TLC

CONSTANTS r1, r2        \* run ids

TwoRuns        == {r1, r2}
TwoFiles       == {"artifacts", "journal"}
AllConnections == (TwoRuns \cup {Server}) \X TwoFiles
Servers        == {Server} \X TwoFiles
FileOfAll      == [c \in AllConnections |-> c[2]]
AllRows        == TwoRuns \X (1..2)

\* The first run may meet an id of its own again, and the second what that leaves.
Saves          == r1 :> 2 @@ r2 :> 1
=============================================================================
