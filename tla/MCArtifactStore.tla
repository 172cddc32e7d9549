--------------------------- MODULE MCArtifactStore ---------------------------
(* A small instance of ArtifactStore for TLC. *)
EXTENDS ArtifactStore, TLC

CONSTANTS x, y, z,      \* artifact ids
          run1, run2

ThreeIds    == {x, y, z}
TwoRuns     == {run1, run2}
TwoVersions == {1, 2}
StoreSymmetry == Permutations(ThreeIds) \cup Permutations(TwoRuns)
=============================================================================
