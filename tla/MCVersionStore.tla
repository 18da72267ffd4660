--------------------------- MODULE MCVersionStore ---------------------------
(* Instances of VersionStore for TLC. *)
EXTENDS VersionStore

CONSTANTS p1, p2, r1, r2, v1, v2

TwoProcs == {p1, p2}
OneRow == {r1}
TwoRows == {r1, r2}
TwoVersions == {v1, v2}

\* Processes, rows and version ids are interchangeable.
Symmetry2 == Permutations(TwoProcs) \cup Permutations(TwoRows) \cup Permutations(TwoVersions)
=============================================================================
