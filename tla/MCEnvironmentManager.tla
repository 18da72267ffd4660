------------------------ MODULE MCEnvironmentManager ------------------------
(* Instances of EnvironmentManager for TLC. *)
EXTENDS EnvironmentManager, TLC

CONSTANTS p1, p2, a, b

TwoProcs == {p1, p2}
TwoContents == {a, b}
AllOperations == {"create", "recreate", "remove", "health", "plan", "run"}

\* Processes, and package sets, are interchangeable.
Symmetry == Permutations(TwoProcs) \cup Permutations(TwoContents)
=============================================================================
