--------------------------- MODULE MCTrainingRun ---------------------------
(* Instances of TrainingRun for TLC. *)
EXTENDS TrainingRun, TLC

CONSTANTS r1, r2

TwoRuns == {r1, r2}

\* Runs are interchangeable.
Symmetry == Permutations(TwoRuns)
=============================================================================
