--------------------------- MODULE MCMinifyServer ---------------------------
(* Instances of MinifyServer for TLC. *)
EXTENDS MinifyServer, TLC

CONSTANTS w1, w2

TwoWorkers == {w1, w2}

\* Workers are interchangeable; used by the runs of invariants only.
Symmetry == Permutations(TwoWorkers)
===============================================================================
