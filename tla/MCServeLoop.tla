---------------------------- MODULE MCServeLoop ----------------------------
(* Model values for the ServeLoop runs. *)
EXTENDS ServeLoop, TLC

CONSTANTS j1, j2, j3, j4

TwoJobs == {j1, j2}
ThreeJobs == {j1, j2, j3}
FourJobs == {j1, j2, j3, j4}
AnyJob == Permutations(FourJobs)
=============================================================================
