------------------------- MODULE MCBlueGreenDeploy -------------------------
(***************************************************************************)
(* Two threads and a few containers; both are interchangeable.             *)
(***************************************************************************)
EXTENDS BlueGreenDeploy, TLC

CONSTANTS c1, c2, c3, q1, q2

Interchangeable == Permutations(Container) \cup Permutations(Request)
=============================================================================
