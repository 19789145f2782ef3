--------------------------- MODULE MCPowerJournal ---------------------------
(***************************************************************************)
(* A small journal for TLC: three Team generations compete for two rows,   *)
(* and each of two interrupts may come with either of two fingerprints.    *)
(***************************************************************************)
EXTENDS PowerJournal, TLC

CONSTANTS g1, g2, g3, a1, a2, b1, b2, r1, r2

MCOperation == {a1, a2, b1, b2}
MCInterruptOf == a1 :> "a" @@ a2 :> "a" @@ b1 :> "b" @@ b2 :> "b"
Generations == Permutations({g1, g2, g3})

=============================================================================
