----------------------------- MODULE MCPowerTurn -----------------------------
(***************************************************************************)
(* Small instances of PowerTurn for TLC; the configurations choose the     *)
(* Controller and the bounds.  Interrupts are interchangeable, and so are  *)
(* results: the code never compares either with a constant.  TLC also      *)
(* evaluates the examples of MCContinuationCodec with these runs.          *)
(***************************************************************************)
EXTENDS PowerTurn, MCContinuationCodec, TLC

CONSTANTS i1, i2, i3, r1, r2

Interchangeable == Permutations(Interrupt) \cup Permutations(Result)
=============================================================================
