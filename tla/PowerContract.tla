---------------------------- MODULE PowerContract ----------------------------
(***************************************************************************)
(* What a Team promises about the Powers its Brain asks for, without a     *)
(* journal, turns, pauses or crashes: a requested Power has its side       *)
(* effect at most once, and the Brain is told the result of that one run.  *)
(***************************************************************************)
EXTENDS Sequences

CONSTANTS
  Interrupt,   \* requests of the Brain
  Result,      \* results of Powers
  NoResult     \* the Brain was told nothing

VARIABLES
  produced,    \* the results each request produced
  told         \* the result the Brain was told last

vars == <<produced, told>>

Init ==
  /\ produced = [i \in Interrupt |-> << >>]
  /\ told = [i \in Interrupt |-> NoResult]

\* The one run of a Power.
Run(i, result) ==
  /\ produced[i] = << >>
  /\ produced' = [produced EXCEPT ![i] = <<result>>]
  /\ UNCHANGED told

\* The results of a batch are handed to the Brain together.
Tell(batch) ==
  /\ \A i \in batch : produced[i] # << >>
  /\ told' = [i \in Interrupt |-> IF i \in batch THEN produced[i][1] ELSE told[i]]
  /\ UNCHANGED produced

Next ==
  \/ \E i \in Interrupt, result \in Result : Run(i, result)
  \/ \E batch \in SUBSET Interrupt : Tell(batch)

Spec == Init /\ [][Next]_vars
=============================================================================
