---------------------------- MODULE MCHostedChat ----------------------------
(***************************************************************************)
(* Two threads that send messages and answers and one that stops, over one *)
(* Team whose stores another Team may fill.  The threads are               *)
(* interchangeable.                                                        *)
(***************************************************************************)
EXTENDS HostedChat, TLC

CONSTANTS r1, r2, imageA

Interchangeable == Permutations(Request)
=============================================================================
