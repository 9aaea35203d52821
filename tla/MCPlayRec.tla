------------------------------- MODULE MCPlayRec -------------------------------
(***************************************************************************)
(* TLC instance of the capture: every combination of small lengths, with   *)
(* blocks that divide the capture and blocks that do not.                  *)
(***************************************************************************)
EXTENDS PlayRec

MCLens == 0..4
MCTails == 0..2
MCDelays == 0..3
MCTravels == 0..3
MCBlocks == 1..3
===============================================================================
