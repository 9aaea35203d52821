-------------------------------- MODULE MCSystem --------------------------------
(***************************************************************************)
(* TLC instance: one user who gives one command after the other about one  *)
(* job, over every fault of the chamber and of the network.  The job can be*)
(* decoded and played; ChamberLiveness has one that cannot.                *)
(***************************************************************************)
EXTENDS System

CONSTANTS j1, c1

MCJobs == {j1}
MCNobody == {}
MCCommands == {c1}
=================================================================================
