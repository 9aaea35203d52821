------------------------------- MODULE MCChamber -------------------------------
(***************************************************************************)
(* TLC instances of the chamber daemon.  Two jobs, one uploaded as .wav.xz *)
(* and one in the legacy .wav format, so that both transfer paths run and  *)
(* one job's failure falls into a loop that still has the other to serve;  *)
(* the second may be one that cannot be played.                            *)
(***************************************************************************)
EXTENDS ChamberProperties

CONSTANTS j1, j2

MCJobs == {j1, j2}
MCXzJobs == {j1}
MCNobody == {}
MCBadAudio == {j2}    \* it decodes, but no device plays it
===============================================================================
