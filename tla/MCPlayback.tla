------------------------------- MODULE MCPlayback -------------------------------
(***************************************************************************)
(* TLC instance of the chamber daemon with the history of what it played:  *)
(* two good jobs, one uploaded as .wav.xz and one in the legacy .wav       *)
(* format, so that both transfer paths run and one job's failure falls     *)
(* into a loop that still has the other to serve, and a third job whose    *)
(* .xz does not decode.                                                    *)
(***************************************************************************)
EXTENDS Playback

CONSTANTS j1, j2, j3

MCJobs == {j1, j2, j3}
MCXzJobs == {j1, j3}
MCBadStream == {j3}
MCNobody == {}
=================================================================================
