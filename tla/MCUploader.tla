------------------------------- MODULE MCUploader -------------------------------
(***************************************************************************)
(* TLC instance: two commands at a time over two jobs, enough for one      *)
(* command to write or wait while another uploads or is killed.            *)
(***************************************************************************)
EXTENDS Uploader

CONSTANTS j1, j2, c1, c2

MCJobs == {j1, j2}
MCCommands == {c1, c2}
===============================================================================
