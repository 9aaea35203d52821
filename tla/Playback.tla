-------------------------------- MODULE Playback --------------------------------
(***************************************************************************)
(* What is heard in the chamber.  The loudspeaker is the one effect of the *)
(* daemon that no restart can look up and no retry take back, so it is     *)
(* kept in a history variable: how often play_and_record was called for    *)
(* each job.  No step of the daemon reads it.                              *)
(***************************************************************************)
EXTENDS ChamberProperties

VARIABLE plays

playbackVars == <<vars, plays>>

PlaybackInit == Init /\ plays = [j \in Jobs |-> 0]

\* play_and_record is called for job j.  A call that raises counts: it may
\* have played all of the file.
Sounds(j) == job = j /\ Play

PlaybackNext ==
    /\ Next
    /\ plays' = [j \in Jobs |-> IF Sounds(j) THEN plays[j] + 1 ELSE plays[j]]

PlaybackSpec == PlaybackInit /\ [][PlaybackNext]_playbackVars

-------------------------------------------------------------------------------
\* Nobody hears a job twice without a reason: over retries, kills, failed
\* uploads, a sweep and a table rebuilt from processing/, a job that a device
\* can play is played at most once more than something went wrong.
PlaysArePaid ==
    \A j \in Jobs \ Unplayable : plays[j] <= 1 + faults
=================================================================================
