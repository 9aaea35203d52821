-------------------------------- MODULE JobQueue --------------------------------
(***************************************************************************)
(* What the SFTP server promises to whoever watches its directories:       *)
(* incoming/ -> processing/ -> recordings/ + done/ (or failed/).           *)
(* This is the abstract specification the chamber daemon implements, with  *)
(* no daemon, no local state and no faults in it.                          *)
(***************************************************************************)
CONSTANT Jobs

VARIABLES place,     \* the directory each source file is in
          answered   \* the jobs with a file in recordings/

vars == <<place, answered>>

Init ==
    /\ place = [j \in Jobs |-> "unsent"]
    /\ answered = {}

Move(j, from, to) == place[j] = from /\ place' = [place EXCEPT ![j] = to]

Submit(j) == Move(j, "unsent", "incoming") /\ UNCHANGED answered

Claim(j) == Move(j, "incoming", "processing") /\ UNCHANGED answered

\* A recording only ever appears while its source is being processed.
Answer(j) ==
    /\ place[j] = "processing"
    /\ answered' = answered \cup {j}
    /\ UNCHANGED place

\* A source is filed under done/ only with its recording in place.
Archive(j) ==
    /\ j \in answered
    /\ Move(j, "processing", "done")
    /\ UNCHANGED answered

Reject(j) == Move(j, "processing", "failed") /\ UNCHANGED answered

Next == \E j \in Jobs : \/ Submit(j) \/ Claim(j) \/ Answer(j)
                        \/ Archive(j) \/ Reject(j)

Spec == Init /\ [][Next]_vars
=================================================================================
