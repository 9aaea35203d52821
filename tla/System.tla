--------------------------------- MODULE System ---------------------------------
(***************************************************************************)
(* The whole system: the chamber daemon of ChamberClient and the commands  *)
(* of Uploader, over the one server they share.  What either sees of the   *)
(* other is the directories; a submission is the uploader's rename.        *)
(*                                                                         *)
(* Uploader was written against JobQueue.  Here the chamber is the real    *)
(* one, with its table, local files, faults and restarts, and the commands *)
(* must not be able to tell (ImplementsUser).                              *)
(***************************************************************************)
EXTENDS ChamberProperties

CONSTANTS Commands,       \* processes that run uploader commands
          Empty, Garbled  \* states of the record of the last upload

ASSUME CommandNamesOK ==
    Jobs \cap {NoJob, Empty, Garbled} = {} /\ Empty # Garbled

VARIABLES lastJob, pc, sending, wanted, deadline, report

commands   == <<lastJob, pc, sending, wanted, deadline, report>>
systemVars == <<vars, commands>>

User == INSTANCE Uploader
          WITH place <- source,
               answered <- {j \in Jobs : result[j] # "none"}

SystemInit == Init /\ User!Init

ChamberStep == (Daemon \/ Crash \/ LoseDb) /\ UNCHANGED commands

\* The rename into incoming/, the one step both parts take together.
Submission(c) ==
    /\ pc[c] = "rename"
    /\ \E j \in Jobs : j = wanted[c] /\ Submit(j)
    /\ User!Rename(c) \/ User!RenameReplyLost(c)

\* What a command does without writing to the queue: it reads the directories
\* and keeps its own record.
CommandWork(c) == UNCHANGED vars /\ User!Work(c)
Reconnect(c)   == UNCHANGED vars /\ User!Connect(c)
CommandInput(c) ==
    /\ UNCHANGED vars
    /\ \/ User!Enter(c) \/ User!Expire(c) \/ User!Interrupt(c)
       \/ User!UploadFails(c) \/ User!PollFails(c)

SystemNext ==
    \/ ChamberStep
    \/ \E c \in Commands : \/ Submission(c) \/ CommandWork(c)
                           \/ Reconnect(c) \/ CommandInput(c)

SystemSpec == SystemInit /\ [][SystemNext]_systemVars

\* The fairness of the parts: the daemon is restarted and its calls end, it and
\* the commands get a connection again and again, a command goes on.
SystemFairSpec ==
    /\ SystemSpec
    /\ WF_systemVars(ChamberStep /\ Daemon)
    /\ SF_systemVars(ChamberStep /\ Connect)
    /\ \A c \in Commands :
          WF_systemVars(CommandWork(c)) /\ SF_systemVars(Reconnect(c))

-------------------------------------------------------------------------------
\* Refinement: to the commands the daemon is the chamber of Uploader, whatever
\* it retries, loses or is killed at.
ImplementsUser == User!Spec

\* End to end, whoever is told that a job failed, and whose file can be decoded
\* and played, was not given up lightly: as many things went wrong as the job
\* has attempts.  It ties a report (_wait_and_report) to the retry budget
\* (_fail_or_retry) across failed/, two processes and a lost table.
FailedOnlyForCause ==
    \A c \in Commands :
        report[c] = "failed" /\ wanted[c] \in Jobs \ (Undecodable \cup Unplayable)
            => faults >= MaxRetries

\* End to end, what "send" and "download" save is a whole response: not the torn
\* half of a transfer, whatever broke off or was published again before, and one
\* that sf.write did not finish only after something went wrong.  It ties a
\* report to where the recording comes from (_record_pending), across a put, a
\* rename, two processes and a lost table.
SavedIsWhole ==
    \A c \in Commands : report[c] = "saved" =>
        \/ result[wanted[c]] = "full"
        \/ result[wanted[c]] = "short" /\ faults > 0

\* End to end, nobody waits for ever for a job that was submitted, with or
\* without a time-out, over kills, retries, lost replies and a lost table.  The
\* wait may also end in an error, when a poll raises after connecting.
WaitsEnd ==
    \A c \in Commands :
        pc[c] \in User!Waiting /\ source[wanted[c]] # "unsent" ~> pc[c] = "over"
=================================================================================
