-------------------------------- MODULE Uploader --------------------------------
(***************************************************************************)
(* uploader/upload_job.py: the commands "upload", "send" and "download" a  *)
(* user runs, several at a time, from one configuration directory, against *)
(* the queue the chamber implements (JobQueue).                            *)
(*                                                                         *)
(* The commands share the server and .uploader_last_job.json, the record   *)
(* of the last upload.  A job id is drawn at random for each upload.  The  *)
(* remote calls of a poll are steps of their own, so that the chamber and  *)
(* other commands act between them.                                        *)
(***************************************************************************)
EXTENDS Naturals

CONSTANTS Jobs,      \* job ids
          Commands,  \* processes that run a command, one after the other
          NoJob,     \* no record yet; no job asked for
          Empty,     \* the record has been truncated and not yet written
          Garbled    \* a shorter record over the head of a longer one

ASSUME NamesOK == Jobs \cap {NoJob, Empty, Garbled} = {} /\ Empty # Garbled

VARIABLES
    place, answered,  \* the server, see JobQueue
    lastJob,          \* .uploader_last_job.json
    pc,               \* where each command stands; "over" between two of them
    sending,          \* the commands that will wait for what they upload
    wanted,           \* the job each command handles
    deadline,         \* "never", "ahead" or "past"
    report            \* how the last command ended

server == <<place, answered>>
vars   == <<server, lastJob, pc, sending, wanted, deadline, report>>

Queue == INSTANCE JobQueue

Uploading == {"rename", "record", "write"}
Waiting   == {"head", "look", "lookFailed"}
Told      == {"uploaded", "saved", "failed"}  \* of the job
Report    == Told \cup {"none", "error"}

Init ==
    /\ Queue!Init
    /\ lastJob = NoJob
    /\ pc = [c \in Commands |-> "over"]
    /\ sending = {}
    /\ wanted = [c \in Commands |-> NoJob]
    /\ deadline = [c \in Commands |-> "never"]
    /\ report = [c \in Commands |-> "none"]

Goto(c, from, to) == pc[c] = from /\ pc' = [pc EXCEPT ![c] = to]

\* The command ends and reports r, of a job where there is something to say.
End(c, r) ==
    /\ pc' = [pc EXCEPT ![c] = "over"]
    /\ report' = [report EXCEPT ![c] = r]
    /\ wanted' = [wanted EXCEPT ![c] = IF r \in Told THEN wanted[c] ELSE NoJob]
    /\ deadline' = [deadline EXCEPT ![c] = "never"]
    /\ sending' = sending \ {c}

(* The command line *)

\* deadline = ... if timeout else None: 0 is no time-out.
Deadline(timeout) == IF timeout = 0 THEN "never" ELSE "ahead"

Start(c, to, j, timeout) ==
    /\ Goto(c, "over", to)
    /\ wanted' = [wanted EXCEPT ![c] = j]
    /\ deadline' = [deadline EXCEPT ![c] = timeout]
    /\ report' = [report EXCEPT ![c] = "none"]
    /\ UNCHANGED server

Unused(j) == place[j] = "unsent" /\ \A c \in Commands : wanted[c] # j

\* Mutant of Upload: the upload is recorded before it has happened.
UploadRecorded(c, j) ==
    /\ Unused(j)
    /\ Start(c, "rename", j, "never")
    /\ lastJob' = j
    /\ UNCHANGED sending

\* "upload" and "send" draw a fresh id, connect, compress and put the file under
\* its .part name, where nobody looks for it.
Upload(c, j) ==
    /\ Unused(j)
    /\ Start(c, "rename", j, "never")
    /\ UNCHANGED <<lastJob, sending>>

Send(c, j, timeout) ==
    /\ Unused(j)
    /\ Start(c, "rename", j, Deadline(timeout))
    /\ sending' = sending \cup {c}
    /\ UNCHANGED lastJob

\* "download --job-id j --name ..."
DownloadJob(c, j, timeout) ==
    /\ Start(c, "head", j, Deadline(timeout))
    /\ UNCHANGED <<lastJob, sending>>

\* Mutant of LoadLastJob: what is in the record is not looked at.
LoadUnchecked(asked) == asked \in {NoJob, lastJob}

\* _load_last_job: there is a record, it parses, and it is of the job asked for.
LoadLastJob(asked) == lastJob \in Jobs /\ asked \in {NoJob, lastJob}

\* "download", with --job-id or without.
Download(c, asked, timeout) ==
    IF LoadLastJob(asked)
    THEN /\ Start(c, "head", lastJob, Deadline(timeout))
         /\ UNCHANGED <<lastJob, sending>>
    ELSE /\ pc[c] = "over"
         /\ End(c, "error")
         /\ UNCHANGED <<server, lastJob>>

(* upload *)

Rename(c) ==
    /\ Goto(c, "rename", "record")
    /\ Queue!Submit(wanted[c])
    /\ UNCHANGED <<lastJob, sending, wanted, deadline, report>>

\* The server renames, but its reply does not arrive.
RenameReplyLost(c) ==
    /\ pc[c] = "rename"
    /\ Queue!Submit(wanted[c])
    /\ End(c, "error")
    /\ UNCHANGED lastJob

UploadFails(c) ==
    /\ pc[c] = "rename"
    /\ End(c, "error")
    /\ UNCHANGED <<server, lastJob>>

\* _save_last_job: write_text truncates the file and then writes it.
Truncate(c) ==
    /\ Goto(c, "record", "write")
    /\ lastJob' = Empty
    /\ UNCHANGED <<server, sending, wanted, deadline, report>>

Write(c) ==
    /\ pc[c] = "write"
    /\ \/ lastJob' = wanted[c]
       \/ lastJob # Empty /\ lastJob' = Garbled  \* another wrote in between
    /\ IF c \in sending
       THEN Goto(c, "write", "head") /\ UNCHANGED <<sending, wanted, deadline, report>>
       ELSE End(c, "uploaded")
    /\ UNCHANGED server

(* wait_for_recording *)

Stay(c) == UNCHANGED <<server, lastJob, sending, wanted, deadline, report>>

TimeOut(c) ==
    /\ pc[c] = "head" /\ deadline[c] = "past"
    /\ End(c, "error")
    /\ UNCHANGED <<server, lastJob>>

\* Mutant of Connect: a time-out that is never compared with the clock.
ConnectAnyTime(c) == Goto(c, "head", "look") /\ Stay(c)

\* A fresh connection for every round.  One that fails changes nothing: after a
\* sleep the command is again at the head of the loop.
Connect(c) == Goto(c, "head", "look") /\ deadline[c] # "past" /\ Stay(c)

\* A recording is there, under either name; download_audio publishes the whole
\* file or raises (PollFails).
Fetch(c) ==
    /\ pc[c] = "look" /\ wanted[c] \in answered
    /\ End(c, "saved")
    /\ UNCHANGED <<server, lastJob>>

NotYet(c) ==
    Goto(c, "look", "lookFailed") /\ wanted[c] \notin answered /\ Stay(c)

\* Mutants of ShowsFailure: a source that left the queue; nobody looks.
ShowsAnyEnd(j) == place[j] \in {"done", "failed"}

NeverShows(j) == FALSE

\* any(client.exists(failed/...))
ShowsFailure(j) == place[j] = "failed"

SeesFailure(c) ==
    /\ pc[c] = "lookFailed" /\ ShowsFailure(wanted[c])
    /\ End(c, "failed")
    /\ UNCHANGED <<server, lastJob>>

\* close, sleep, and round again.
NoFailure(c) ==
    Goto(c, "lookFailed", "head") /\ ~ShowsFailure(wanted[c]) /\ Stay(c)

\* A stat or the download raises; _wait_and_report prints it and returns 1.
PollFails(c) ==
    /\ pc[c] \in {"look", "lookFailed"}
    /\ End(c, "error")
    /\ UNCHANGED <<server, lastJob>>

(* The user, the clock and the chamber *)

\* Ctrl+C or a kill, at any point; nothing is said of the job.
Interrupt(c) ==
    /\ pc[c] # "over"
    /\ End(c, "none")
    /\ UNCHANGED <<server, lastJob>>

Expire(c) ==
    /\ pc[c] \in Waiting /\ deadline[c] = "ahead"
    /\ deadline' = [deadline EXCEPT ![c] = "past"]
    /\ UNCHANGED <<server, lastJob, pc, sending, wanted, report>>

Chamber ==
    /\ \E j \in Jobs : \/ Queue!Claim(j) \/ Queue!Answer(j)
                       \/ Queue!Archive(j) \/ Queue!Reject(j)
    /\ UNCHANGED <<lastJob, pc, sending, wanted, deadline, report>>

\* What a command does by itself; the rest is up to the network or the user.
Work(c) ==
    \/ Rename(c) \/ Truncate(c) \/ Write(c) \/ TimeOut(c)
    \/ Fetch(c) \/ NotYet(c) \/ SeesFailure(c) \/ NoFailure(c)

Enter(c) ==
    \/ \E j \in Jobs : Upload(c, j)
    \/ \E timeout \in {0, 1} :
          \/ \E j \in Jobs : Send(c, j, timeout) \/ DownloadJob(c, j, timeout)
          \/ \E asked \in Jobs \cup {NoJob} : Download(c, asked, timeout)

Next ==
    \/ \E c \in Commands : \/ Work(c) \/ Connect(c) \/ Enter(c) \/ Expire(c) \/ Interrupt(c)
                           \/ RenameReplyLost(c) \/ UploadFails(c) \/ PollFails(c)
    \/ Chamber

Spec == Init /\ [][Next]_vars

\* Calls return or raise, and time passes.  Nothing says that the server is ever
\* reached.
FairSpec == Spec /\ \A c \in Commands : WF_vars(Work(c)) /\ WF_vars(Expire(c))

-------------------------------------------------------------------------------
\* Every variable keeps its type, and no command handles what is not a job.
TypeOK ==
    /\ place \in [Jobs -> {"unsent", "incoming", "processing", "done", "failed"}]
    /\ answered \subseteq Jobs
    /\ lastJob \in Jobs \cup {NoJob, Empty, Garbled}
    /\ pc \in [Commands -> {"over"} \cup Uploading \cup Waiting]
    /\ sending \subseteq Commands
    /\ wanted \in [Commands -> Jobs \cup {NoJob}]
    /\ deadline \in [Commands -> {"never", "ahead", "past"}]
    /\ report \in [Commands -> Report]
    /\ \A c \in Commands :
          pc[c] # "over" \/ report[c] \in Told => wanted[c] \in Jobs

\* What a command reports is so, although it looked at the server's directories
\* one after the other while the chamber moved files between them: a recording
\* for "saved", a source in failed/ for "failed", a submitted job for "uploaded".
ReportIsTrue ==
    \A c \in Commands :
        /\ report[c] = "saved" => wanted[c] \in answered
        /\ report[c] = "failed" => place[wanted[c]] = "failed"
        /\ report[c] = "uploaded" => place[wanted[c]] # "unsent"

\* The record never names a job that was not submitted, whoever was killed or
\* wrote over whom: "download" does not wait for a job that does not exist.
RecordIsSubmitted == lastJob \in Jobs => place[lastJob] # "unsent"

\* A wait with a time-out ends even if the server is never reached again: every
\* way round the loop passes the deadline.
TimedWaitEnds ==
    \A c \in Commands :
        pc[c] \in Waiting /\ deadline[c] # "never" ~> pc[c] = "over"

\* A wait whose job is answered or failed ends too, unless it never gets a
\* connection again: no round goes by that misses the outcome.
OutcomeEndsWait ==
    \A c \in Commands :
        pc[c] \in Waiting /\ (wanted[c] \in answered \/ place[wanted[c]] = "failed")
            ~> pc[c] = "over" \/ [](pc[c] = "head")
===============================================================================
