----------------------------- MODULE UploaderProofs -----------------------------
(***************************************************************************)
(* The uploader's commands, for any number of jobs and of commands at a    *)
(* time: what they report is so, and the record of the last upload never   *)
(* names a job that was not submitted.                                     *)
(***************************************************************************)
EXTENDS Uploader, TLAPS

\* A command that is about to write the record has submitted its job.
Submitted ==
    \A c \in Commands :
        pc[c] \in {"record", "write"} => place[wanted[c]] # "unsent"

IInv == TypeOK /\ ReportIsTrue /\ RecordIsSubmitted /\ Submitted

\* What the server's directories keep, whoever moves a file.
Forward ==
    /\ \A j \in Jobs : /\ place[j] # "unsent" => place'[j] # "unsent"
                       /\ place[j] = "failed" => place'[j] = "failed"
    /\ answered \subseteq answered'
    /\ place' \in [Jobs -> {"unsent", "incoming", "processing", "done", "failed"}]
    /\ answered' \subseteq Jobs

\* No command has run yet.
LEMMA InvInit == Init => IInv
  BY NamesOK DEF Init, Queue!Init, IInv, TypeOK, ReportIsTrue, RecordIsSubmitted,
                 Submitted, Report, Told, Uploading, Waiting

\* An upload moves its own source on ...
LEMMA SubmitForward ==
    ASSUME TypeOK, NEW j \in Jobs, Queue!Submit(j)
    PROVE  Forward /\ place'[j] # "unsent"
  BY DEF TypeOK, Queue!Submit, Queue!Move, Forward

\* ... the chamber moves sources it has claimed ...
LEMMA ChamberForward == ASSUME TypeOK, Chamber PROVE Forward
  <1> PICK j \in Jobs : Queue!Claim(j) \/ Queue!Answer(j) \/ Queue!Archive(j)
                        \/ Queue!Reject(j)
    BY DEF Chamber
  <1> QED
    BY DEF TypeOK, Queue!Claim, Queue!Answer, Queue!Archive, Queue!Reject,
           Queue!Move, Forward

\* ... and other steps move none.
LEMMA StillForward == ASSUME TypeOK, UNCHANGED server PROVE Forward
  BY DEF TypeOK, server, Forward

\* The server moves on and no command does.
LEMMA OthersStep ==
    ASSUME IInv, Forward,
           UNCHANGED <<lastJob, pc, sending, wanted, report>>,
           deadline' \in [Commands -> {"never", "ahead", "past"}]
    PROVE  IInv'
  <1>1. TypeOK'
    BY DEF IInv, TypeOK, Forward
  <1>2. ReportIsTrue'
    BY DEF IInv, TypeOK, ReportIsTrue, Forward, Told
  <1>3. RecordIsSubmitted' /\ Submitted'
    BY DEF IInv, TypeOK, RecordIsSubmitted, Submitted, Forward, Uploading
  <1> QED
    BY <1>1, <1>2, <1>3 DEF IInv

\* What lastJob may become.
Record(r) ==
    /\ r \in Jobs \cup {NoJob, Empty, Garbled}
    /\ r \in Jobs => place[r] # "unsent"

\* A command goes on to another step of the same job.
LEMMA GotoStep ==
    ASSUME IInv, Forward, NEW c \in Commands, NEW from, NEW to \in Uploading \cup Waiting,
           from # "over", Goto(c, from, to),
           to \in {"record", "write"} => place'[wanted[c]] # "unsent",
           Record(lastJob'), UNCHANGED <<sending, wanted, deadline, report>>
    PROVE  IInv'
  <1>1. TypeOK /\ to # "over" /\ pc[c] # "over"
    BY DEF IInv, Goto, Uploading, Waiting
  <1>2. pc' = [pc EXCEPT ![c] = to]
    BY DEF Goto
  <1>3. TypeOK'
    BY <1>1, <1>2 DEF TypeOK, Forward, Record
  <1>4. ReportIsTrue'
    BY <1>1 DEF IInv, TypeOK, ReportIsTrue, Forward, Told
  <1>5. RecordIsSubmitted'
    BY DEF Record, RecordIsSubmitted, Forward
  <1>6. Submitted'
    BY <1>1, <1>2 DEF IInv, TypeOK, Submitted, Forward
  <1> QED
    BY <1>3, <1>4, <1>5, <1>6 DEF IInv

\* A command begins.
LEMMA StartStep ==
    ASSUME IInv, NEW c \in Commands, NEW to \in {"rename", "head"}, NEW j \in Jobs,
           NEW timeout \in {"never", "ahead"}, Start(c, to, j, timeout),
           sending' \subseteq Commands, lastJob' = lastJob
    PROVE  IInv'
  <1>1. TypeOK /\ place' = place /\ answered' = answered
    BY DEF IInv, Start, server
  <1>2. /\ pc' = [pc EXCEPT ![c] = to]
        /\ wanted' = [wanted EXCEPT ![c] = j]
        /\ deadline' = [deadline EXCEPT ![c] = timeout]
        /\ report' = [report EXCEPT ![c] = "none"]
    BY DEF Start, Goto
  <1>3. TypeOK'
    BY <1>1, <1>2 DEF TypeOK, Uploading, Waiting, Report, Told
  <1>4. ReportIsTrue'
    BY <1>1, <1>2 DEF IInv, TypeOK, ReportIsTrue
  <1>5. RecordIsSubmitted' /\ Submitted'
    BY <1>1, <1>2 DEF IInv, TypeOK, RecordIsSubmitted, Submitted
  <1> QED
    BY <1>3, <1>4, <1>5 DEF IInv

\* A command ends with a report that is so.
LEMMA EndStep ==
    ASSUME IInv, Forward, NEW c \in Commands, NEW r \in Report, End(c, r),
           r \in Told => wanted[c] \in Jobs,
           r = "saved" => wanted[c] \in answered,
           r = "failed" => place[wanted[c]] = "failed",
           r = "uploaded" => place[wanted[c]] # "unsent",
           Record(lastJob')
    PROVE  IInv'
  <1>1. TypeOK
    BY DEF IInv
  <1>2. /\ pc' = [pc EXCEPT ![c] = "over"]
        /\ wanted' = [wanted EXCEPT ![c] = IF r \in Told THEN wanted[c] ELSE NoJob]
        /\ deadline' = [deadline EXCEPT ![c] = "never"]
        /\ report' = [report EXCEPT ![c] = r]
        /\ sending' \subseteq Commands
    BY <1>1 DEF End, TypeOK
  <1>3. TypeOK'
    BY <1>1, <1>2 DEF TypeOK, Forward, Record
  <1>4. ReportIsTrue'
    <2> SUFFICES ASSUME NEW d \in Commands
                 PROVE  /\ report'[d] = "saved" => wanted'[d] \in answered'
                        /\ report'[d] = "failed" => place'[wanted'[d]] = "failed"
                        /\ report'[d] = "uploaded" => place'[wanted'[d]] # "unsent"
      BY DEF ReportIsTrue
    <2>1. CASE d = c
      BY <1>1, <1>2, <2>1 DEF TypeOK, Forward, Told
    <2>2. CASE d # c
      BY <1>1, <1>2, <2>2 DEF IInv, TypeOK, ReportIsTrue, Forward, Told
    <2> QED
      BY <2>1, <2>2
  <1>5. RecordIsSubmitted'
    BY DEF Record, RecordIsSubmitted, Forward
  <1>6. Submitted'
    BY <1>1, <1>2 DEF IInv, TypeOK, Submitted, Forward
  <1> QED
    BY <1>3, <1>4, <1>5, <1>6 DEF IInv

\* A record that is left alone stays good.
LEMMA RecordKept == ASSUME IInv, UNCHANGED lastJob PROVE Record(lastJob')
  BY DEF IInv, TypeOK, RecordIsSubmitted, Record

\* A command line that is typed keeps the invariant (main).
LEMMA EnterStep == ASSUME IInv, NEW c \in Commands, Enter(c) PROVE IInv'
  <1>1. TypeOK /\ \A timeout \in {0, 1} : Deadline(timeout) \in {"never", "ahead"}
    BY DEF IInv, Deadline
  <1>2. ASSUME NEW j \in Jobs, Upload(c, j) PROVE IInv'
    BY <1>1, <1>2, StartStep DEF Upload, TypeOK
  <1>3. ASSUME NEW j \in Jobs, NEW timeout \in {0, 1},
               Send(c, j, timeout) \/ DownloadJob(c, j, timeout)
        PROVE  IInv'
    BY <1>1, <1>3, StartStep DEF Send, DownloadJob, TypeOK
  <1>4. ASSUME NEW asked \in Jobs \cup {NoJob}, NEW timeout \in {0, 1},
               Download(c, asked, timeout)
        PROVE  IInv'
    <2>1. CASE LoadLastJob(asked)
      BY <1>1, <1>4, <2>1, StartStep DEF Download, LoadLastJob, TypeOK
    <2>2. CASE ~LoadLastJob(asked)
      <3>1. End(c, "error") /\ UNCHANGED <<server, lastJob>>
        BY <1>4, <2>2 DEF Download
      <3> QED
        BY <1>1, <3>1, EndStep, RecordKept, StillForward DEF Report, Told
    <2> QED
      BY <2>1, <2>2
  <1> QED
    BY <1>2, <1>3, <1>4 DEF Enter

\* So does every step of an upload, failing ones included (upload,
\* _save_last_job) ...
LEMMA UploadStep ==
    ASSUME IInv, NEW c \in Commands,
           Rename(c) \/ RenameReplyLost(c) \/ UploadFails(c) \/ Truncate(c) \/ Write(c)
    PROVE  IInv'
  <1>1. TypeOK
    BY DEF IInv
  <1>2. CASE Rename(c)
    <2>1. pc[c] = "rename" /\ wanted[c] \in Jobs
      BY <1>1, <1>2 DEF Rename, Goto, TypeOK
    <2>2. Forward /\ place'[wanted[c]] # "unsent"
      BY <1>1, <1>2, <2>1, SubmitForward DEF Rename
    <2> QED
      BY <1>2, <2>1, <2>2, GotoStep, RecordKept DEF Rename, Uploading
  <1>3. CASE RenameReplyLost(c)
    <2>1. pc[c] = "rename" /\ wanted[c] \in Jobs
      BY <1>1, <1>3 DEF RenameReplyLost, TypeOK
    <2>2. Forward
      BY <1>1, <1>3, <2>1, SubmitForward DEF RenameReplyLost
    <2> QED
      BY <1>3, <2>2, EndStep, RecordKept DEF RenameReplyLost, Report, Told
  <1>4. CASE UploadFails(c)
    BY <1>1, <1>4, EndStep, RecordKept, StillForward DEF UploadFails, Report, Told
  <1>5. CASE Truncate(c)
    <2>1. Record(lastJob') /\ place[wanted[c]] # "unsent" /\ place' = place
      BY <1>5, NamesOK DEF IInv, Submitted, Truncate, Goto, Record, server
    <2> QED
      BY <1>1, <1>5, <2>1, GotoStep, StillForward DEF Truncate, Uploading
  <1>6. CASE Write(c)
    <2>1. pc[c] = "write" /\ wanted[c] \in Jobs /\ place[wanted[c]] # "unsent"
      BY <1>1, <1>6 DEF IInv, TypeOK, Submitted, Write
    <2>2. Record(lastJob') /\ Forward
      BY <1>1, <1>6, <2>1, NamesOK, StillForward DEF Write, Record
    <2>3. CASE c \in sending
      BY <1>6, <2>1, <2>2, <2>3, GotoStep DEF Write, Waiting
    <2>4. CASE c \notin sending
      BY <1>6, <2>1, <2>2, <2>4, EndStep DEF Write, Report, Told
    <2> QED
      BY <2>3, <2>4
  <1> QED
    BY <1>2, <1>3, <1>4, <1>5, <1>6

\* ... and every step of a wait (wait_for_recording, _wait_and_report).
LEMMA WaitStep ==
    ASSUME IInv, NEW c \in Commands,
           \/ TimeOut(c) \/ Connect(c) \/ Fetch(c) \/ NotYet(c)
           \/ SeesFailure(c) \/ NoFailure(c) \/ PollFails(c) \/ Interrupt(c)
    PROVE  IInv'
  <1>1. TypeOK /\ Forward /\ Record(lastJob')
    BY StillForward, RecordKept DEF IInv, TimeOut, Connect, Fetch, NotYet, SeesFailure,
       NoFailure, PollFails, Interrupt, Stay
  <1>2. CASE Connect(c) \/ NotYet(c) \/ NoFailure(c)
    BY <1>1, <1>2, GotoStep DEF Connect, NotYet, NoFailure, Stay, Waiting
  <1>3. CASE TimeOut(c) \/ PollFails(c) \/ Interrupt(c)
    BY <1>1, <1>3, EndStep DEF TimeOut, PollFails, Interrupt, Report, Told
  <1>4. CASE Fetch(c)
    BY <1>1, <1>4, EndStep DEF Fetch, TypeOK, Report, Told
  <1>5. CASE SeesFailure(c)
    BY <1>1, <1>5, EndStep DEF SeesFailure, ShowsFailure, TypeOK, Report, Told
  <1> QED
    BY <1>2, <1>3, <1>4, <1>5

\* The invariant the theorems below are read off.
THEOREM UploaderInvariance == Spec => []IInv
  <1>1. ASSUME IInv, [Next]_vars PROVE IInv'
    <2>0. TypeOK
      BY <1>1 DEF IInv
    <2>1. ASSUME NEW c \in Commands, Work(c) \/ Connect(c) PROVE IInv'
      BY <1>1, <2>1, UploadStep, WaitStep DEF Work
    <2>2. ASSUME NEW c \in Commands, Enter(c) PROVE IInv'
      BY <1>1, <2>2, EnterStep
    <2>3. ASSUME NEW c \in Commands, Expire(c) PROVE IInv'
      BY <1>1, <2>0, <2>3, OthersStep, StillForward DEF Expire, TypeOK
    <2>4. ASSUME NEW c \in Commands,
                 \/ Interrupt(c) \/ RenameReplyLost(c)
                 \/ UploadFails(c) \/ PollFails(c)
          PROVE  IInv'
      BY <1>1, <2>4, UploadStep, WaitStep
    <2>5. CASE Chamber
      BY <1>1, <2>0, <2>5, OthersStep, ChamberForward DEF Chamber, TypeOK
    <2>6. CASE UNCHANGED vars
      BY <1>1, <2>0, <2>6, OthersStep, StillForward DEF vars, TypeOK
    <2> QED
      BY <1>1, <2>1, <2>2, <2>3, <2>4, <2>5, <2>6 DEF Next
  <1> QED
    BY <1>1, InvInit, PTL DEF Spec

\* Every variable keeps its type and no command handles what is not a job, for
\* any number of commands that share one configuration directory.
THEOREM UploaderTypeCorrect == Spec => []TypeOK
  <1>1. IInv => TypeOK
    BY DEF IInv
  <1> QED
    BY <1>1, UploaderInvariance, PTL

\* What "upload", "send" and "download" report is so, although they look at the
\* server's directories one after the other while files move.
THEOREM ReportsAreTrue == Spec => []ReportIsTrue
  <1>1. IInv => ReportIsTrue
    BY DEF IInv
  <1> QED
    BY <1>1, UploaderInvariance, PTL

\* .uploader_last_job.json never names a job that was not submitted.
THEOREM RecordsAreOfSubmitted == Spec => []RecordIsSubmitted
  <1>1. IInv => RecordIsSubmitted
    BY DEF IInv
  <1> QED
    BY <1>1, UploaderInvariance, PTL
===============================================================================
