------------------------------ MODULE SystemProofs ------------------------------
(***************************************************************************)
(* Proofs about the composed system, for every set of jobs and commands,   *)
(* every retry budget and every bound on faults.  They combine what        *)
(* ChamberProofs and UploaderProofs show of the parts.                     *)
(***************************************************************************)
EXTENDS System, ChamberProofs

-------------------------------------------------------------------------------
\* Seen from its own stores, each step of the system is one of the daemon, one
\* of its environment, or none.
LEMMA ChamberView == [SystemNext]_systemVars => [Next]_vars
<1> SUFFICES ASSUME [SystemNext]_systemVars PROVE [Next]_vars
    OBVIOUS
<1>1. CASE ChamberStep
    BY <1>1 DEF ChamberStep, Next
<1>2. ASSUME NEW c \in Commands, Submission(c) PROVE [Next]_vars
    BY <1>2 DEF Submission, Next
<1>3. QED
    BY <1>1, <1>2
    DEF SystemNext, systemVars, CommandWork, Reconnect, CommandInput

\* The system is a chamber: whatever holds of the daemon alone holds of it here.
THEOREM SystemIsChamber == SystemSpec => Spec
<1>1. SystemInit => Init
    BY DEF SystemInit
<1>2. QED
    BY <1>1, ChamberView, PTL DEF SystemSpec, Spec

-------------------------------------------------------------------------------
\* A step of the daemon is, to the commands, one of their abstract chamber.
LEMMA DaemonView ==
    ASSUME IInv, ChamberStep
    PROVE  User!Chamber \/ UNCHANGED User!vars
<1>1. CASE Serves
    BY <1>1 DEF ChamberStep, commands, Serves, User!Chamber,
       User!Queue!Claim, User!Queue!Answer, User!Queue!Archive,
       User!Queue!Reject, User!Queue!Move, Queue!Claim, Queue!Answer,
       Queue!Archive, Queue!Reject, Queue!Move
<1>2. CASE UNCHANGED <<source, result>>
    BY <1>2 DEF ChamberStep, commands, User!vars, User!server
<1>3. QED
    BY <1>1, <1>2, ServingStep DEF ChamberStep

\* Seen from the commands, each step is one of theirs, one of the chamber's, or
\* none.
LEMMA UserView == IInv /\ [SystemNext]_systemVars => [User!Next]_(User!vars)
<1> SUFFICES ASSUME IInv, [SystemNext]_systemVars
             PROVE  [User!Next]_(User!vars)
    OBVIOUS
<1>1. CASE ChamberStep
    BY <1>1, DaemonView DEF User!Next
<1>2. ASSUME NEW c \in Commands,
             Submission(c) \/ CommandWork(c) \/ Reconnect(c) \/ CommandInput(c)
      PROVE  User!Next
    BY <1>2 DEF Submission, CommandWork, Reconnect, CommandInput, User!Next,
       User!Work
<1>3. CASE UNCHANGED systemVars
    BY <1>3 DEF systemVars, vars, server, commands, User!vars, User!server
<1>4. QED
    BY <1>1, <1>2, <1>3 DEF SystemNext

\* Composition: next to the real chamber, every command behaves as Uploader says.
THEOREM SystemIsUploader == SystemSpec => ImplementsUser
<1>1. SystemInit => User!Init
    BY DEF SystemInit
<1>2. IInv /\ [SystemNext]_systemVars => [User!Next]_(User!vars)
    BY UserView
<1>3. QED
    BY <1>1, <1>2, SystemIsChamber, Invariance, PTL
    DEF SystemSpec, ImplementsUser, User!Spec

-------------------------------------------------------------------------------
(* Whoever is told that a job failed *)

\* A good job is in failed/ only when as many things went wrong as it has
\* attempts.
FiledForCause == \A j \in Good : source[j] = "failed" => faults >= MaxRetries

\* Only the daemon files under failed/, and only a job whose budget is spent.
LEMMA CauseStep ==
    ASSUME IInv, RetriesPaidByFaults, FiledForCause, [Next]_vars
    PROVE  FiledForCause'
<1> SUFFICES ASSUME NEW j \in Good, source'[j] = "failed"
             PROVE  faults' >= MaxRetries
    BY DEF FiledForCause
<1>0. /\ j \in Jobs /\ faults \in Nat /\ faults' \in Nat /\ MaxRetries \in Nat
      /\ rows[j].retries \in Nat /\ faults' >= faults
    BY FaultsGrow, TypeStep, ConstantsOK, MaxRetriesIsNat
    DEF ConstantsOK, IInv, TypeOK, Good, Row
<1> USE DEF IInv, TypeOK
<1>1. CASE source[j] = "failed"
    BY <1>0, <1>1 DEF FiledForCause
<1>2. CASE source[j] # "failed" /\ (Daemon \/ Crash \/ LoseDb)
    <2>1. ~Claim /\ ~Publish /\ ~Retire
        BY <1>0, <1>2 DEF Claim, Publish, Retire
    <2>2. TidyFailedJob
        BY <1>2, <2>1, ServerFrame
    <2>3. job = j /\ rows[j].state = "FAILED"
        BY <1>0, <1>2, <2>2 DEF TidyFailedJob, PassIsConsistent
    <2>4. rows[j].retries >= MaxRetries /\ rows[j].retries <= faults
        BY <1>0, <2>3
        DEF StoresAgree, NoEarlyFailure, RetriesPaidByFaults, Good
    <2>5. QED
        BY <1>0, <2>4
<1>3. CASE source[j] # "failed" /\ \E k \in Jobs : Submit(k)
    BY <1>0, <1>3 DEF Submit
<1>4. CASE source[j] # "failed" /\ UNCHANGED vars
    BY <1>4 DEF vars, server
<1>5. QED
    BY <1>1, <1>2, <1>3, <1>4 DEF Next

\* Jobs and reports of the commands.
Reports ==
    /\ wanted \in [Commands -> Jobs \cup {NoJob}]
    /\ report \in [Commands -> User!Report]

\* A report of a failure was there before, or its job is in failed/ now: no
\* other end of a command reports one.
LEMMA ReportStep ==
    ASSUME Reports, [SystemNext]_systemVars
    PROVE  /\ Reports'
           /\ \A c \in Commands : report'[c] = "failed" =>
                  /\ wanted'[c] = wanted[c]
                  /\ report[c] = "failed" \/ source[wanted[c]] = "failed"
<1> DEFINE Goal ==
        /\ Reports'
        /\ \A c \in Commands : report'[c] = "failed" =>
               /\ wanted'[c] = wanted[c]
               /\ report[c] = "failed" \/ source[wanted[c]] = "failed"
<1> USE DEF Reports
<1>1. UNCHANGED <<wanted, report>> => Goal
    OBVIOUS
<1>2. ASSUME NEW c \in Commands, NEW r \in User!Report, User!End(c, r),
             r = "failed" => source[wanted[c]] = "failed"
      PROVE  Goal
    BY <1>2 DEF User!End, User!Told, User!Report
<1>3. ASSUME NEW c \in Commands, NEW to, NEW j \in Jobs, NEW t,
             User!Start(c, to, j, t)
      PROVE  Goal
    BY <1>3 DEF User!Start, User!Report
<1> HIDE DEF Goal, Reports
<1>4. ASSUME NEW c \in Commands, User!Work(c) PROVE Goal
    BY <1>1, <1>2, <1>4 DEF User!Work, User!Rename, User!Truncate, User!Write,
       User!TimeOut, User!Fetch, User!NotYet, User!SeesFailure, User!NoFailure,
       User!ShowsFailure, User!Stay, User!Report, User!Told
<1>5. ASSUME NEW c \in Commands, User!Enter(c) PROVE Goal
    BY <1>1, <1>2, <1>3, <1>5 DEF User!Enter, User!Upload, User!Send,
       User!DownloadJob, User!Download, User!LoadLastJob, User!Report
<1>6. ASSUME NEW c \in Commands, Submission(c) \/ Reconnect(c) PROVE Goal
    BY <1>1, <1>2, <1>6 DEF Submission, Reconnect, User!Rename,
       User!RenameReplyLost, User!Connect, User!Stay, User!Report
<1>7. ASSUME NEW c \in Commands, CommandInput(c) PROVE Goal
    BY <1>1, <1>2, <1>5, <1>7 DEF CommandInput, User!Expire, User!Interrupt,
       User!UploadFails, User!PollFails, User!Report
<1>8. CASE ChamberStep \/ UNCHANGED systemVars
    BY <1>1, <1>8 DEF ChamberStep, commands, systemVars, Goal
<1>9. QED
    BY <1>4, <1>6, <1>7, <1>8 DEF SystemNext, CommandWork, Goal

\* No user is told lightly that a good job failed: the report, read off failed/
\* by another process, stands for as many faults as the job has attempts.
THEOREM FailuresHaveCauses == SystemSpec => []FailedOnlyForCause
<1> DEFINE Inv == Reports /\ FiledForCause /\ FailedOnlyForCause
<1>1. SystemInit => Inv
    BY DEF SystemInit, Init, User!Init, Inv, Reports, FiledForCause,
       FailedOnlyForCause, User!Report, Good
<1>2. /\ IInv /\ RetriesPaidByFaults /\ Inv /\ [SystemNext]_systemVars
      => Inv'
    <2> SUFFICES ASSUME IInv, RetriesPaidByFaults, Inv,
                        [SystemNext]_systemVars
                 PROVE  Inv'
        OBVIOUS
    <2>1. Reports' /\ FiledForCause'
        BY ReportStep, CauseStep, ChamberView
    <2>2. ASSUME NEW c \in Commands, report'[c] = "failed",
                 wanted'[c] \in Good
          PROVE  faults' >= MaxRetries
        <3>1. /\ faults \in Nat /\ faults' \in Nat /\ MaxRetries \in Nat
              /\ faults' >= faults
            BY FaultsGrow, TypeStep, ChamberView, ConstantsOK, MaxRetriesIsNat
            DEF ConstantsOK, IInv, TypeOK
        <3>2. /\ wanted[c] \in Good
              /\ report[c] = "failed" \/ source[wanted[c]] = "failed"
            BY <2>2, ReportStep
        <3>3. faults >= MaxRetries
            BY <3>2 DEF FiledForCause, FailedOnlyForCause, Good
        <3>4. QED
            BY <3>1, <3>3
    <2>3. QED
        BY <2>1, <2>2 DEF FailedOnlyForCause, Good
<1>3. Inv => FailedOnlyForCause
    OBVIOUS
<1> HIDE DEF Inv
<1>4. QED
    BY <1>1, <1>2, <1>3, SystemIsChamber, Invariance, RetriesArePaid, PTL
    DEF SystemSpec

-------------------------------------------------------------------------------
(* Whoever saves a recording *)

\* A recording is short while sf.write runs, and after that only if something
\* went wrong; so are what is uploaded of it and what is published.
ShortForCause ==
    \A j \in Jobs :
        /\ rec[j] = "short" => faults > 0 \/ (At("record", "write") /\ job = j)
        /\ part[j] = "short" \/ result[j] = "short" => faults > 0

\* Only a fault cuts sf.write off, and only what is on disk is published.
LEMMA ShortStep ==
    ASSUME IInv, ShortForCause, [Next]_vars
    PROVE  ShortForCause'
<1>0. faults \in Nat /\ faults' \in Nat /\ faults' >= faults
    BY TypeStep, FaultsGrow, ConstantsOK DEF IInv, TypeOK, ConstantsOK
<1> USE <1>0 DEF IInv, TypeOK, ShortForCause, JobStep, Loops, At, Stopped,
    server, local, Goto, Take, Pass
<1>1. ASSUME NEW j \in Jobs,
             \/ Reconcile(j) \/ Discover(j) \/ Download(j) \/ Upload(j)
             \/ Tidy(j) \/ Record(j)
      PROVE  ShortForCause'
    BY <1>1 DEF Reconcile, Discover, Download, Upload, Tidy, Record
<1>2. CASE Restart \/ Connect \/ ConnectFails \/ EnsureRemoteDirs \/ EndLoop
    BY <1>2 DEF Restart, Connect, ConnectFails, EnsureRemoteDirs, EndLoop
<1>3. CASE \/ ListProcessing \/ ListIncoming \/ ListClaimed \/ ListRecorded
           \/ ListFailed \/ ListDownloaded
    BY <1>3 DEF ListProcessing, ListIncoming, ListClaimed, ListRecorded,
       ListFailed, ListDownloaded
<1>4. CASE Adopt \/ Claim \/ MarkClaimed \/ DeferDownloads
    BY <1>4 DEF Adopt, Claim, MarkClaimed, DeferDownloads
<1>5. CASE FetchBegin \/ FetchEnd \/ MarkDownloaded
    BY <1>5 DEF FetchBegin, FetchEnd, MarkDownloaded
<1>6. CASE PutBegin \/ MarkUploaded \/ Retire \/ MarkDone
    BY <1>6 DEF PutBegin, MarkUploaded, Retire, MarkDone
<1>7. CASE PutEnd
    BY <1>7 DEF PutEnd
<1>8. CASE Publish
    BY <1>8 DEF Publish
<1>9. CASE DeleteInput \/ DeleteRecording
    BY <1>9 DEF DeleteInput, DeleteRecording
<1>10. CASE Play
    BY <1>10 DEF Play
<1>11. CASE WriteRecording
    BY <1>11 DEF WriteRecording, Fault
<1>12. CASE MarkRecorded \/ CountFailure \/ GiveUp \/ TidyFailedJob
    BY <1>12 DEF MarkRecorded, CountFailure, GiveUp, TidyFailedJob
<1>13. ASSUME NEW inputs, NEW recs, NEW old, CleanupLocal(inputs, recs, old)
      PROVE  ShortForCause'
    BY <1>13 DEF CleanupLocal
<1>14. CASE Crash
    BY <1>14 DEF Crash, Fault
<1>15. CASE LoseDb \/ (\E j \in Jobs : Submit(j)) \/ UNCHANGED vars
    BY <1>15 DEF LoseDb, Submit, vars
<1>16. QED
    BY <1>1, <1>2, <1>3, <1>4, <1>5, <1>6, <1>7, <1>8, <1>9, <1>10, <1>11,
       <1>12, <1>13, <1>14, <1>15 DEF Next, Daemon, JobLoops

\* A recording in recordings/ is short for a cause, in every behaviour.
LEMMA ShortHasCause == SystemSpec => []ShortForCause
<1>1. Init => ShortForCause
    BY DEF Init, ShortForCause
<1>2. QED
    BY <1>1, ShortStep, SystemIsChamber, Invariance, PTL DEF Spec

\* What Uploader promises of the commands next to JobQueue holds next to the
\* daemon.
UserProofs == INSTANCE UploaderProofs
                WITH place <- source,
                     answered <- {j \in Jobs : result[j] # "none"}

LEMMA SameUser == User!Spec => UserProofs!Spec
<1>1. User!Init => UserProofs!Init
    BY DEF User!Init, UserProofs!Init, User!Queue!Init, UserProofs!Queue!Init
<1>2. ASSUME NEW c \in Commands, User!Work(c) PROVE UserProofs!Work(c)
    BY <1>2
    DEF User!Work, UserProofs!Work, User!Rename, UserProofs!Rename,
       User!Truncate, UserProofs!Truncate, User!Write, UserProofs!Write,
       User!TimeOut, UserProofs!TimeOut, User!Fetch, UserProofs!Fetch,
       User!NotYet, UserProofs!NotYet, User!SeesFailure,
       UserProofs!SeesFailure, User!NoFailure, UserProofs!NoFailure,
       User!ShowsFailure, UserProofs!ShowsFailure, User!Stay,
       UserProofs!Stay, User!Queue!Submit, UserProofs!Queue!Submit,
       User!Queue!Move, UserProofs!Queue!Move, User!Goto, UserProofs!Goto,
       User!End, UserProofs!End, User!Told, UserProofs!Told, User!server,
       UserProofs!server
<1>3. ASSUME NEW c \in Commands, User!Enter(c) PROVE UserProofs!Enter(c)
    BY <1>3
    DEF User!Enter, UserProofs!Enter, User!Upload, UserProofs!Upload,
       User!Send, UserProofs!Send, User!DownloadJob,
       UserProofs!DownloadJob, User!Download, UserProofs!Download,
       User!LoadLastJob, UserProofs!LoadLastJob, User!Unused,
       UserProofs!Unused, User!Deadline, UserProofs!Deadline, User!Start,
       UserProofs!Start, User!Goto, UserProofs!Goto, User!End,
       UserProofs!End, User!Told, UserProofs!Told, User!server,
       UserProofs!server
<1>4. ASSUME NEW c \in Commands,
             \/ User!Connect(c) \/ User!Expire(c) \/ User!Interrupt(c)
             \/ User!RenameReplyLost(c) \/ User!UploadFails(c)
             \/ User!PollFails(c)
      PROVE  UserProofs!Next
    BY <1>4
    DEF UserProofs!Next, User!Connect, UserProofs!Connect, User!Expire, UserProofs!Expire,
       User!Interrupt, UserProofs!Interrupt, User!RenameReplyLost,
       UserProofs!RenameReplyLost, User!UploadFails,
       UserProofs!UploadFails, User!PollFails, UserProofs!PollFails,
       User!Stay, UserProofs!Stay, User!Waiting, UserProofs!Waiting,
       User!Queue!Submit, UserProofs!Queue!Submit, User!Queue!Move,
       UserProofs!Queue!Move, User!Goto, UserProofs!Goto, User!End,
       UserProofs!End, User!Told, UserProofs!Told, User!server,
       UserProofs!server
<1>5. User!Chamber => UserProofs!Chamber
    BY DEF User!Chamber, UserProofs!Chamber, User!Queue!Claim,
       UserProofs!Queue!Claim, User!Queue!Answer, UserProofs!Queue!Answer,
       User!Queue!Archive, UserProofs!Queue!Archive, User!Queue!Reject,
       UserProofs!Queue!Reject, User!Queue!Move, UserProofs!Queue!Move
<1>6. UNCHANGED User!vars => UNCHANGED UserProofs!vars
    BY DEF User!vars, UserProofs!vars, User!server, UserProofs!server
<1>7. [User!Next]_(User!vars) => [UserProofs!Next]_(UserProofs!vars)
    BY <1>2, <1>3, <1>4, <1>5, <1>6 DEF User!Next, UserProofs!Next
<1>8. QED
    BY <1>1, <1>7, PTL DEF User!Spec, UserProofs!Spec

\* The invariant that is proved of Uploader holds of the system, under the
\* system's names.
LEMMA CommandsInvariance == SystemSpec => []UserProofs!IInv
<1>1. UserProofs!NamesOK
    BY CommandNamesOK DEF UserProofs!NamesOK
<1>2. UserProofs!Spec => []UserProofs!IInv
    BY <1>1, UserProofs!UploaderInvariance, PTL
<1>3. QED
    BY <1>2, SameUser, SystemIsUploader, PTL DEF ImplementsUser

\* What is proved of the commands next to the promised chamber holds next to the
\* real one, with its faults, restarts and lost tables.
THEOREM CommandsKeepTheirWord ==
    SystemSpec =>
        [](User!TypeOK /\ User!ReportIsTrue /\ User!RecordIsSubmitted)
<1>1. UserProofs!IInv =>
          User!TypeOK /\ User!ReportIsTrue /\ User!RecordIsSubmitted
    BY DEF UserProofs!IInv, User!TypeOK, UserProofs!TypeOK,
       User!ReportIsTrue, UserProofs!ReportIsTrue, User!RecordIsSubmitted,
       UserProofs!RecordIsSubmitted, User!Uploading, UserProofs!Uploading,
       User!Waiting, UserProofs!Waiting, User!Report, UserProofs!Report,
       User!Told, UserProofs!Told
<1>2. QED
    BY <1>1, CommandsInvariance, PTL

\* No user is handed a torn recording, and none cut short unless something went
\* wrong: what a command saves is what the daemon published.
THEOREM SavedRecordingsAreWhole == SystemSpec => []SavedIsWhole
<1>1. IInv /\ ShortForCause /\ User!ReportIsTrue => SavedIsWhole
    <2> SUFFICES ASSUME IInv, ShortForCause, User!ReportIsTrue,
                        NEW c \in Commands, report[c] = "saved"
                 PROVE  \/ result[wanted[c]] = "full"
                        \/ result[wanted[c]] = "short" /\ faults > 0
        BY DEF SavedIsWhole
    <2>1. wanted[c] \in Jobs /\ result[wanted[c]] # "none"
        BY DEF User!ReportIsTrue
    <2>2. result[wanted[c]] \in {"full", "short"}
        BY <2>1 DEF IInv, TypeOK, Content, StoresAgree, NoTornFile
    <2>3. QED
        BY <2>1, <2>2 DEF ShortForCause
<1>2. QED
    BY <1>1, SystemIsChamber, Invariance, ShortHasCause,
       CommandsKeepTheirWord, PTL
=================================================================================
