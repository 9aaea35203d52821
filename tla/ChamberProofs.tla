----------------------------- MODULE ChamberProofs -----------------------------
(***************************************************************************)
(* Proofs about the chamber daemon, for every set of jobs, every retry     *)
(* budget and every bound on faults.                                       *)
(***************************************************************************)
EXTENDS ChamberProperties, TLAPS

-------------------------------------------------------------------------------
(* The job table: what each write leaves in each row *)

\* Each write of the job table yields a job table.
LEMMA TableWrites ==
    ASSUME rows \in [Jobs -> Row], NEW j \in Jobs
    PROVE  /\ UpsertDiscovered(rows, j) \in [Jobs -> Row]
           /\ \A s \in JobState : SetState(rows, j, s) \in [Jobs -> Row]
           /\ RecordFailure(rows, j) \in [Jobs -> Row]
  BY DEF UpsertDiscovered, SetState, RecordFailure, Row, JobState, Terminal

-------------------------------------------------------------------------------
(* Types *)

\* The daemon starts well typed.
LEMMA TypeInit == Init => TypeOK
  BY ConstantsOK DEF ConstantsOK, Init, TypeOK, EmptyTable, NoRow, Row,
     JobState, Terminal, Dir, Content, Phase, JobStep, Loops

\* Every step keeps the types.
LEMMA TypeStep == TypeOK /\ [Next]_vars => TypeOK'
<1> SUFFICES ASSUME TypeOK, [Next]_vars PROVE TypeOK'
    OBVIOUS
<1> USE ConstantsOK DEF ConstantsOK, TypeOK, server, local, Dir, Content,
    Phase, JobStep, Loops, JobsInState, Goto, Continue, Take, Pass, Enter,
    Iterate, Fault, CallOk, Raises, CallFails, ReplyLost, Exits, At, Stopped
<1>1. CASE Restart
    BY <1>1 DEF Restart
<1>2. CASE Connect
    BY <1>2 DEF Connect
<1>3. CASE ConnectFails
    BY <1>3 DEF ConnectFails
<1>4. CASE EnsureRemoteDirs
    BY <1>4 DEF EnsureRemoteDirs
<1>5. CASE EndLoop
    BY <1>5 DEF EndLoop, AfterLoop
<1>6. CASE ListProcessing
    BY <1>6 DEF ListProcessing
<1>7. CASE Adopt
    BY <1>7, TableWrites DEF Adopt, JobState, Terminal
<1>8. CASE ListIncoming
    BY <1>8 DEF ListIncoming
<1>9. CASE Claim
    BY <1>9 DEF Claim
<1>10. CASE MarkClaimed
    BY <1>10, TableWrites DEF MarkClaimed, JobState, Terminal
<1>11. CASE ListClaimed
    BY <1>11 DEF ListClaimed
<1>12. CASE DeferDownloads
    BY <1>12 DEF DeferDownloads
<1>13. CASE FetchBegin
    BY <1>13 DEF FetchBegin
<1>14. CASE FetchEnd
    BY <1>14 DEF FetchEnd
<1>15. CASE MarkDownloaded
    BY <1>15, TableWrites DEF MarkDownloaded, JobState, Terminal
<1>16. CASE ListRecorded
    BY <1>16 DEF ListRecorded
<1>17. CASE PutBegin
    BY <1>17 DEF PutBegin
<1>18. CASE PutEnd
    BY <1>18 DEF PutEnd
<1>19. CASE Publish
    BY <1>19 DEF Publish
<1>20. CASE MarkUploaded
    BY <1>20, TableWrites DEF MarkUploaded, JobState, Terminal
<1>21. CASE Retire
    BY <1>21 DEF Retire
<1>22. CASE MarkDone
    BY <1>22, TableWrites DEF MarkDone, JobState, Terminal
<1>23. CASE DeleteInput
    BY <1>23 DEF DeleteInput
<1>24. CASE DeleteRecording
    BY <1>24 DEF DeleteRecording
<1>25. CASE ListDownloaded
    BY <1>25 DEF ListDownloaded
<1>26. CASE Play
    BY <1>26 DEF Play
<1>27. CASE WriteRecording
    BY <1>27 DEF WriteRecording
<1>28. CASE MarkRecorded
    BY <1>28, TableWrites DEF MarkRecorded, JobState, Terminal
<1>29. CASE CountFailure
    BY <1>29, TableWrites DEF CountFailure
<1>30. CASE GiveUp
    BY <1>30, TableWrites DEF GiveUp, JobState, Terminal
<1>31. CASE ListFailed
    BY <1>31 DEF ListFailed
<1>32. CASE TidyFailedJob
    BY <1>32 DEF TidyFailedJob
<1>33. ASSUME NEW j \in Jobs, Reconcile(j) PROVE TypeOK'
    BY <1>33, TableWrites DEF Reconcile, JobState, Terminal
<1>34. ASSUME NEW j \in Jobs, Discover(j) PROVE TypeOK'
    BY <1>34, TableWrites DEF Discover
<1>35. ASSUME NEW j \in Jobs, Download(j) PROVE TypeOK'
    BY <1>35, TableWrites DEF Download, JobState, Terminal
<1>36. ASSUME NEW j \in Jobs, Upload(j) PROVE TypeOK'
    BY <1>36 DEF Upload
<1>37. ASSUME NEW j \in Jobs, Record(j) PROVE TypeOK'
    BY <1>37, TableWrites DEF Record, JobState, Terminal
<1>38. ASSUME NEW j \in Jobs, Tidy(j) PROVE TypeOK'
    BY <1>38 DEF Tidy
<1>39. ASSUME NEW inputs \in SUBSET JobsInState(rows, "FAILED"),
             NEW recs \in SUBSET inputs, NEW old \in SUBSET tmp,
             CleanupLocal(inputs, recs, old)
      PROVE  TypeOK'
    BY <1>39 DEF CleanupLocal
<1>40. CASE Crash
    BY <1>40 DEF Crash
<1>41. CASE LoseDb
    BY <1>41 DEF LoseDb, EmptyTable, NoRow, Row, JobState
<1>42. ASSUME NEW j \in Jobs, Submit(j) PROVE TypeOK'
    BY <1>42 DEF Submit
<1>43. CASE UNCHANGED vars
    BY <1>43 DEF vars
<1>44. QED
    BY <1>1, <1>2, <1>3, <1>4, <1>5, <1>6, <1>7, <1>8, <1>9, <1>10, <1>11,
       <1>12, <1>13, <1>14, <1>15, <1>16, <1>17, <1>18, <1>19, <1>20, <1>21,
       <1>22, <1>23, <1>24, <1>25, <1>26, <1>27, <1>28, <1>29, <1>30, <1>31,
       <1>32, <1>33, <1>34, <1>35, <1>36, <1>37, <1>38, <1>39, <1>40, <1>41,
       <1>42, <1>43
    DEF Next, Daemon, JobLoops

\* Every variable keeps its type in every behaviour of the daemon.
THEOREM TypeCorrect == Spec => []TypeOK
<1>1. Init => TypeOK
    BY TypeInit
<1>2. TypeOK /\ [Next]_vars => TypeOK'
    BY TypeStep
<1>3. QED
    BY <1>1, <1>2, PTL DEF Spec

-------------------------------------------------------------------------------
(* The inductive invariant: the stores agree, every snapshot is fresh, and *)
(* a loop body knows where its job stands.                                 *)

StoresAgree ==
    /\ HeldIsProcessing
    /\ LocalFilesBackState
    /\ DoneIsDelivered
    /\ NoTornFile
    /\ NoEarlyFailure

IInv == TypeOK /\ StoresAgree /\ SnapshotIsFresh /\ PassIsConsistent

\* The three stores agree before the first start.
LEMMA InvInit == Init => IInv
<1> SUFFICES ASSUME Init PROVE IInv
    OBVIOUS
<1>1. TypeOK
    BY TypeInit
<1>2. StoresAgree
    BY DEF Init, EmptyTable, NoRow, StoresAgree, HeldIsProcessing, Held,
       LocalFilesBackState, DoneIsDelivered, NoTornFile, NoEarlyFailure
<1>3. SnapshotIsFresh /\ PassIsConsistent
    BY DEF Init, SnapshotIsFresh, PassIsConsistent
<1>4. QED
    BY <1>1, <1>2, <1>3 DEF IInv

\* Every step keeps them in agreement: one case per action.
LEMMA InvStep == IInv /\ [Next]_vars => IInv'
<1> SUFFICES ASSUME IInv, [Next]_vars PROVE IInv'
    OBVIOUS
<1>0. TypeOK /\ TypeOK'
    BY TypeStep DEF IInv
<1> USE <1>0, ConstantsOK, MaxRetriesIsNat
    DEF ConstantsOK, IInv, StoresAgree, TypeOK, HeldIsProcessing, Held,
        LocalFilesBackState, DoneIsDelivered, NoTornFile, NoEarlyFailure,
        SnapshotIsFresh, PassIsConsistent, server, local, JobsInState,
        JobState, Terminal, JobStep, Loops, Goto, Continue, Take, Pass, Enter,
        Iterate, Fault, CallOk, Raises, CallFails, ReplyLost, Exits, At
<1>1. CASE Restart
    BY <1>1 DEF Restart, Stopped
<1>2. CASE Connect
    BY <1>2 DEF Connect
<1>3. CASE ConnectFails
    BY <1>3 DEF ConnectFails
<1>4. CASE EnsureRemoteDirs
    BY <1>4 DEF EnsureRemoteDirs
<1>5. CASE EndLoop
    BY <1>5 DEF EndLoop, AfterLoop
<1>6. CASE ListProcessing
    BY <1>6 DEF ListProcessing
<1>7. CASE Adopt
    BY <1>7 DEF Adopt, SetState, Row
<1>8. CASE ListIncoming
    BY <1>8 DEF ListIncoming
<1>9. CASE Claim
    BY <1>9 DEF Claim
<1>10. CASE MarkClaimed
    BY <1>10 DEF MarkClaimed, SetState, Row
<1>11. CASE ListClaimed
    BY <1>11 DEF ListClaimed
<1>12. CASE DeferDownloads
    BY <1>12 DEF DeferDownloads
<1>13. CASE FetchBegin
    BY <1>13 DEF FetchBegin
<1>14. CASE FetchEnd
    BY <1>14 DEF FetchEnd
<1>15. CASE MarkDownloaded
    BY <1>15 DEF MarkDownloaded, SetState, Row
<1>16. CASE ListRecorded
    BY <1>16 DEF ListRecorded
<1>17. CASE PutBegin
    BY <1>17 DEF PutBegin
<1>18. CASE PutEnd
    BY <1>18 DEF PutEnd
<1>19. CASE Publish
    BY <1>19 DEF Publish
<1>20. CASE MarkUploaded
    BY <1>20 DEF MarkUploaded, SetState, Row
<1>21. CASE Retire
    BY <1>21 DEF Retire
<1>22. CASE MarkDone
    BY <1>22 DEF MarkDone, SetState, Row
<1>23. CASE DeleteInput
    BY <1>23 DEF DeleteInput
<1>24. CASE DeleteRecording
    BY <1>24 DEF DeleteRecording
<1>25. CASE ListDownloaded
    BY <1>25 DEF ListDownloaded
<1>26. CASE Play
    BY <1>26 DEF Play
<1>27. CASE WriteRecording
    BY <1>27 DEF WriteRecording
<1>28. CASE MarkRecorded
    BY <1>28 DEF MarkRecorded, SetState, Row
<1>29. CASE CountFailure
    BY <1>29 DEF CountFailure, RecordFailure, Row, BudgetSpent
<1>30. CASE GiveUp
    BY <1>30 DEF GiveUp, SetState, Row, BudgetSpent
<1>31. CASE ListFailed
    BY <1>31 DEF ListFailed
<1>32. CASE TidyFailedJob
    BY <1>32 DEF TidyFailedJob
<1>33. ASSUME NEW j \in Jobs, Reconcile(j) PROVE IInv'
    <2>1. CASE rows[j].state = "ABSENT"
        <3>1. rows' = [rows EXCEPT ![j] = [state |-> "DISCOVERED", retries |-> 0]]
            BY <1>33, <2>1 DEF Reconcile, UpsertDiscovered, Row
        <3>2. QED
            BY <1>33, <2>1, <3>1 DEF Reconcile, Row
    <2>2. CASE rows[j].state = "DISCOVERED"
        <3>1. rows' = [rows EXCEPT ![j].state = "CLAIMED"]
            BY <1>33, <2>2 DEF Reconcile, SetState, Row
        <3>2. QED
            BY <1>33, <2>2, <3>1 DEF Reconcile, Row
    <2>3. CASE rows[j].state \notin {"ABSENT", "DISCOVERED"}
        BY <1>33, <2>3 DEF Reconcile
    <2>4. QED
        BY <2>1, <2>2, <2>3
<1>34. ASSUME NEW j \in Jobs, Discover(j) PROVE IInv'
    BY <1>34 DEF Discover, UpsertDiscovered, Row
<1>35. ASSUME NEW j \in Jobs, Download(j) PROVE IInv'
    <2>1. CASE input[j] # "none"
        <3>1. rows[j].state = "CLAIMED"
            BY <1>35 DEF Download
        <3>2. rows' = [rows EXCEPT ![j].state = "DOWNLOADED"]
            BY <1>35, <2>1, <3>1 DEF Download, SetState, Row
        <3>3. QED
            BY <1>35, <2>1, <3>1, <3>2 DEF Download, Row
    <2>2. CASE input[j] = "none"
        BY <1>35, <2>2 DEF Download
    <2>3. QED
        BY <2>1, <2>2
<1>36. ASSUME NEW j \in Jobs, Upload(j) PROVE IInv'
    BY <1>36 DEF Upload
<1>37. ASSUME NEW j \in Jobs, Record(j) PROVE IInv'
    <2>1. CASE rec[j] # "none"
        <3>1. rows[j].state = "DOWNLOADED"
            BY <1>37 DEF Record
        <3>2. rows' = [rows EXCEPT ![j].state = "RECORDED"]
            BY <1>37, <2>1, <3>1 DEF Record, SetState, Row
        <3>3. QED
            BY <1>37, <2>1, <3>1, <3>2 DEF Record, Row
    <2>2. CASE rec[j] = "none"
        BY <1>37, <2>2 DEF Record
    <2>3. QED
        BY <2>1, <2>2
<1>38. ASSUME NEW j \in Jobs, Tidy(j) PROVE IInv'
    BY <1>38 DEF Tidy
<1>39. ASSUME NEW inputs \in SUBSET JobsInState(rows, "FAILED"),
             NEW recs \in SUBSET inputs, NEW old \in SUBSET tmp,
             CleanupLocal(inputs, recs, old)
      PROVE  IInv'
    BY <1>39 DEF CleanupLocal
<1>40. CASE Crash
    BY <1>40 DEF Crash, Stopped
<1>41. CASE LoseDb
    BY <1>41 DEF LoseDb, EmptyTable, NoRow, Stopped
<1>42. ASSUME NEW j \in Jobs, Submit(j) PROVE IInv'
    BY <1>42 DEF Submit
<1>43. CASE UNCHANGED vars
    BY <1>43 DEF vars
<1>44. QED
    BY <1>1, <1>2, <1>3, <1>4, <1>5, <1>6, <1>7, <1>8, <1>9, <1>10, <1>11,
       <1>12, <1>13, <1>14, <1>15, <1>16, <1>17, <1>18, <1>19, <1>20, <1>21,
       <1>22, <1>23, <1>24, <1>25, <1>26, <1>27, <1>28, <1>29, <1>30, <1>31,
       <1>32, <1>33, <1>34, <1>35, <1>36, <1>37, <1>38, <1>39, <1>40, <1>41,
       <1>42, <1>43
    DEF Next, Daemon, JobLoops

\* The inductive invariant holds in every reachable state.
THEOREM Invariance == Spec => []IInv
<1>1. Init => IInv
    BY InvInit
<1>2. IInv /\ [Next]_vars => IInv'
    BY InvStep
<1>3. QED
    BY <1>1, <1>2, PTL DEF Spec

\* A job the table says is in work has its source in processing/.
THEOREM ClaimsAreBacked == Spec => []HeldIsProcessing
<1>1. IInv => HeldIsProcessing
    BY DEF IInv, StoresAgree
<1>2. QED
    BY <1>1, Invariance, PTL

\* A DOWNLOADED job has its input and a RECORDED one a recording on disk.
THEOREM StatesHaveFiles == Spec => []LocalFilesBackState
<1>1. IInv => LocalFilesBackState
    BY DEF IInv, StoresAgree
<1>2. QED
    BY <1>1, Invariance, PTL

\* done/, UPLOADED and DONE mean a recording in recordings/.
THEOREM DeliveryIsReal == Spec => []DoneIsDelivered
<1>1. IInv => DoneIsDelivered
    BY DEF IInv, StoresAgree
<1>2. QED
    BY <1>1, Invariance, PTL

\* No final name ever holds the torn half of a transfer.
THEOREM NothingTorn == Spec => []NoTornFile
<1>1. IInv => NoTornFile
    BY DEF IInv, StoresAgree
<1>2. QED
    BY <1>1, Invariance, PTL

\* No job is FAILED before its retry budget is spent.
THEOREM BudgetIsUsed == Spec => []NoEarlyFailure
<1>1. IInv => NoEarlyFailure
    BY DEF IInv, StoresAgree
<1>2. QED
    BY <1>1, Invariance, PTL

\* No loop acts on a listing that has gone stale, and wherever a pass stands,
\* row, server and disk of its job are as the calls before that point left them.
THEOREM PassesStayInStep == Spec => []PassStaysInStep
<1>1. IInv => PassStaysInStep
    BY DEF IInv, PassStaysInStep
<1>2. QED
    BY <1>1, Invariance, PTL

-------------------------------------------------------------------------------
(* What single steps may change *)

\* Four of its actions move a source file or publish a recording.
LEMMA ServerFrame ==
    ASSUME Daemon \/ Crash \/ LoseDb
    PROVE  \/ Claim \/ Publish \/ Retire \/ TidyFailedJob
           \/ UNCHANGED <<source, result>>
<1> USE DEF server
<1>1. CASE Restart \/ Connect \/ ConnectFails \/ EnsureRemoteDirs \/ EndLoop
    BY <1>1 DEF Restart, Connect, ConnectFails, EnsureRemoteDirs, EndLoop
<1>2. CASE \/ ListProcessing \/ ListIncoming \/ ListClaimed \/ ListRecorded
           \/ ListFailed \/ ListDownloaded
    BY <1>2 DEF ListProcessing, ListIncoming, ListClaimed, ListRecorded,
       ListFailed, ListDownloaded
<1>3. CASE JobLoops
    BY <1>3 DEF JobLoops, Reconcile, Discover, Download, Upload, Tidy, Record
<1>4. CASE Adopt \/ MarkClaimed \/ DeferDownloads \/ FetchBegin \/ FetchEnd
    BY <1>4 DEF Adopt, MarkClaimed, DeferDownloads, FetchBegin, FetchEnd
<1>5. CASE \/ MarkDownloaded \/ PutBegin \/ PutEnd \/ MarkUploaded \/ MarkDone
           \/ DeleteInput \/ DeleteRecording
    BY <1>5 DEF MarkDownloaded, PutBegin, PutEnd, MarkUploaded, MarkDone,
       DeleteInput, DeleteRecording
<1>6. CASE Play \/ WriteRecording \/ MarkRecorded \/ CountFailure \/ GiveUp
    BY <1>6 DEF Play, WriteRecording, MarkRecorded, CountFailure, GiveUp
<1>7. ASSUME NEW inputs, NEW recs, NEW old, CleanupLocal(inputs, recs, old)
      PROVE  UNCHANGED <<source, result>>
    BY <1>7 DEF CleanupLocal
<1>8. CASE Crash \/ LoseDb
    BY <1>8 DEF Crash, LoseDb
<1>9. QED
    BY <1>1, <1>2, <1>3, <1>4, <1>5, <1>6, <1>7, <1>8 DEF Daemon

\* Two of the others remove a recording from the local disk.
LEMMA RecordingFrame ==
    ASSUME TypeOK, [Next]_vars, NEW j \in Jobs,
           rec[j] # "none", rec'[j] = "none"
    PROVE  \/ DeleteRecording
           \/ \E inputs \in SUBSET JobsInState(rows, "FAILED"),
                 old \in SUBSET tmp :
                  \E recs \in SUBSET inputs : CleanupLocal(inputs, recs, old)
<1> USE DEF server, local
<1>1. CASE Restart \/ Connect \/ ConnectFails \/ EnsureRemoteDirs \/ EndLoop
    BY <1>1 DEF Restart, Connect, ConnectFails, EnsureRemoteDirs, EndLoop
<1>2. CASE \/ ListProcessing \/ ListIncoming \/ ListClaimed \/ ListRecorded
           \/ ListFailed \/ ListDownloaded
    BY <1>2 DEF ListProcessing, ListIncoming, ListClaimed, ListRecorded,
       ListFailed, ListDownloaded
<1>3. CASE JobLoops
    BY <1>3 DEF JobLoops, Reconcile, Discover, Download, Upload, Tidy, Record
<1>4. CASE \/ Adopt \/ Claim \/ MarkClaimed \/ DeferDownloads \/ FetchBegin
           \/ FetchEnd \/ MarkDownloaded
    BY <1>4 DEF Adopt, Claim, MarkClaimed, DeferDownloads, FetchBegin, FetchEnd,
       MarkDownloaded
<1>5. CASE \/ PutBegin \/ PutEnd \/ Publish \/ MarkUploaded \/ Retire \/ MarkDone
           \/ DeleteInput
    BY <1>5 DEF PutBegin, PutEnd, Publish, MarkUploaded, Retire, MarkDone,
       DeleteInput
<1>6. CASE Play \/ WriteRecording
    BY <1>6 DEF Play, WriteRecording, TypeOK
<1>7. CASE MarkRecorded \/ CountFailure \/ GiveUp \/ TidyFailedJob
    BY <1>7 DEF MarkRecorded, CountFailure, GiveUp, TidyFailedJob
<1>8. CASE Crash \/ LoseDb \/ (\E k \in Jobs : Submit(k)) \/ UNCHANGED vars
    BY <1>8 DEF Crash, LoseDb, Submit, vars
<1>9. QED
    BY <1>1, <1>2, <1>3, <1>4, <1>5, <1>6, <1>7, <1>8 DEF Next, Daemon

\* A recording is deleted only when delivered or when its job was given up.
THEOREM RecordingsAreKept == Spec => RecordingKeptUntilDelivered
<1>1. ASSUME IInv, [Next]_vars, NEW j \in Jobs,
             rec[j] # "none", rec'[j] = "none"
      PROVE  result[j] # "none" \/ rows[j].state = "FAILED"
    <2>1. CASE DeleteRecording
        BY <1>1, <2>1
           DEF DeleteRecording, At, IInv, TypeOK, JobStep, StoresAgree,
               DoneIsDelivered, PassIsConsistent
    <2>2. ASSUME NEW inputs \in SUBSET JobsInState(rows, "FAILED"),
                 NEW recs \in SUBSET inputs, NEW old,
                 CleanupLocal(inputs, recs, old)
          PROVE  rows[j].state = "FAILED"
        BY <1>1, <2>2 DEF CleanupLocal, JobsInState
    <2>3. QED
        BY <1>1, <2>1, <2>2, RecordingFrame DEF IInv
<1>2. IInv /\ [Next]_vars =>
          [\A j \in Jobs : rec[j] # "none" /\ rec'[j] = "none" =>
              result[j] # "none" \/ rows[j].state = "FAILED"]_vars
    BY <1>1
<1>3. QED
    BY <1>2, Invariance, PTL DEF Spec, RecordingKeptUntilDelivered

-------------------------------------------------------------------------------
(* Refinement: the daemon implements JobQueue *)

\* No source is sent and nothing is answered at first.
LEMMA QueueInit == Init => Queue!Init
  BY DEF Init, Queue!Init

Serves ==
    \E j \in Jobs : \/ Queue!Claim(j) \/ Queue!Answer(j)
                    \/ Queue!Archive(j) \/ Queue!Reject(j)

\* Each step of the daemon is one of JobQueue, and no submission, or leaves the
\* server's directories alone.
LEMMA ServingStep ==
    ASSUME IInv, Daemon \/ Crash \/ LoseDb
    PROVE  Serves \/ UNCHANGED <<source, result>>
<1> DEFINE answered == {k \in Jobs : result[k] # "none"}
<1> USE DEF IInv, TypeOK, JobStep, StoresAgree, PassIsConsistent, At,
    Serves, Queue!Move
<1>1. CASE Claim /\ source' = [source EXCEPT ![job] = "processing"]
    <2>1. job \in Jobs /\ Queue!Claim(job)
        BY <1>1 DEF Claim, Queue!Claim
    <2>2. QED
        BY <2>1
<1>2. CASE Publish /\ result' = [result EXCEPT ![job] = part[job]]
    <2>1. /\ job \in Jobs /\ source[job] = "processing" /\ source' = source
          /\ part[job] # "none"
        BY <1>2 DEF Publish, HeldIsProcessing, LocalFilesBackState, Held
    <2>2. answered' = answered \cup {job}
        BY <1>2, <2>1
    <2>3. Serves
        BY <2>1, <2>2 DEF Queue!Answer
    <2>4. QED
        BY <2>3
<1>3. CASE Retire /\ source' = [source EXCEPT ![job] = "done"]
    <2>1. job \in Jobs /\ job \in answered /\ source[job] = "processing"
        BY <1>3 DEF Retire, DoneIsDelivered
    <2>2. Queue!Archive(job)
        BY <1>3, <2>1 DEF Retire, Queue!Archive
    <2>3. QED
        BY <2>1, <2>2
<1>4. CASE /\ TidyFailedJob /\ source[job] = "processing"
           /\ source' = [source EXCEPT ![job] = "failed"]
    <2>1. job \in Jobs /\ Queue!Reject(job)
        BY <1>4 DEF TidyFailedJob, Queue!Reject
    <2>2. QED
        BY <2>1
<1>5. Claim => \/ source' = [source EXCEPT ![job] = "processing"]
               \/ UNCHANGED <<source, result>>
    BY DEF Claim
<1>6. Publish => \/ result' = [result EXCEPT ![job] = part[job]]
                 \/ UNCHANGED <<source, result>>
    BY DEF Publish
<1>7. Retire => \/ source' = [source EXCEPT ![job] = "done"]
                \/ UNCHANGED <<source, result>>
    BY DEF Retire
<1>8. TidyFailedJob => \/ /\ source[job] = "processing"
                           /\ source' = [source EXCEPT ![job] = "failed"]
                        \/ UNCHANGED <<source, result>>
    BY DEF TidyFailedJob
<1>9. QED
    BY <1>1, <1>2, <1>3, <1>4, <1>5, <1>6, <1>7, <1>8,
       ServerFrame

\* Every step is one of JobQueue or leaves the server's directories alone.
LEMMA QueueStep == IInv /\ [Next]_vars => [Queue!Next]_(Queue!vars)
<1> SUFFICES ASSUME IInv, [Next]_vars PROVE [Queue!Next]_(Queue!vars)
    OBVIOUS
<1>1. ASSUME NEW j \in Jobs, Submit(j) PROVE Queue!Next
    BY <1>1 DEF Submit, Queue!Submit, Queue!Move, Queue!Next
<1>2. CASE Daemon \/ Crash \/ LoseDb
    BY <1>2, ServingStep DEF Serves, Queue!Next, Queue!vars
<1>3. CASE UNCHANGED vars
    BY <1>3 DEF vars, server, Queue!vars
<1>4. QED
    BY <1>1, <1>2, <1>3 DEF Next

\* Seen from the server, the daemon is the simple queue of JobQueue.
THEOREM Refinement == Spec => ImplementsQueue
<1>1. Init => Queue!Init
    BY QueueInit
<1>2. IInv /\ [Next]_vars => [Queue!Next]_(Queue!vars)
    BY QueueStep
<1>3. QED
    BY <1>1, <1>2, Invariance, PTL DEF Spec, ImplementsQueue, Queue!Spec

\* What the uploader polls for is never taken back: a recording that was
\* published may be replaced, but stays, and a source filed in done/ or failed/
\* is not moved again, whatever table or local file is lost.
THEOREM OutcomesStand ==
    Spec => [][\A j \in Jobs :
                  /\ result[j] # "none" => result'[j] # "none"
                  /\ source[j] \in {"done", "failed"}
                         => source'[j] = source[j]]_vars
<1> DEFINE Stands(j) ==
        /\ result[j] # "none" => result'[j] # "none"
        /\ source[j] \in {"done", "failed"} => source'[j] = source[j]
<1>1. ASSUME IInv, [Next]_vars, NEW j \in Jobs PROVE Stands(j)
    <2>1. [Queue!Next]_(Queue!vars)
        BY <1>1, QueueStep
    <2>2. source \in [Jobs -> Dir] /\ result \in [Jobs -> Content]
        BY <1>1 DEF IInv, TypeOK
    <2>3. ASSUME NEW k \in Jobs,
                 \/ Queue!Submit(k) \/ Queue!Claim(k) \/ Queue!Answer(k)
                 \/ Queue!Archive(k) \/ Queue!Reject(k)
          PROVE  Stands(j)
        BY <2>2, <2>3 DEF Queue!Submit, Queue!Claim, Queue!Answer,
           Queue!Archive, Queue!Reject, Queue!Move
    <2>4. CASE UNCHANGED Queue!vars
        BY <2>4 DEF Queue!vars
    <2>5. QED
        BY <2>1, <2>3, <2>4 DEF Queue!Next
<1>2. IInv /\ [Next]_vars =>
          [\A j \in Jobs :
              /\ result[j] # "none" => result'[j] # "none"
              /\ source[j] \in {"done", "failed"}
                     => source'[j] = source[j]]_vars
    BY <1>1
<1>3. QED
    BY <1>2, Invariance, PTL DEF Spec

-------------------------------------------------------------------------------
(* Every charge has a fault *)

Good == Jobs \ (Unplayable \cup Undecodable)

\* The loops of this pass may still charge job j.
MayBeCharged(j) ==
    \/ phase = "discover"
    \/ /\ phase = "download"
       /\ \/ step = "start" \/ j \in todo \/ rows[j].state = "RECORDED"
          \/ j = job /\ step \in {"fetch", "fetching", "fetched"}
    \/ /\ phase = "upload"
       /\ \/ step = "start" /\ rows[j].state = "RECORDED"
          \/ j \in todo
          \/ j = job /\ step \in {"put", "putting", "publish", "uploaded",
                                 "retire", "retired", "clean", "cleaned"}

\* The fault that took the connection down is there for each of them once.
Paid(j) ==
    /\ rows[j].retries <= faults
    /\ link = "down" /\ MayBeCharged(j) => rows[j].retries < faults
    /\ step = "failure" /\ j = job => rows[j].retries < faults

\* No step charges a good job for a failure that was not a fault.
LEMMA PaidStep ==
    ASSUME IInv, [Next]_vars, NEW k \in Good, Paid(k)
    PROVE  Paid(k)'
<1>0. /\ TypeOK /\ TypeOK'
      /\ rows[k].retries \in Nat /\ rows'[k].retries \in Nat
      /\ faults \in Nat /\ faults' \in Nat /\ k \in Jobs
    BY TypeStep, ConstantsOK DEF IInv, TypeOK, Row, ConstantsOK, Good
<1> USE <1>0
    DEF Paid, MayBeCharged, Good, TypeOK, IInv, PassIsConsistent,
        SnapshotIsFresh, server, local, JobsInState, JobStep, Loops, Goto,
        Continue, Take, Pass, Enter, Iterate, Fault, CallOk, Raises, CallFails,
        ReplyLost, Exits, At
<1>1. CASE Restart
    BY <1>1 DEF Restart, Stopped
<1>2. CASE Connect
    BY <1>2 DEF Connect
<1>3. CASE ConnectFails
    BY <1>3 DEF ConnectFails
<1>4. CASE EnsureRemoteDirs
    BY <1>4 DEF EnsureRemoteDirs
<1>5. CASE EndLoop
    BY <1>5 DEF EndLoop, AfterLoop
<1>6. CASE ListProcessing
    BY <1>6 DEF ListProcessing
<1>7. CASE Adopt
    BY <1>7 DEF Adopt, SetState, Row
<1>8. CASE ListIncoming
    BY <1>8 DEF ListIncoming
<1>9. CASE Claim
    BY <1>9 DEF Claim
<1>10. CASE MarkClaimed
    BY <1>10 DEF MarkClaimed, SetState, Row
<1>11. CASE ListClaimed
    BY <1>11 DEF ListClaimed
<1>12. CASE DeferDownloads
    BY <1>12 DEF DeferDownloads
<1>13. CASE FetchBegin
    BY <1>13 DEF FetchBegin
<1>14. CASE FetchEnd
    BY <1>14 DEF FetchEnd
<1>15. CASE MarkDownloaded
    BY <1>15 DEF MarkDownloaded, SetState, Row
<1>16. CASE ListRecorded
    BY <1>16 DEF ListRecorded
<1>17. CASE PutBegin
    BY <1>17 DEF PutBegin
<1>18. CASE PutEnd
    BY <1>18 DEF PutEnd
<1>19. CASE Publish
    BY <1>19 DEF Publish
<1>20. CASE MarkUploaded
    BY <1>20 DEF MarkUploaded, SetState, Row
<1>21. CASE Retire
    BY <1>21 DEF Retire
<1>22. CASE MarkDone
    BY <1>22 DEF MarkDone, SetState, Row
<1>23. CASE DeleteInput
    BY <1>23 DEF DeleteInput
<1>24. CASE DeleteRecording
    BY <1>24 DEF DeleteRecording
<1>25. CASE ListDownloaded
    BY <1>25 DEF ListDownloaded
<1>26. CASE Play
    BY <1>26 DEF Play
<1>27. CASE WriteRecording
    BY <1>27 DEF WriteRecording
<1>28. CASE MarkRecorded
    BY <1>28 DEF MarkRecorded, SetState, Row
<1>29. CASE CountFailure
    BY <1>29 DEF CountFailure, RecordFailure, Row
<1>30. CASE GiveUp
    BY <1>30 DEF GiveUp, SetState, Row
<1>31. CASE ListFailed
    BY <1>31 DEF ListFailed
<1>32. CASE TidyFailedJob
    BY <1>32 DEF TidyFailedJob
<1>33. ASSUME NEW j \in Jobs, Reconcile(j) PROVE Paid(k)'
    BY <1>33 DEF Reconcile, UpsertDiscovered, SetState, Row
<1>34. ASSUME NEW j \in Jobs, Discover(j) PROVE Paid(k)'
    BY <1>34 DEF Discover, UpsertDiscovered, Row
<1>35. ASSUME NEW j \in Jobs, Download(j) PROVE Paid(k)'
    BY <1>35 DEF Download, SetState, Row
<1>36. ASSUME NEW j \in Jobs, Upload(j) PROVE Paid(k)'
    BY <1>36 DEF Upload
<1>37. ASSUME NEW j \in Jobs, Record(j) PROVE Paid(k)'
    BY <1>37 DEF Record, SetState, Row
<1>38. ASSUME NEW j \in Jobs, Tidy(j) PROVE Paid(k)'
    BY <1>38 DEF Tidy
<1>39. ASSUME NEW inputs \in SUBSET JobsInState(rows, "FAILED"),
             NEW recs \in SUBSET inputs, NEW old \in SUBSET tmp,
             CleanupLocal(inputs, recs, old)
      PROVE  Paid(k)'
    BY <1>39 DEF CleanupLocal
<1>40. CASE Crash
    BY <1>40 DEF Crash, Stopped
<1>41. CASE LoseDb
    BY <1>41 DEF LoseDb, EmptyTable, NoRow, Stopped
<1>42. ASSUME NEW j \in Jobs, Submit(j) PROVE Paid(k)'
    BY <1>42 DEF Submit
<1>43. CASE UNCHANGED vars
    BY <1>43 DEF vars
<1>44. QED
    BY <1>1, <1>2, <1>3, <1>4, <1>5, <1>6, <1>7, <1>8, <1>9, <1>10, <1>11,
       <1>12, <1>13, <1>14, <1>15, <1>16, <1>17, <1>18, <1>19, <1>20, <1>21,
       <1>22, <1>23, <1>24, <1>25, <1>26, <1>27, <1>28, <1>29, <1>30, <1>31,
       <1>32, <1>33, <1>34, <1>35, <1>36, <1>37, <1>38, <1>39, <1>40, <1>41,
       <1>42, <1>43
    DEF Next, Daemon, JobLoops

\* One dead connection costs no job more than one attempt: a job that can be
\* decoded and played is never charged more often than something went wrong.
THEOREM RetriesArePaid == Spec => []RetriesPaidByFaults
<1> DEFINE AllPaid == \A j \in Good : Paid(j)
<1>1. Init => AllPaid
    <2> SUFFICES ASSUME Init, NEW j \in Good PROVE Paid(j)
        OBVIOUS
    <2>1. rows[j].retries = 0 /\ link = "down" /\ faults = 0
        BY DEF Init, EmptyTable, NoRow, Good
    <2>2. phase = "killed" /\ step = "start"
        BY DEF Init
    <2>3. QED
        BY <2>1, <2>2 DEF Paid, MayBeCharged
<1>2. IInv /\ AllPaid /\ [Next]_vars => AllPaid'
    BY PaidStep
<1>3. AllPaid => RetriesPaidByFaults
    BY DEF Paid, Good, RetriesPaidByFaults
<1> HIDE DEF AllPaid
<1>4. QED
    BY <1>1, <1>2, <1>3, Invariance, PTL DEF Spec

-------------------------------------------------------------------------------
(* The life cycle of a row *)

\* Thirteen actions write the table.
LEMMA TableFrame ==
    ASSUME [Next]_vars
    PROVE  \/ UNCHANGED rows
           \/ \E j \in Jobs : \/ Reconcile(j) \/ Discover(j)
                              \/ Download(j) \/ Record(j)
           \/ Adopt \/ MarkClaimed \/ MarkDownloaded \/ MarkRecorded
           \/ MarkUploaded \/ MarkDone \/ CountFailure \/ GiveUp \/ LoseDb
<1>1. CASE Restart \/ Connect \/ ConnectFails \/ EnsureRemoteDirs \/ EndLoop
    BY <1>1 DEF Restart, Connect, ConnectFails, EnsureRemoteDirs, EndLoop
<1>2. CASE \/ ListProcessing \/ ListIncoming \/ ListClaimed \/ ListRecorded
           \/ ListFailed \/ ListDownloaded
    BY <1>2 DEF ListProcessing, ListIncoming, ListClaimed, ListRecorded,
       ListFailed, ListDownloaded
<1>3. CASE JobLoops
    BY <1>3 DEF JobLoops, Upload, Tidy
<1>4. CASE Claim \/ DeferDownloads \/ FetchBegin \/ FetchEnd
    BY <1>4 DEF Claim, DeferDownloads, FetchBegin, FetchEnd
<1>5. CASE \/ PutBegin \/ PutEnd \/ Publish \/ Retire \/ DeleteInput
           \/ DeleteRecording
    BY <1>5 DEF PutBegin, PutEnd, Publish, Retire, DeleteInput, DeleteRecording
<1>6. CASE Play \/ WriteRecording \/ TidyFailedJob
    BY <1>6 DEF Play, WriteRecording, TidyFailedJob
<1>7. ASSUME NEW inputs, NEW recs, NEW old, CleanupLocal(inputs, recs, old)
      PROVE  UNCHANGED rows
    BY <1>7 DEF CleanupLocal
<1>8. CASE Crash \/ (\E j \in Jobs : Submit(j)) \/ UNCHANGED vars
    BY <1>8 DEF Crash, Submit, vars
<1>9. QED
    BY <1>1, <1>2, <1>3, <1>4, <1>5, <1>6, <1>7, <1>8 DEF Next, Daemon

\* No row is no row: nothing is counted for a job the table does not know.
AbsentIsEmpty == \A j \in Jobs : rows[j].state = "ABSENT" => rows[j] = NoRow

\* A job moves on by one state, is charged by _fail_or_retry or is given up.
LEMMA RowsMoveOn ==
    ASSUME IInv, AbsentIsEmpty, [Next]_vars, ~LoseDb, NEW k \in Jobs
    PROVE  /\ MovesOn(k)
           /\ (CountFailure /\ job = k) \/ rows'[k].retries = rows[k].retries
<1> DEFINE Goal ==
        /\ MovesOn(k)
        /\ (CountFailure /\ job = k) \/ rows'[k].retries = rows[k].retries
<1> USE DEF IInv, TypeOK, AbsentIsEmpty, NoRow, SnapshotIsFresh,
    PassIsConsistent, MovesOn, LifeCycle, MayFail, Held, SetState, Row, JobState,
    Terminal, At, Take, Pass
<1>1. ASSUME NEW j \in Jobs, Reconcile(j) PROVE Goal
    <2>1. CASE rows[j].state = "ABSENT"
        BY <1>1, <2>1 DEF Reconcile, UpsertDiscovered
    <2>2. CASE rows[j].state # "ABSENT"
        BY <1>1, <2>2 DEF Reconcile
    <2>3. QED
        BY <2>1, <2>2
<1>2. ASSUME NEW j \in Jobs, Discover(j) PROVE Goal
    BY <1>2 DEF Discover, UpsertDiscovered
<1>3. ASSUME NEW j \in Jobs, Download(j) PROVE Goal
    BY <1>3 DEF Download
<1>4. ASSUME NEW j \in Jobs, Record(j) PROVE Goal
    BY <1>4 DEF Record
<1>5. CASE Adopt
    BY <1>5 DEF Adopt
<1>6. CASE MarkClaimed
    BY <1>6 DEF MarkClaimed
<1>7. CASE MarkDownloaded
    BY <1>7 DEF MarkDownloaded
<1>8. CASE MarkRecorded
    BY <1>8 DEF MarkRecorded
<1>9. CASE MarkUploaded
    BY <1>9 DEF MarkUploaded
<1>10. CASE MarkDone
    BY <1>10 DEF MarkDone
<1>11. CASE CountFailure
    BY <1>11 DEF CountFailure, RecordFailure
<1>12. CASE GiveUp
    BY <1>12 DEF GiveUp
<1>13. CASE UNCHANGED rows
    BY <1>13
<1>14. QED
    BY <1>1, <1>2, <1>3, <1>4, <1>5, <1>6, <1>7, <1>8, <1>9, <1>10, <1>11,
       <1>12, <1>13, TableFrame

\* A row that is absent is empty, in every behaviour.
LEMMA AbsentEmpty == Spec => []AbsentIsEmpty
<1>1. Init => AbsentIsEmpty
    BY DEF Init, EmptyTable, AbsentIsEmpty
<1>2. ASSUME IInv, AbsentIsEmpty, [Next]_vars PROVE AbsentIsEmpty'
    <2>1. CASE LoseDb
        BY <2>1 DEF LoseDb, EmptyTable, AbsentIsEmpty
    <2>2. CASE ~LoseDb
        <3>1. \A j \in Jobs : MovesOn(j)
            BY <1>2, <2>2, RowsMoveOn
        <3>2. QED
            BY <1>2, <3>1 DEF MovesOn, LifeCycle, MayFail, Held, AbsentIsEmpty
    <2>3. QED
        BY <2>1, <2>2
<1>3. QED
    BY <1>1, <1>2, Invariance, PTL DEF Spec

\* The states of JobState are passed one by one, whatever is repeated, resumed
\* after a kill or retried, and the counter of attempts only grows, for a job that
\* is CLAIMED, DOWNLOADED, RECORDED or in the upload that delivers it.
THEOREM LifeCycles == Spec => LifeCycleIsKept
<1>1. IInv /\ AbsentIsEmpty /\ [Next]_vars =>
          [\/ \A j \in Jobs : MovesOn(j)
           \/ Stopped /\ rows' = EmptyTable]_vars
    BY RowsMoveOn DEF LoseDb
<1>2. QED
    BY <1>1, Invariance, AbsentEmpty, PTL DEF Spec, LifeCycleIsKept

-------------------------------------------------------------------------------
(* Attempts are bounded *)

\* The number of faults never goes down.
LEMMA FaultsGrow == TypeOK /\ [Next]_vars => faults' >= faults
<1> SUFFICES ASSUME TypeOK, [Next]_vars PROVE faults' >= faults
    OBVIOUS
<1> USE DEF TypeOK, Fault, Raises, CallOk, CallFails, ReplyLost, Exits, Enter
<1>0. faults \in Nat
    BY ConstantsOK DEF ConstantsOK
<1> SUFFICES faults' = faults \/ faults' = faults + 1
    BY <1>0
<1>1. CASE Restart \/ Connect \/ ConnectFails \/ EnsureRemoteDirs \/ EndLoop
    BY <1>1 DEF Restart, Connect, ConnectFails, EnsureRemoteDirs, EndLoop
<1>2. CASE \/ ListProcessing \/ ListIncoming \/ ListClaimed \/ ListRecorded
           \/ ListFailed \/ ListDownloaded
    BY <1>2 DEF ListProcessing, ListIncoming, ListClaimed, ListRecorded,
       ListFailed, ListDownloaded
<1>3. CASE JobLoops
    BY <1>3 DEF JobLoops, Reconcile, Discover, Download, Upload, Tidy, Record
<1>4. CASE Adopt \/ Claim \/ MarkClaimed \/ DeferDownloads \/ FetchBegin
    BY <1>4 DEF Adopt, Claim, MarkClaimed, DeferDownloads, FetchBegin
<1>5. CASE \/ FetchEnd \/ MarkDownloaded \/ PutBegin \/ PutEnd \/ Publish
           \/ MarkUploaded
    BY <1>5 DEF FetchEnd, MarkDownloaded, PutBegin, PutEnd, Publish,
       MarkUploaded
<1>6. CASE \/ Retire \/ MarkDone \/ DeleteInput \/ DeleteRecording \/ Play
           \/ WriteRecording \/ MarkRecorded
    BY <1>6 DEF Retire, MarkDone, DeleteInput, DeleteRecording, Play,
       WriteRecording, MarkRecorded
<1>7. CASE CountFailure \/ GiveUp \/ TidyFailedJob
    BY <1>7 DEF CountFailure, GiveUp, TidyFailedJob
<1>8. ASSUME NEW inputs, NEW recs, NEW old, CleanupLocal(inputs, recs, old)
      PROVE  faults' = faults \/ faults' = faults + 1
    BY <1>8 DEF CleanupLocal
<1>9. CASE Crash \/ LoseDb \/ UNCHANGED vars
    BY <1>9 DEF Crash, LoseDb, vars
<1>10. ASSUME NEW j \in Jobs, Submit(j) PROVE faults' = faults
    BY <1>10 DEF Submit
<1>11. QED
    BY <1>1, <1>2, <1>3, <1>4, <1>5, <1>6, <1>7, <1>8, <1>9, <1>10
    DEF Next, Daemon

\* Between the two UPDATEs of _fail_or_retry there is nothing but a kill.
LEMMA BetweenUpdates ==
    ASSUME TypeOK, [Next]_vars, step = "giveup", ~GiveUp, ~Crash
    PROVE  UNCHANGED <<step, job>>
<1> USE DEF TypeOK, Loops, At, Stopped, Take, Pass
<1>1. ~(Restart \/ Connect \/ ConnectFails \/ EnsureRemoteDirs \/ EndLoop)
    BY DEF Restart, Connect, ConnectFails, EnsureRemoteDirs, EndLoop
<1>2. ~(\/ ListProcessing \/ ListIncoming \/ ListClaimed \/ ListRecorded
        \/ ListFailed \/ ListDownloaded)
    BY DEF ListProcessing, ListIncoming, ListClaimed, ListRecorded, ListFailed,
       ListDownloaded
<1>3. ~JobLoops
    BY DEF JobLoops, Reconcile, Discover, Download, Upload, Tidy, Record
<1>4. ~(\/ Adopt \/ Claim \/ MarkClaimed \/ DeferDownloads \/ FetchBegin
        \/ FetchEnd \/ MarkDownloaded)
    BY DEF Adopt, Claim, MarkClaimed, DeferDownloads, FetchBegin, FetchEnd,
       MarkDownloaded
<1>5. ~(\/ PutBegin \/ PutEnd \/ Publish \/ MarkUploaded \/ Retire \/ MarkDone
        \/ DeleteInput \/ DeleteRecording)
    BY DEF PutBegin, PutEnd, Publish, MarkUploaded, Retire, MarkDone,
       DeleteInput, DeleteRecording
<1>6. ~(\/ Play \/ WriteRecording \/ MarkRecorded \/ CountFailure
        \/ TidyFailedJob)
    BY DEF Play, WriteRecording, MarkRecorded, CountFailure, TidyFailedJob
<1>7. ~LoseDb /\ \A inputs, recs, old : ~CleanupLocal(inputs, recs, old)
    BY DEF LoseDb, CleanupLocal
<1>8. CASE (\E j \in Jobs : Submit(j)) \/ UNCHANGED vars
    BY <1>8 DEF Submit, vars
<1>9. QED
    BY <1>1, <1>2, <1>3, <1>4, <1>5, <1>6, <1>7, <1>8 DEF Next, Daemon

\* A job that is neither given up nor about to be has an attempt left, kills
\* that cut a giving up short counted in.
HasAttemptLeft(j) ==
    \/ rows[j].retries < Attempts + faults
    \/ /\ rows[j].retries = Attempts + faults
       /\ rows[j].state = "FAILED" \/ (step = "giveup" /\ job = j)

\* Only an attempt uses an attempt up.
LEMMA AttemptStep ==
    ASSUME IInv, AbsentIsEmpty, [Next]_vars, NEW k \in Jobs, HasAttemptLeft(k)
    PROVE  HasAttemptLeft(k)'
<1>0. /\ rows[k].retries \in Nat /\ rows'[k].retries \in Nat
      /\ faults \in Nat /\ faults' \in Nat /\ faults' >= faults
      /\ MaxRetries \in Nat /\ Attempts \in Nat \ {0}
      /\ MaxRetries <= Attempts
      /\ Attempts' = Attempts
    BY TypeStep, FaultsGrow, ConstantsOK, MaxRetriesIsNat
    DEF IInv, TypeOK, Row, ConstantsOK, Attempts
<1>1. CASE LoseDb
    BY <1>0, <1>1 DEF LoseDb, Fault, EmptyTable, NoRow, HasAttemptLeft
<1>2. CASE CountFailure /\ job = k
    <2>1. /\ rows[k].retries < Attempts + faults
          /\ rows'[k] = [state |-> rows[k].state,
                         retries |-> rows[k].retries + 1]
          /\ faults' = faults
          /\ BudgetSpent(rows', k) => step' = "giveup" /\ job' = k
        BY <1>0, <1>2
        DEF CountFailure, RecordFailure, HasAttemptLeft, Goto, IInv, TypeOK,
            Row, PassIsConsistent, BudgetSpent
    <2>2. CASE BudgetSpent(rows', k)
        BY <1>0, <2>1, <2>2 DEF HasAttemptLeft
    <2>3. CASE ~BudgetSpent(rows', k)
        BY <1>0, <2>1, <2>3 DEF BudgetSpent, HasAttemptLeft
    <2>4. QED
        BY <2>2, <2>3
<1>3. CASE ~LoseDb /\ ~(CountFailure /\ job = k)
    <2>1. rows'[k].retries = rows[k].retries
        BY <1>3, RowsMoveOn
    <2>2. rows[k].state = "FAILED" => rows'[k].state = "FAILED"
        BY <1>3, RowsMoveOn DEF MovesOn, LifeCycle, MayFail, Held
    <2>3. CASE GiveUp /\ job = k
        BY <1>0, <2>1, <2>3 DEF GiveUp, SetState, HasAttemptLeft, IInv,
           TypeOK, JobStep, PassIsConsistent
    <2>4. CASE Crash
        BY <1>0, <2>1, <2>4 DEF Crash, Fault, HasAttemptLeft
    <2>5. CASE ~(GiveUp /\ job = k) /\ ~Crash
        BY <1>0, <2>1, <2>2, <2>5, BetweenUpdates
        DEF HasAttemptLeft, IInv, GiveUp
    <2>6. QED
        BY <2>3, <2>4, <2>5
<1>4. QED
    BY <1>1, <1>2, <1>3

\* max_job_retries is a bound, with or without faults: no job is charged more
\* often, except once for each kill between the two UPDATEs.
THEOREM AttemptsEnd == Spec => []AttemptsAreBounded
<1> DEFINE AllHave == \A j \in Jobs : HasAttemptLeft(j)
<1>1. Init => AllHave
    <2> SUFFICES ASSUME Init, NEW j \in Jobs PROVE HasAttemptLeft(j)
        OBVIOUS
    <2>1. Attempts \in Nat \ {0}
        BY MaxRetriesIsNat DEF Attempts
    <2>2. rows[j].retries = 0 /\ faults = 0
        BY DEF Init, EmptyTable, NoRow
    <2>3. QED
        BY <2>1, <2>2 DEF HasAttemptLeft
<1>2. IInv /\ AbsentIsEmpty /\ AllHave /\ [Next]_vars => AllHave'
    BY AttemptStep
<1>3. IInv /\ AllHave => AttemptsAreBounded
    <2> SUFFICES ASSUME IInv, NEW j \in Jobs, HasAttemptLeft(j)
                 PROVE  rows[j].retries <= Attempts + faults
        BY DEF AttemptsAreBounded
    <2>1. rows[j].retries \in Nat /\ faults \in Nat /\ Attempts \in Nat
        BY ConstantsOK, MaxRetriesIsNat
        DEF IInv, TypeOK, Row, ConstantsOK, Attempts
    <2>2. QED
        BY <2>1 DEF HasAttemptLeft
<1> HIDE DEF AllHave
<1>4. QED
    BY <1>1, <1>2, <1>3, Invariance, AbsentEmpty, PTL DEF Spec

-------------------------------------------------------------------------------
(* What is cut off stays cut off                                           *)

\* _upload_pending has let go of job j, by a kill or a call that raised ...
LetGo(j) == ~(phase = "upload" /\ job = j)

\* ... between the UPLOADED commit and the rename to done/, or after it.
Stuck(j)    == /\ LetGo(j) /\ source[j] = "processing"
               /\ rows[j].state = "UPLOADED"
Leftover(j) == /\ LetGo(j) /\ source[j] = "done"
               /\ rows[j].state \in {"ABSENT", "UPLOADED", "DONE"}

\* What the server and the local disk hold of job j under final names.
Files(j) == <<source[j], result[j], input[j], rec[j]>>

\* No pass takes such a job up again ...
LEMMA NotTakenUp ==
    ASSUME IInv, [Next]_vars, NEW k \in Jobs, Stuck(k) \/ Leftover(k)
    PROVE  LetGo(k)'
<1> USE DEF IInv, TypeOK, PassIsConsistent, SnapshotIsFresh, LetGo, Stuck,
    Leftover, Goto, Continue, Take, Pass, Enter, Iterate, Exits, JobStep,
    Loops, At, Stopped
<1>0. job' \in {job, NoJob} /\ phase' = phase => LetGo(k)'
    BY ConstantsOK DEF ConstantsOK
<1>1. ASSUME NEW j \in Jobs,
             \/ Reconcile(j) \/ Discover(j) \/ Download(j) \/ Upload(j)
             \/ Tidy(j) \/ Record(j)
      PROVE  LetGo(k)'
    BY <1>1 DEF Reconcile, Discover, Download, Upload, Tidy, Record
<1>2. CASE Restart \/ Connect \/ ConnectFails \/ EnsureRemoteDirs \/ EndLoop
    BY <1>2, ConstantsOK DEF ConstantsOK, Restart, Connect, ConnectFails,
       EnsureRemoteDirs, EndLoop
<1>3. CASE \/ ListProcessing \/ ListIncoming \/ ListClaimed \/ ListRecorded
           \/ ListFailed \/ ListDownloaded
    BY <1>3, ConstantsOK DEF ConstantsOK, ListProcessing, ListIncoming,
       ListClaimed, ListRecorded,
       ListFailed, ListDownloaded
<1>4. CASE \/ Adopt \/ Claim \/ MarkClaimed \/ DeferDownloads \/ FetchBegin
           \/ FetchEnd \/ MarkDownloaded
    BY <1>0, <1>4 DEF Adopt, Claim, MarkClaimed, DeferDownloads, FetchBegin,
       FetchEnd, MarkDownloaded
<1>5. CASE \/ PutBegin \/ PutEnd \/ Publish \/ MarkUploaded \/ Retire
           \/ MarkDone \/ DeleteInput \/ DeleteRecording
    BY <1>0, <1>5 DEF PutBegin, PutEnd, Publish, MarkUploaded, Retire, MarkDone,
       DeleteInput, DeleteRecording
<1>6. CASE \/ Play \/ WriteRecording \/ MarkRecorded \/ CountFailure
           \/ GiveUp \/ TidyFailedJob
    BY <1>0, <1>6, ConstantsOK DEF ConstantsOK, Play, WriteRecording,
       MarkRecorded, CountFailure, GiveUp,
       TidyFailedJob
<1>7. ASSUME NEW inputs, NEW recs, NEW old, CleanupLocal(inputs, recs, old)
      PROVE  LetGo(k)'
    BY <1>7, ConstantsOK DEF ConstantsOK, CleanupLocal
<1>8. CASE \/ Crash \/ LoseDb \/ (\E j \in Jobs : Submit(j)) \/ UNCHANGED vars
    BY <1>0, <1>8, ConstantsOK DEF ConstantsOK, Crash, LoseDb, Submit, vars
<1>9. QED
    BY <1>1, <1>2, <1>3, <1>4, <1>5, <1>6, <1>7, <1>8 DEF Next, Daemon, JobLoops

\* ... nothing moves, publishes, sweeps or deletes a file of it ...
LEMMA FilesLeftAlone ==
    ASSUME IInv, [Next]_vars, NEW k \in Jobs, Stuck(k) \/ Leftover(k)
    PROVE  Files(k)' = Files(k)
<1> USE DEF IInv, TypeOK, PassIsConsistent, LetGo, Stuck, Leftover, Files,
    JobStep, Loops, At, server, local
<1>1. CASE JobLoops
    BY <1>1 DEF JobLoops, Reconcile, Discover, Download, Upload, Tidy, Record
<1>2. CASE Restart \/ Connect \/ ConnectFails \/ EnsureRemoteDirs \/ EndLoop
    BY <1>2 DEF Restart, Connect, ConnectFails, EnsureRemoteDirs, EndLoop
<1>3. CASE \/ ListProcessing \/ ListIncoming \/ ListClaimed \/ ListRecorded
           \/ ListFailed \/ ListDownloaded
    BY <1>3 DEF ListProcessing, ListIncoming, ListClaimed, ListRecorded,
       ListFailed, ListDownloaded
<1>4. CASE Adopt \/ Claim \/ MarkClaimed \/ DeferDownloads
    BY <1>4 DEF Adopt, Claim, MarkClaimed, DeferDownloads
<1>5. CASE FetchBegin \/ FetchEnd \/ MarkDownloaded
    BY <1>5 DEF FetchBegin, FetchEnd, MarkDownloaded
<1>6. CASE \/ PutBegin \/ PutEnd \/ Publish \/ MarkUploaded \/ Retire
           \/ MarkDone
    BY <1>6 DEF PutBegin, PutEnd, Publish, MarkUploaded, Retire, MarkDone
<1>7. CASE DeleteInput \/ DeleteRecording \/ Play \/ WriteRecording
    BY <1>7 DEF DeleteInput, DeleteRecording, Play, WriteRecording
<1>8. CASE MarkRecorded \/ CountFailure \/ GiveUp \/ TidyFailedJob
    BY <1>8 DEF MarkRecorded, CountFailure, GiveUp, TidyFailedJob
<1>9. ASSUME NEW inputs \in SUBSET JobsInState(rows, "FAILED"),
             NEW recs \in SUBSET inputs, NEW old,
             CleanupLocal(inputs, recs, old)
      PROVE  Files(k)' = Files(k)
    BY <1>9 DEF CleanupLocal, JobsInState
<1>10. CASE Crash \/ LoseDb \/ (\E j \in Jobs : Submit(j)) \/ UNCHANGED vars
    BY <1>10 DEF Crash, LoseDb, Submit, vars
<1>11. QED
    BY <1>1, <1>2, <1>3, <1>4, <1>5, <1>6, <1>7, <1>8, <1>9, <1>10
    DEF Next, Daemon

\* ... and its row stays as it is, unless the whole table is lost.
LEMMA RowLeftAlone ==
    ASSUME IInv, AbsentIsEmpty, [Next]_vars, NEW k \in Jobs,
           Stuck(k) \/ Leftover(k)
    PROVE  rows'[k] = rows[k] \/ rows' = EmptyTable
<1> USE DEF IInv, TypeOK, PassIsConsistent, SnapshotIsFresh, LetGo, Stuck,
    Leftover, SetState, Row, JobStep, Loops, At, Take, Pass
<1>1. ASSUME NEW j \in Jobs, Reconcile(j) PROVE rows'[k] = rows[k]
    BY <1>1 DEF Reconcile, UpsertDiscovered
<1>2. ASSUME NEW j \in Jobs, Discover(j) PROVE rows'[k] = rows[k]
    BY <1>2 DEF Discover, UpsertDiscovered
<1>3. ASSUME NEW j \in Jobs, Download(j) \/ Record(j) PROVE rows'[k] = rows[k]
    BY <1>3 DEF Download, Record
<1>4. CASE Adopt \/ MarkClaimed \/ MarkDownloaded \/ MarkRecorded
    BY <1>4 DEF Adopt, MarkClaimed, MarkDownloaded, MarkRecorded
<1>5. CASE MarkUploaded \/ MarkDone
    BY <1>5 DEF MarkUploaded, MarkDone
<1>6. CASE CountFailure \/ GiveUp
    BY <1>6 DEF CountFailure, GiveUp, RecordFailure
<1>7. CASE LoseDb \/ UNCHANGED rows
    BY <1>7 DEF LoseDb
<1>8. QED
    BY <1>1, <1>2, <1>3, <1>4, <1>5, <1>6, <1>7, TableFrame

\* A recording that was delivered and not deleted in the same pass is never
\* deleted, table or no table: no sweep, retry or restart looks at it again.
\* The README's "as soon as its recording is confirmed uploaded" has no second
\* chance in any run.
THEOREM LeftoversStay ==
    ASSUME NEW j \in Jobs, NEW files
    PROVE  Spec => [](Leftover(j) /\ Files(j) = files
                          => [](Leftover(j) /\ Files(j) = files))
<1>1. ASSUME IInv, AbsentIsEmpty, [Next]_vars, Leftover(j), Files(j) = files
      PROVE  Leftover(j)' /\ (Files(j) = files)'
    <2>1. LetGo(j)'
        BY <1>1, NotTakenUp
    <2>2. Files(j)' = files
        BY <1>1, FilesLeftAlone
    <2>3. source'[j] = "done"
        BY <1>1, <2>2 DEF Files, Leftover
    <2>4. rows'[j].state \in {"ABSENT", "UPLOADED", "DONE"}
        BY <1>1, RowLeftAlone DEF Leftover, EmptyTable, NoRow
    <2>5. QED
        BY <2>1, <2>2, <2>3, <2>4 DEF Leftover
<1>2. QED
    BY <1>1, Invariance, AbsentEmpty, PTL DEF Spec

\* A job that was cut off between the UPLOADED commit and the rename to done/
\* stays UPLOADED with its source in processing/ for as long as the table is
\* not lost: "safe to resume after a crash" (JobState) has no path from there.
THEOREM StuckStays ==
    ASSUME NEW j \in Jobs
    PROVE  Spec => [](Stuck(j) => []Stuck(j) \/ <>(rows = EmptyTable))
<1>1. ASSUME IInv, AbsentIsEmpty, [Next]_vars, Stuck(j)
      PROVE  Stuck(j)' \/ (rows = EmptyTable)'
    BY <1>1, NotTakenUp, FilesLeftAlone, RowLeftAlone DEF Stuck, Files
<1>2. QED
    BY <1>1, Invariance, AbsentEmpty, PTL DEF Spec
================================================================================
