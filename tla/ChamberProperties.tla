--------------------------- MODULE ChamberProperties ---------------------------
(***************************************************************************)
(* What the chamber daemon must and must never do, stated over             *)
(* ChamberClient: invariants that relate its three stores (the server, the *)
(* job table, the local files), what one step may not do, what must happen *)
(* in the end, and, last, what the documentation says that the code does   *)
(* not keep.                                                               *)
(***************************************************************************)
EXTENDS ChamberClient

\* Every variable keeps its type; a step inside a loop body has a job that is
\* no longer in the loop's snapshot; a loop belongs to one of the six methods
\* that iterate.
TypeOK ==
    /\ source \in [Jobs -> Dir]
    /\ result \in [Jobs -> Content]
    /\ part \in [Jobs -> Content]
    /\ rows \in [Jobs -> Row]
    /\ input \in [Jobs -> {"none", "torn", "full"}]
    /\ rec \in [Jobs -> {"none", "short", "full"}]
    /\ tmp \in SUBSET Jobs
    /\ orphans \in SUBSET Jobs
    /\ phase \in Phase
    /\ step \in {"start", "next"} \cup JobStep
    /\ step \in JobStep => job \in Jobs \ todo
    /\ step # "start" => phase \in Loops
    /\ todo \in SUBSET Jobs
    /\ job \in Jobs \cup {NoJob}
    /\ link \in {"up", "down"}
    /\ faults \in 0..MaxFaults

-------------------------------------------------------------------------------
(* Safety: the three stores agree after every step, kills included *)

Held == {"CLAIMED", "DOWNLOADED", "RECORDED"}

\* The claim: a job the table says this client works on has its source in
\* processing/, whatever the interleaving of the claim's rename, its commit
\* and a kill (_discover_and_claim, _reconcile).  The download and the rename
\* to done/ would find no file otherwise.
HeldIsProcessing ==
    \A j \in Jobs : rows[j].state \in Held => source[j] = "processing"

\* "a state is only ever set once its on-disk artifact has been verified"
\* (JobStore docstring), as far as the code keeps it: a DOWNLOADED job has its
\* complete input and a RECORDED job some recording, also after a sweep, a
\* restart on an old table or a table rebuilt from processing/.
LocalFilesBackState ==
    \A j \in Jobs :
        /\ rows[j].state = "DOWNLOADED" => input[j] = "full"
        /\ rows[j].state = "RECORDED" => rec[j] # "none"

\* A source is in done/, and a row UPLOADED or DONE, only with the recording
\* in recordings/: put, publish, commit, rename, commit in _upload_pending.
DoneIsDelivered ==
    \A j \in Jobs :
        /\ rows[j].state \in {"UPLOADED", "DONE"} => result[j] # "none"
        /\ rows[j].state = "DONE" => source[j] = "done"
        /\ source[j] = "done" => result[j] # "none"

\* Nothing that polls recordings/, and no check for a local input, ever sees
\* the torn half of a transfer under its final name (upload_atomic,
\* download_atomic, download_audio).
NoTornFile ==
    \A j \in Jobs : input[j] # "torn" /\ result[j] # "torn"

\* A job is given up only when its budget is spent, also when a kill falls
\* between the UPDATE of the counter and the one of the state
\* (_fail_or_retry, record_failure).
NoEarlyFailure ==
    \A j \in Jobs : rows[j].state = "FAILED" => rows[j].retries >= MaxRetries

\* One lost connection fails the call of every job behind it, but it costs no
\* job more than one attempt: a job that can be decoded and played is never
\* charged more often than something went wrong, although download,
\* recording and upload share one counter and a pass may try all three.
RetriesPaidByFaults ==
    \A j \in Jobs \ (Unplayable \cup Undecodable) : rows[j].retries <= faults

\* No job is tried for ever, not even one that can never be decoded or played:
\* it is charged max_job_retries times (once, if that is 0) and once more for
\* each kill that fell between the two UPDATEs.  Kills are not told from other
\* faults here, so the bound leaves room for one more attempt for any of them.
Attempts == IF MaxRetries = 0 THEN 1 ELSE MaxRetries

AttemptsAreBounded ==
    \A j \in Jobs : rows[j].retries <= Attempts + faults

\* A recording leaves the local disk only after it is on the server or its
\* job was given up (_delete_local_files has two callers).
RecordingKeptUntilDelivered ==
    [][\A j \in Jobs : rec[j] # "none" /\ rec'[j] = "none" =>
           result[j] # "none" \/ rows[j].state = "FAILED"]_vars

\* A listing is taken once and used job by job, over calls that fail, kills
\* and commits: each job still in the snapshot is as the listing found it.
SnapshotIsFresh ==
    \A j \in todo :
        /\ phase = "reconcile" => source[j] = "processing"
        /\ phase = "discover" => source[j] = "incoming"
        /\ phase = "download" => rows[j].state = "CLAIMED"
        /\ phase = "upload" => rows[j].state = "RECORDED"
        /\ phase = "tidy" => rows[j].state = "FAILED"
        /\ phase = "record" => rows[j].state = "DOWNLOADED"

\* Wherever the pass stands, row, server and disk of its job are as the calls
\* before that point left them, the except clause and _fail_or_retry included.
PassIsConsistent ==
    LET is(S) == rows[job].state \in S
    IN  /\ phase \in {"dirs", "reconcile"} => link = "up"
        /\ step = "adopt" => is({"DISCOVERED"}) /\ source[job] = "processing"
        /\ step = "claim" => is({"DISCOVERED"}) /\ source[job] = "incoming"
        /\ step = "claimed" => is({"DISCOVERED"}) /\ source[job] = "processing"
        /\ step \in {"fetch", "fetching", "fetched"} => is({"CLAIMED"})
        /\ step = "fetched" => input[job] = "full"
        /\ step \in {"play", "write", "wrote"} => is({"DOWNLOADED"})
        /\ step = "play" => rec[job] = "none"
        /\ step = "wrote" => rec[job] # "none"
        /\ step \in {"put", "putting", "publish", "uploaded"} =>
               is({"RECORDED"})
        /\ step = "publish" => part[job] = rec[job]
        /\ step = "uploaded" => result[job] # "none"
        /\ step = "retire" => is({"UPLOADED"}) /\ source[job] = "processing"
        /\ step = "retired" => is({"UPLOADED"}) /\ source[job] = "done"
        /\ step \in {"clean", "cleaned"} => is({"DONE"})
        /\ step \in {"failure", "giveup"} =>
               /\ phase \in {"download", "upload", "record"}
               /\ phase = "download" => is({"CLAIMED"})
               /\ phase = "upload" => is({"RECORDED", "UPLOADED", "DONE"})
               /\ phase = "record" => is({"DOWNLOADED"})
        /\ step = "giveup" => BudgetSpent(rows, job)
        /\ step = "tidyone" =>
               is({"FAILED"}) /\ phase \in {"download", "upload", "tidy"}

\* The two together: whatever fails or is killed, no loop acts on a state that
\* is no longer there.
PassStaysInStep == SnapshotIsFresh /\ PassIsConsistent

\* "every transition idempotent and safe to resume after a crash" (JobState): a
\* step of the pass that is repeated or resumed neither skips a state nor goes
\* back to one.  The counter is never reset.  Only the loss of the whole table,
\* between two runs of the daemon, undoes any of it.
\* A job is charged or given up while it is CLAIMED, DOWNLOADED or RECORDED.
\* There is one exception, and TERMINAL in job_store.py does not keep it: in the
\* upload that delivers it a job is UPLOADED or DONE already when the rename to
\* done/ or an unlink fails inside the try block, so that even a DONE job may be
\* charged and turn FAILED.  Once that loop has left it, in a later pass or after
\* a kill, nothing charges it again.
LifeCycle == {<<"ABSENT", "DISCOVERED">>, <<"DISCOVERED", "CLAIMED">>,
              <<"CLAIMED", "DOWNLOADED">>, <<"DOWNLOADED", "RECORDED">>,
              <<"RECORDED", "UPLOADED">>, <<"UPLOADED", "DONE">>}

MayFail(j) ==
    \/ rows[j].state \in Held
    \/ rows[j].state \in {"UPLOADED", "DONE"} /\ phase = "upload" /\ job = j

MovesOn(j) ==
    \/ rows'[j] = rows[j]
    \/ /\ rows'[j].retries = rows[j].retries
       /\ \/ <<rows[j].state, rows'[j].state>> \in LifeCycle
          \/ MayFail(j) /\ rows'[j].state = "FAILED"
    \/ /\ rows'[j].retries = rows[j].retries + 1
       /\ MayFail(j) /\ rows'[j].state = rows[j].state

LifeCycleIsKept ==
    [][\/ \A j \in Jobs : MovesOn(j)
       \/ Stopped /\ rows' = EmptyTable]_vars

\* Refinement: seen from the server's directories, the daemon with all its
\* retries, kills and lost tables is a simple queue, "incoming/ ->
\* processing/ -> recordings/ + done/ (or failed/)".
Queue == INSTANCE JobQueue
           WITH place <- source,
                answered <- {j \in Jobs : result[j] # "none"}
ImplementsQueue == Queue!Spec

-------------------------------------------------------------------------------
(* Fairness.  WF: systemd restarts the daemon, its loop sleeps for a       *)
(* bounded time and each of its calls returns or raises.                   *)

FairSpec == Spec /\ WF_vars(Daemon)

\* What else a liveness property may need, as a hypothesis of its own: the
\* server is reachable again and again ...
ServerReachable == SF_vars(Connect)

\* ... or files grow old: a cleanup keeps coming that finds all of them past
\* their retention.
AllFailed == JobsInState(rows, "FAILED")
FilesAge  == SF_vars(CleanupLocal(AllFailed, AllFailed, tmp))

ConnectedSpec == FairSpec /\ ServerReachable
SweptSpec     == FairSpec /\ FilesAge

(* Liveness *)

\* "playback/recording never blocks on the network": a downloaded job is
\* played and leaves DOWNLOADED even if the server is never reached again.
RecordsOffline ==
    \A j \in Jobs : rows[j].state = "DOWNLOADED"
                        ~> rows[j].state # "DOWNLOADED"

\* Whoever waits is answered: a job in incoming/ gets its recording or shows
\* up in failed/, the two directories the uploader polls.
EveryJobResolved == ServerReachable =>
    \A j \in Jobs : source[j] = "incoming"
                        ~> result[j] # "none" \/ source[j] = "failed"

\* Bad jobs hurt nobody else.  As long as there were fewer faults than
\* attempts, a job that can be decoded and played gets its recording, whatever
\* is queued beside it ...
GoodJobsAnswered == ServerReachable =>
    \A j \in Jobs \ (Undecodable \cup Unplayable) :
        source[j] = "incoming" ~> result[j] # "none" \/ faults >= MaxRetries

\* ... and one that cannot ends in failed/, also when it was given up while
\* no connection was there to move it (_tidy_pending_failures).
BadJobsRejected == ServerReachable =>
    \A j \in Undecodable \cup Unplayable :
        source[j] = "incoming" ~> source[j] = "failed"

\* The sweep reaches the files of a job that stays FAILED, restarts and
\* exiting sweeps notwithstanding (_cleanup_local).
FailedFilesSwept == FilesAge =>
    \A j \in Jobs : rows[j].state = "FAILED"
                        ~> \/ input[j] = "none" /\ rec[j] = "none"
                           \/ rows[j].state # "FAILED"

\* The .tmp a broken download of a plain .wav left in downloads/ is not there
\* for ever.  That of a .wav.xz is: it is in a directory of its own
\* (chamber-xz-*/audio.wav.xz.tmp), which the glob of _cleanup_local does not
\* look into, though "orphaned temp files are swept on a TTL" (README).  Such
\* jobs are in orphans, never in tmp.
TempFilesSwept == FilesAge => \A j \in Jobs : j \in tmp ~> j \notin tmp

-------------------------------------------------------------------------------
(* What the documentation says and the code does not keep *)

\* "idempotent and safe to resume after a crash" (job_store.py): a job in any
\* state of the table gets on to a terminal one.  No method lists UPLOADED.
UploadedResumes ==
    \A j \in Jobs : rows[j].state = "UPLOADED" ~> rows[j].state \in Terminal

\* "a job's local files are deleted as soon as its recording is confirmed
\* uploaded" (README): no sweep looks at a DONE job whose deletion was cut off.
DeliveredFilesReclaimed ==
    \A j \in Jobs : rows[j].state = "DONE"
                        ~> input[j] = "none" /\ rec[j] = "none"

\* "(a file of the expected size) has been verified" (job_store.py): a job is
\* RECORDED with a whole recording.  sf.write fills the final path in place
\* and _record_pending only asks whether that path exists.
RecordedIsComplete ==
    \A j \in Jobs : rows[j].state = "RECORDED" => rec[j] = "full"

\* "lost sftp connection mid-pass" is logged and survived (_run_loop), but
\* what paramiko raises is not the exception that clause names.
SurvivesNetwork == phase # "exited"
===============================================================================
