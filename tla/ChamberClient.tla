----------------------------- MODULE ChamberClient -----------------------------
(***************************************************************************)
(* The chamber daemon: client/state_machine.py with the parts of           *)
(* client/sftp_client.py, client/transfer.py and client/audio.py it calls. *)
(* One process repeats a pass                                              *)
(*                                                                         *)
(*   connect, dirs, reconcile, discover, download, upload, tidy, (close)   *)
(*   record, cleanup, sleep                                                *)
(*                                                                         *)
(* over three stores that survive it: the SFTP server, the SQLite table    *)
(* and the local files.  Each remote call, commit and file operation is a  *)
(* step of its own, so that a kill, a dropped connection or a failing call *)
(* may fall between any two of them.                                       *)
(*                                                                         *)
(* "phase" is the method that runs; "step" is where it stands: "start"     *)
(* before its listing, "next" at the head of its for loop, otherwise       *)
(* inside the body for "job".  "todo" is the snapshot the loop iterates    *)
(* over; its order is left open.                                           *)
(***************************************************************************)
EXTENDS JobStore

CONSTANTS NoJob,        \* no job is being handled
          XzJobs,       \* jobs uploaded as .wav.xz; the others are legacy .wav
          Undecodable,  \* jobs whose .xz stream does not decode
          Unplayable,   \* jobs the audio device can never play
          MaxFaults     \* bound on injected faults: kills, failing calls, ...

ASSUME ConstantsOK ==
    /\ NoJob \notin Jobs
    /\ XzJobs \subseteq Jobs
    /\ Undecodable \subseteq XzJobs
    /\ Unplayable \subseteq Jobs
    /\ MaxFaults \in Nat

VARIABLES
    source,   \* server: the directory that holds the job's source file
    result,   \* server: content of recordings/<job>__recording.wav[.xz]
    part,     \* server: content of the same name with .part appended
    rows,     \* the SQLite job table
    input,    \* local: downloads/<job>.wav
    rec,      \* local: recordings/<job>.wav
    tmp,      \* local: jobs with a downloads/<job>.wav.tmp
    orphans,  \* local: jobs with a downloads/chamber-xz-* left by a dead process
    phase, step, todo, job,
    link,     \* the SFTP connection of this pass: "up" or "down"
    faults    \* faults injected so far

server == <<source, result, part>>
local  == <<input, rec, tmp, orphans>>
vars   == <<server, rows, local, phase, step, todo, job, link, faults>>

Dir     == {"unsent", "incoming", "processing", "done", "failed"}
Content == {"none", "torn", "short", "full"}  \* torn transfer, short capture
Phase   == {"killed", "exited", "connect", "dirs", "reconcile", "discover",
            "download", "upload", "tidy", "record", "cleanup"}
JobStep == {"adopt", "claim", "claimed", "fetch", "fetching", "fetched",
            "put", "putting", "publish", "uploaded", "retire", "retired",
            "clean", "cleaned", "play", "write", "wrote",
            "failure", "giveup", "tidyone"}

Stopped == phase \in {"killed", "exited"}
At(p, s) == phase = p /\ step = s

-------------------------------------------------------------------------------
(* Control flow *)

Goto(s) == step' = s /\ UNCHANGED <<phase, todo, job>>

\* Back to the head of the for loop.
Continue == step' = "next" /\ job' = NoJob /\ UNCHANGED <<phase, todo>>
\* Mutant: the body runs while its job is still in the snapshot.
TakeAndKeep(j, s) ==
    /\ step = "next" /\ j \in todo
    /\ job' = j /\ step' = s
    /\ UNCHANGED <<phase, todo>>

\* The loop takes j out of its snapshot and enters the body ...
Take(j, s) ==
    /\ step = "next" /\ j \in todo
    /\ todo' = todo \ {j} /\ job' = j /\ step' = s
    /\ UNCHANGED phase

\* ... or is done with j at once.
Pass(j) ==
    /\ step = "next" /\ j \in todo
    /\ todo' = todo \ {j}
    /\ UNCHANGED <<phase, step, job>>

Enter(p) == phase' = p /\ step' = "start" /\ todo' = {} /\ job' = NoJob

Iterate(S) == step' = "next" /\ todo' = S /\ UNCHANGED <<phase, job>>

(* Remote calls *)

Fault == faults < MaxFaults /\ faults' = faults + 1

CallOk == link = "up" /\ UNCHANGED <<link, faults>>

\* A call raises at no cost on a dead connection; on a live one it takes a
\* fault, which may or may not be the end of the connection.
Raises == \/ link = "down" /\ UNCHANGED faults
          \/ link = "up" /\ Fault
CallFails == Raises /\ link' \in {"down", link}

\* The server carried the call out but the reply never arrived.
ReplyLost == link = "up" /\ Fault /\ link' = "down"

\* The exception is none of SftpConnectionError (paramiko raises OSError,
\* EOFError or SSHException), so neither _run_loop nor main catches it.
Exits == Raises /\ link' = "down" /\ Enter("exited")

-------------------------------------------------------------------------------
Init ==
    /\ source = [j \in Jobs |-> "unsent"]
    /\ result = [j \in Jobs |-> "none"]
    /\ part = [j \in Jobs |-> "none"]
    /\ rows = EmptyTable
    /\ input = [j \in Jobs |-> "none"]
    /\ rec = [j \in Jobs |-> "none"]
    /\ tmp = {} /\ orphans = {}
    /\ phase = "killed" /\ step = "start" /\ todo = {} /\ job = NoJob
    /\ link = "down" /\ faults = 0

(* The environment: the uploader's atomic rename into incoming/, and the   *)
(* faults.                                                                 *)
Submit(j) ==
    /\ source[j] = "unsent"
    /\ source' = [source EXCEPT ![j] = "incoming"]
    /\ UNCHANGED <<result, part, rows, local, phase, step, todo, job,
                   link, faults>>

\* A kill at any point (SIGTERM only stops at the head of the pass, which is
\* one of these points).  A TemporaryDirectory dies uncollected.
Crash ==
    /\ ~Stopped /\ Fault
    /\ orphans' = IF step \in {"fetch", "fetching"} /\ job \in XzJobs
                  THEN orphans \cup {job} ELSE orphans
    /\ Enter("killed") /\ link' = "down"
    /\ UNCHANGED <<server, rows, input, rec, tmp>>

\* "total loss of the local DB"; the files beside it stay.
LoseDb ==
    /\ Stopped /\ Fault
    /\ rows # EmptyTable /\ rows' = EmptyTable
    /\ UNCHANGED <<server, local, phase, step, todo, job, link>>

\* systemd: Restart=always.
Restart ==
    /\ Stopped
    /\ Enter("connect")
    /\ UNCHANGED <<server, rows, local, link, faults>>

(* _run_loop *)
Connect ==
    /\ phase = "connect"
    /\ link' = "up" /\ Enter("dirs")
    /\ UNCHANGED <<server, rows, local, faults>>
\* Mutant: an unconnected pass skips _record_pending.
ConnectFailsSkips ==
    /\ phase = "connect"
    /\ Enter("cleanup")
    /\ UNCHANGED <<server, rows, local, link, faults>>

\* SftpConnectionError of connect(): the pass goes on without a connection.
ConnectFails ==
    /\ phase = "connect"
    /\ Enter("record")
    /\ UNCHANGED <<server, rows, local, link, faults>>

EnsureRemoteDirs ==
    /\ phase = "dirs"
    /\ \/ CallOk /\ Enter("reconcile")
       \/ Exits
    /\ UNCHANGED <<server, rows, local>>

Loops == {"reconcile", "discover", "download", "upload", "tidy", "record"}

AfterLoop(p) ==
    CASE p = "reconcile" -> "discover" [] p = "discover" -> "download"
      [] p = "download" -> "upload"    [] p = "upload" -> "tidy"
      [] p = "tidy" -> "record"        [] p = "record" -> "cleanup"

\* sftp.close() follows the tidy loop.
EndLoop ==
    /\ step = "next" /\ todo = {}
    /\ Enter(AfterLoop(phase))
    /\ link' = IF phase = "tidy" THEN "down" ELSE link
    /\ UNCHANGED <<server, rows, local, faults>>

(* _reconcile *)
ListProcessing ==
    /\ At("reconcile", "start")
    /\ \/ CallOk /\ Iterate({j \in Jobs : source[j] = "processing"})
       \/ Exits
    /\ UNCHANGED <<server, rows, local>>
\* Mutant: a row stuck in DISCOVERED is not repaired.
ReconcileAbsentOnly(j) ==
    /\ phase = "reconcile"
    /\ IF rows[j].state = "ABSENT" THEN Take(j, "adopt") ELSE Pass(j)
    /\ rows' = UpsertDiscovered(rows, j)
    /\ UNCHANGED <<server, local, link, faults>>

\* Mutant: whatever is in processing/ counts as just claimed.
ReconcileAny(j) ==
    /\ phase = "reconcile" /\ Pass(j)
    /\ rows' = SetState(rows, j, "CLAIMED")
    /\ UNCHANGED <<server, local, link, faults>>

Reconcile(j) ==
    /\ phase = "reconcile"
    /\ \/ /\ rows[j].state = "ABSENT"
          /\ Take(j, "adopt")
          /\ rows' = UpsertDiscovered(rows, j)
       \/ /\ rows[j].state = "DISCOVERED"
          /\ Pass(j)
          /\ rows' = SetState(rows, j, "CLAIMED")
       \/ /\ rows[j].state \notin {"ABSENT", "DISCOVERED"}
          /\ Pass(j)
          /\ UNCHANGED rows
    /\ UNCHANGED <<server, local, link, faults>>

Adopt ==
    /\ At("reconcile", "adopt")
    /\ rows' = SetState(rows, job, "CLAIMED")
    /\ Continue
    /\ UNCHANGED <<server, local, link, faults>>

(* _discover_and_claim *)
ListIncoming ==
    /\ At("discover", "start")
    /\ \/ CallOk /\ Iterate({j \in Jobs : source[j] = "incoming"})
       \/ Exits
    /\ UNCHANGED <<server, rows, local>>
\* Mutant: only a job seen for the first time is claimed.
DiscoverNewOnly(j) ==
    /\ phase = "discover"
    /\ rows' = UpsertDiscovered(rows, j)
    /\ IF rows[j].state = "ABSENT" THEN Take(j, "claim") ELSE Pass(j)
    /\ UNCHANGED <<server, local, link, faults>>

Discover(j) ==
    /\ phase = "discover"
    /\ rows' = UpsertDiscovered(rows, j)
    /\ IF rows'[j].state = "DISCOVERED" THEN Take(j, "claim") ELSE Pass(j)
    /\ UNCHANGED <<server, local, link, faults>>
\* Mutant: the commit follows the rename whether or not it worked.
ClaimUnchecked ==
    /\ At("discover", "claim")
    /\ \/ CallOk /\ source' = [source EXCEPT ![job] = "processing"]
       \/ CallFails /\ UNCHANGED source
    /\ Goto("claimed")
    /\ UNCHANGED <<result, part, rows, local>>

Claim ==
    /\ At("discover", "claim")
    /\ \/ /\ CallOk
          /\ source' = [source EXCEPT ![job] = "processing"]
          /\ Goto("claimed")
       \/ /\ ReplyLost
          /\ source' = [source EXCEPT ![job] = "processing"]
          /\ Continue
       \/ /\ CallFails
          /\ UNCHANGED source
          /\ Continue
    /\ UNCHANGED <<result, part, rows, local>>

MarkClaimed ==
    /\ At("discover", "claimed")
    /\ rows' = SetState(rows, job, "CLAIMED")
    /\ Continue
    /\ UNCHANGED <<server, local, link, faults>>

-------------------------------------------------------------------------------
(* _download_pending *)
ListClaimed ==
    /\ At("download", "start")
    /\ Iterate(JobsInState(rows, "CLAIMED"))
    /\ UNCHANGED <<server, rows, local, link, faults>>

Download(j) ==
    /\ phase = "download"
    /\ \/ /\ input[j] # "none"
          /\ Pass(j)
          /\ rows' = SetState(rows, j, "DOWNLOADED")
       \/ /\ input[j] = "none"
          /\ Take(j, "fetch")
          /\ UNCHANGED rows
    /\ UNCHANGED <<server, local, link, faults>>

\* Low disk at a job that needs a download: the method returns, deferring
\* this job and everything behind it.
DeferDownloads ==
    /\ At("download", "next") /\ \E j \in todo : input[j] = "none"
    /\ Fault
    /\ todo' = {}
    /\ UNCHANGED <<server, rows, local, phase, step, job, link>>

\* stat, then get() opens the .tmp (of an .xz job: inside its own directory).
FetchBegin ==
    /\ At("download", "fetch")
    /\ \/ /\ CallOk /\ Goto("fetching")
          /\ tmp' = IF job \in XzJobs THEN tmp ELSE tmp \cup {job}
       \/ CallFails /\ Goto("failure") /\ UNCHANGED tmp
    /\ UNCHANGED <<server, rows, input, rec, orphans>>
\* Mutant: a broken transfer passes for a complete one.
FetchEndUnchecked ==
    /\ At("download", "fetching")
    /\ \/ CallOk /\ input' = [input EXCEPT ![job] = "full"]
       \/ CallFails /\ UNCHANGED input
    /\ Goto("fetched")
    /\ UNCHANGED <<server, rows, rec, tmp, orphans>>

\* Only a complete and decoded file is moved to its final name.  A short
\* transfer is unlinked, one that raised leaves its .tmp behind.
FetchEnd ==
    /\ At("download", "fetching")
    /\ \/ /\ CallOk /\ job \notin Undecodable
          /\ input' = [input EXCEPT ![job] = "full"]
          /\ tmp' = tmp \ {job}
          /\ Goto("fetched")
       \/ /\ CallOk /\ job \in Undecodable
          /\ Goto("failure")
          /\ UNCHANGED <<input, tmp>>
       \/ /\ CallFails
          /\ tmp' \in {tmp, tmp \ {job}}
          /\ Goto("failure")
          /\ UNCHANGED input
    /\ UNCHANGED <<server, rows, rec, orphans>>

MarkDownloaded ==
    /\ At("download", "fetched")
    /\ rows' = SetState(rows, job, "DOWNLOADED")
    /\ Continue
    /\ UNCHANGED <<server, local, link, faults>>

(* _upload_pending *)
ListRecorded ==
    /\ At("upload", "start")
    /\ Iterate(JobsInState(rows, "RECORDED"))
    /\ UNCHANGED <<server, rows, local, link, faults>>

Upload(j) ==
    /\ phase = "upload" /\ Take(j, "put")
    /\ UNCHANGED <<server, rows, local, link, faults>>
\* Mutant: put() writes under the final name.
PutBeginInPlace ==
    /\ At("upload", "put")
    /\ \/ /\ CallOk /\ Goto("putting")
          /\ result' = [result EXCEPT ![job] = "torn"]
       \/ CallFails /\ Goto("failure") /\ UNCHANGED result
    /\ UNCHANGED <<source, part, rows, local>>

\* upload_atomic: put() fills the .part ...
PutBegin ==
    /\ At("upload", "put")
    /\ \/ /\ CallOk /\ Goto("putting")
          /\ part' = [part EXCEPT ![job] = "torn"]
       \/ CallFails /\ Goto("failure") /\ UNCHANGED part
    /\ UNCHANGED <<source, result, rows, local>>

PutEnd ==
    /\ At("upload", "putting")
    /\ \/ /\ CallOk /\ Goto("publish")
          /\ part' = [part EXCEPT ![job] = rec[job]]
       \/ CallFails /\ Goto("failure") /\ UNCHANGED part
    /\ UNCHANGED <<source, result, rows, local>>
\* Mutant: the rename to the final name may fail unnoticed.
PublishUnchecked ==
    /\ At("upload", "publish")
    /\ \/ /\ CallOk
          /\ result' = [result EXCEPT ![job] = part[job]]
       \/ CallFails /\ UNCHANGED result
    /\ Goto("uploaded")
    /\ UNCHANGED <<source, part, rows, local>>

\* ... and posix_rename gives it its final name, replacing an earlier one.
Publish ==
    /\ At("upload", "publish")
    /\ \/ /\ \/ CallOk /\ Goto("uploaded")
             \/ ReplyLost /\ Goto("failure")
          /\ result' = [result EXCEPT ![job] = part[job]]
          /\ part' = [part EXCEPT ![job] = "none"]
       \/ CallFails /\ Goto("failure") /\ UNCHANGED <<result, part>>
    /\ UNCHANGED <<source, rows, local>>

MarkUploaded ==
    /\ At("upload", "uploaded")
    /\ rows' = SetState(rows, job, "UPLOADED")
    /\ Goto("retire")
    /\ UNCHANGED <<server, local, link, faults>>
\* Mutant: the rename to done/ may fail unnoticed.
RetireUnchecked ==
    /\ At("upload", "retire")
    /\ \/ CallOk /\ source' = [source EXCEPT ![job] = "done"]
       \/ CallFails /\ UNCHANGED source
    /\ Goto("retired")
    /\ UNCHANGED <<result, part, rows, local>>

Retire ==
    /\ At("upload", "retire")
    /\ \/ /\ \/ CallOk /\ Goto("retired")
             \/ ReplyLost /\ Goto("failure")
          /\ source' = [source EXCEPT ![job] = "done"]
       \/ CallFails /\ Goto("failure") /\ UNCHANGED source
    /\ UNCHANGED <<result, part, rows, local>>

MarkDone ==
    /\ At("upload", "retired")
    /\ rows' = SetState(rows, job, "DONE")
    /\ Goto("clean")
    /\ UNCHANGED <<server, local, link, faults>>

\* _delete_local_files: two unlinks, either of which may raise.
DeleteInput ==
    /\ At("upload", "clean")
    /\ \/ /\ input' = [input EXCEPT ![job] = "none"]
          /\ Goto("cleaned")
          /\ UNCHANGED faults
       \/ Fault /\ Goto("failure") /\ UNCHANGED input
    /\ UNCHANGED <<server, rows, rec, tmp, orphans, link>>

DeleteRecording ==
    /\ At("upload", "cleaned")
    /\ \/ /\ rec' = [rec EXCEPT ![job] = "none"]
          /\ Continue
          /\ UNCHANGED faults
       \/ Fault /\ Goto("failure") /\ UNCHANGED rec
    /\ UNCHANGED <<server, rows, input, tmp, orphans, link>>

-------------------------------------------------------------------------------
(* _record_pending: no connection is used *)
ListDownloaded ==
    /\ At("record", "start")
    /\ Iterate(JobsInState(rows, "DOWNLOADED"))
    /\ UNCHANGED <<server, rows, local, link, faults>>

Record(j) ==
    /\ phase = "record"
    /\ \/ /\ rec[j] # "none"
          /\ Pass(j)
          /\ rows' = SetState(rows, j, "RECORDED")
       \/ /\ rec[j] = "none"
          /\ Take(j, "play")
          /\ UNCHANGED rows
    /\ UNCHANGED <<server, local, link, faults>>

\* Mutant: the time-out of the stream is shorter than the file.
PlayTimesOut ==
    /\ At("record", "play")
    /\ Goto("failure")
    /\ UNCHANGED <<server, rows, input, rec, tmp, orphans, link, faults>>

\* Everything of play_and_record before sf.write opens the final path.
Play ==
    /\ At("record", "play")
    /\ \/ /\ job \notin Unplayable
          /\ rec' = [rec EXCEPT ![job] = "short"]
          /\ Goto("write")
          /\ UNCHANGED faults
       \/ /\ IF job \in Unplayable THEN UNCHANGED faults ELSE Fault
          /\ Goto("failure")
          /\ UNCHANGED rec
    /\ UNCHANGED <<server, rows, input, tmp, orphans, link>>

\* sf.write has the file complete only when it returns.
WriteRecording ==
    /\ At("record", "write")
    /\ \/ /\ rec' = [rec EXCEPT ![job] = "full"]
          /\ Goto("wrote")
          /\ UNCHANGED faults
       \/ Fault /\ Goto("failure") /\ UNCHANGED rec
    /\ UNCHANGED <<server, rows, input, tmp, orphans, link>>

MarkRecorded ==
    /\ At("record", "wrote")
    /\ rows' = SetState(rows, job, "RECORDED")
    /\ Continue
    /\ UNCHANGED <<server, local, link, faults>>
\* Mutant: the attempt is repeated at once, on the same connection.
CountFailureAndRepeat ==
    /\ step = "failure"
    /\ rows' = RecordFailure(rows, job)
    /\ Goto(CASE BudgetSpent(rows', job) -> "giveup"
              [] phase = "download" -> "fetch"
              [] phase = "upload" -> "put"
              [] OTHER -> "play")
    /\ UNCHANGED <<server, local, link, faults>>

(* _fail_or_retry: the except clause of the three job loops *)
CountFailure ==
    /\ step = "failure"
    /\ rows' = RecordFailure(rows, job)
    /\ IF BudgetSpent(rows', job) THEN Goto("giveup") ELSE Continue
    /\ UNCHANGED <<server, local, link, faults>>
\* Mutant: the local files go before the row says FAILED.
GiveUpAndDelete ==
    /\ step = "giveup"
    /\ input' = [input EXCEPT ![job] = "none"]
    /\ rec' = [rec EXCEPT ![job] = "none"]
    /\ Goto("giveup")
    /\ UNCHANGED <<server, rows, tmp, orphans, link, faults>>

\* _record_pending has no connection to tidy with.
GiveUp ==
    /\ step = "giveup"
    /\ rows' = SetState(rows, job, "FAILED")
    /\ IF phase = "record" THEN Continue ELSE Goto("tidyone")
    /\ UNCHANGED <<server, local, link, faults>>
\* Mutant: the source is moved from wherever it is.
TidyAnySource ==
    /\ step = "tidyone"
    /\ \/ CallOk /\ Continue /\ source' = [source EXCEPT ![job] = "failed"]
       \/ Exits /\ UNCHANGED source
    /\ UNCHANGED <<result, part, rows, local>>

(* _tidy_failed_job, called from _fail_or_retry or from the tidy loop.  A  *)
(* failing rename is swallowed, a failing exists() is not.                 *)
TidyFailedJob ==
    /\ step = "tidyone"
    /\ \/ /\ CallOk /\ source[job] # "processing"
          /\ Continue
          /\ UNCHANGED source
       \/ /\ CallOk \/ ReplyLost
          /\ source[job] = "processing"
          /\ source' = [source EXCEPT ![job] = "failed"]
          /\ Continue
       \/ /\ source[job] = "processing"
          /\ link = "up" /\ CallFails
          /\ Continue
          /\ UNCHANGED source
       \/ Exits /\ UNCHANGED source
    /\ UNCHANGED <<result, part, rows, local>>
\* Mutant: no catching up on jobs given up without a connection.
ListNoFailed ==
    /\ At("tidy", "start")
    /\ Iterate({})
    /\ UNCHANGED <<server, rows, local, link, faults>>

ListFailed ==
    /\ At("tidy", "start")
    /\ Iterate(JobsInState(rows, "FAILED"))
    /\ UNCHANGED <<server, rows, local, link, faults>>

Tidy(j) ==
    /\ phase = "tidy" /\ Take(j, "tidyone")
    /\ UNCHANGED <<server, rows, local, link, faults>>
\* Mutant: the sweep leaves the recordings of FAILED jobs ...
CleanupInputsOnly(inputs, recs, old) ==
    /\ phase = "cleanup"
    /\ input' = [j \in Jobs |-> IF j \in inputs THEN "none" ELSE input[j]]
    /\ tmp' = tmp \ old
    /\ Enter("connect")
    /\ UNCHANGED <<server, rows, rec, orphans, link, faults>>

\* ... or, as a mutant of its own, the .tmp files.
CleanupFailedOnly(inputs, recs, old) ==
    /\ phase = "cleanup"
    /\ input' = [j \in Jobs |-> IF j \in inputs THEN "none" ELSE input[j]]
    /\ rec' = [j \in Jobs |-> IF j \in recs THEN "none" ELSE rec[j]]
    /\ Enter("connect")
    /\ UNCHANGED <<server, rows, tmp, orphans, link, faults>>

\* _cleanup_local, with no connection: the files of FAILED jobs past their
\* retention, then the .tmp files past their TTL ("old").  Nothing catches an
\* unlink that raises: it ends the daemon, with the recording of one job
\* still there if it was the second unlink of _delete_local_files.
CleanupLocal(inputs, recs, old) ==
    /\ phase = "cleanup"
    /\ input' = [j \in Jobs |-> IF j \in inputs THEN "none" ELSE input[j]]
    /\ rec' = [j \in Jobs |-> IF j \in recs THEN "none" ELSE rec[j]]
    /\ tmp' = tmp \ old
    /\ \/ recs = inputs /\ Enter("connect") /\ UNCHANGED faults
       \/ /\ \/ recs = inputs
             \/ old = {} /\ \E j \in inputs : recs = inputs \ {j}
          /\ Fault /\ Enter("exited")
    /\ UNCHANGED <<server, rows, orphans, link>>

-------------------------------------------------------------------------------
JobLoops ==
    \E j \in Jobs : \/ Reconcile(j) \/ Discover(j) \/ Download(j)
                    \/ Upload(j) \/ Tidy(j) \/ Record(j)

\* The steps the daemon and its supervisor take by themselves.
Daemon ==
    \/ Restart \/ Connect \/ ConnectFails \/ EnsureRemoteDirs \/ EndLoop
    \/ ListProcessing \/ ListIncoming \/ ListClaimed \/ ListRecorded
    \/ ListFailed \/ ListDownloaded \/ JobLoops
    \/ Adopt \/ Claim \/ MarkClaimed
    \/ DeferDownloads \/ FetchBegin \/ FetchEnd \/ MarkDownloaded
    \/ PutBegin \/ PutEnd \/ Publish \/ MarkUploaded
    \/ Retire \/ MarkDone \/ DeleteInput \/ DeleteRecording
    \/ Play \/ WriteRecording \/ MarkRecorded
    \/ CountFailure \/ GiveUp \/ TidyFailedJob
    \/ \E inputs \in SUBSET JobsInState(rows, "FAILED"), old \in SUBSET tmp :
           \E recs \in SUBSET inputs : CleanupLocal(inputs, recs, old)

Next == Daemon \/ Crash \/ LoseDb \/ \E j \in Jobs : Submit(j)

Spec == Init /\ [][Next]_vars
===============================================================================
