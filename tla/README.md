# buckyball-chamber: a TLA+ model of the recording queue

The program lets people send `.wav` files over SFTP to a machine in an anechoic
chamber, which plays each file, records the chamber's answer at the same time and
puts the recording back on the server.  The server is a dumb SFTP account: the
queue is five directories, and every promise the program makes is a matter of the
order in which two or three independent programs rename files in them, write a
SQLite table and fill local files, over a network that drops and processes that
get killed.  That order is what this project models, checks with TLC and, for
any number of jobs, faults, frames, commands, daemons and pieces of hardware, proves
with TLAPS.  A second part of it is about the hardware: whether what the set-up wizard
tested is what the daemon opens, after cables were pulled and cards renumbered.

## 1. The system and its hard parts

| Component | State | Operations | Talks to |
|---|---|---|---|
| Chamber daemon, `client/state_machine.py` | the pass it is in, a snapshot per loop | connect, reconcile, claim, download, upload, tidy, record, cleanup, sleep | all below |
| Job table, `client/job_store.py` | SQLite: state, retries of each job | `upsert_discovered`, `set_state`, `record_failure`, `jobs_in_state` | the daemon only |
| SFTP client, `client/sftp_client.py` | the connection | `connect`, `listdir`, `rename`, `upload_atomic`, `download_atomic`, `exists` | the server |
| Transfer, `client/transfer.py` | scratch directories | `upload_compressed`, `download_audio` | SFTP client, local disk |
| Play and record, `client/audio.py` | stream, callback's cursor, capture buffer | `play_and_record`, `_playrec_with_latency` | PortAudio's thread |
| ALSA endpoints, `client/alsa.py`, part of `audio.py` | PortAudio's device table, read once per process | find a device by name, choose channel counts, match and pad channels | `/proc/asound` |
| Wizard and configuration, `client/setup_wizard.py`, `client/config.py` | the wizard's choices, `config.yaml` | list, choose, live test, save; load | audio hardware, the daemon |
| Instance lock and signals, `state_machine.py`, `main.py` | lock file and its age | acquire, heartbeat, release, stop | a second daemon |
| Uploader, `uploader/upload_job.py` | `.uploader_last_job.json`, the waiting loop | `upload`, `send`, `download`, `test` | the server |
| Server directories | place of each source, `recordings/` | atomic rename, put, get | daemon and uploaders |
| Logging, the uploader's wizard, scripts, unit | files written once | parse, prompt, install | - |

How they interact: an uploader renames a source into `incoming/`; the daemon renames
it to `processing/`, fetches it, plays it, puts the result into `recordings/` and
renames the source to `done/` - or, when its retry budget is spent, to `failed/`.
The uploader polls `recordings/` and `failed/`.  Nothing is locked and nobody
signals anybody: the rename is the only synchronisation.

What is hard, and what would make each component correct:

- *Daemon and table.*  Each transition touches up to three stores that commit at
  different times.  A kill, a dropped connection or a reply that never comes may
  fall between any two of them, and the table itself may be lost and rebuilt from
  `processing/`.  Correct means: the stores agree whenever the next pass looks at
  them; a published result is never claimed that is not there; the only copy of a
  recording is never deleted; every job ends in `recordings/` or `failed/`.
- *Retries.*  One counter is shared by download, recording and upload, and one dead
  connection fails the call of every job behind it.  Correct means: a failure costs
  a job one attempt, not one per phase, and the budget is used up before a job is
  given up.
- *Capture.*  A callback thread and a waiting thread share a cursor, an error list
  and a buffer; block sizes divide nothing; settling time, latency and tail are
  added in one function and cut off in another.  Correct means: what is saved is
  frame for frame the answer to the file, or nothing is saved.
- *Uploader.*  A wait looks at two directories one after the other while the chamber
  moves files, and several commands share one record of the last upload.  Correct
  means: what is reported is so, and waits end.
- *Lock.*  `exists`, `stat` and `write_text` are three calls; the heartbeat comes once
  per pass, and a pass may last longer than the lock takes to go stale.  Correct means:
  where the lock can tell, one daemon runs; and no lock keeps daemons out for ever.

- *Hardware and configuration.*  The wizard picks and tests a device by its index; the
  daemon finds it by name, in another process, maybe after a reboot; the stream file of a
  card is read at each file, the device table once per process.  A file is mapped to the
  configured channels and then to those the hardware has at this rate.  Correct means: what
  was tested opens, a name picks the unit that is meant, outputs nobody asked for are silent.

`PROJECT.json` lists every component and, at its line, every hazard found so far.

## 2. Modules

| Module | Models | Extends |
|---|---|---|
| `JobQueue` | abstract specification of the server's directories | - |
| `JobStore` | the job table: rows and their writes, as operators | - |
| `ChamberClient` | the daemon's pass with the transfers it calls | `JobStore` |
| `ChamberProperties` | its invariants, action and temporal properties, fairness | `ChamberClient` |
| `ChamberProofs` | proofs about it | `ChamberProperties` |
| `MCChamber` | two-job instances | `ChamberProperties` |
| `Playback` | history of what was heard: how often each job was played | `ChamberProperties` |
| `PlaybackProofs`, `MCPlayback` | proofs; three-job instance | `Playback`, `ChamberProofs` |
| `PlayRec` | one capture: main thread, callback, device; properties | - |
| `PlayRecProofs`, `MCPlayRec` | proofs; instance | `PlayRec` |
| `Uploader` | uploader commands; properties | instantiates `JobQueue` |
| `UploaderProofs`, `MCUploader` | proofs; instance | `Uploader` |
| `InstanceLock` | the lock file, and the daemons that are started on it; properties | - |
| `InstanceLockProofs`, `MCInstanceLock` | proofs; instance | `InstanceLock` |
| `System` | daemon and uploader commands over one server; end-to-end properties | `ChamberProperties`, instantiates `Uploader` |
| `SystemProofs`, `MCSystem` | proofs; instance | `System`, `ChamberProofs` |
| `Endpoints` | device choice, channel counts, channel mapping, as operators | - |
| `EndpointsProofs` | proofs about them | `Endpoints` |
| `Setup` | hardware, the wizard, `config.yaml`, and what the daemon opens; properties | `Endpoints` |
| `SetupProofs`, `MCSetup` | proofs; instance | `Setup`, `EndpointsProofs` |

`JobQueue` is the joint.  `ChamberClient` is shown to implement it (`ImplementsQueue`),
and `Uploader` is specified against it: what holds of an uploader next to any
behaviour of `JobQueue` holds next to the daemon, without the product of the two
state spaces.  `System` is that product, and shows that the reasoning is right: it
refines both of its parts.

### ChamberClient

The variables are the three stores and the program counter.

| Variable | In the program |
|---|---|
| `source`, `result`, `part` | the directory of each job's source; its file in `recordings/` and that file's `.part` |
| `rows` | the SQLite table: `state` and `retries` of each job |
| `input`, `rec` | `downloads/<job>.wav`, `recordings/<job>.wav` |
| `tmp`, `orphans` | `downloads/<job>.wav.tmp`; `downloads/chamber-xz-*` a dead process left |
| `phase`, `step`, `todo`, `job` | the method that runs, where it stands, what is left of its listing, the job of the loop body |
| `link` | the connection of this pass |
| `faults` | faults injected so far, bounded by `MaxFaults` |

Files are `"none"`, `"torn"` (half a transfer), `"short"` (half a capture) or `"full"`;
nothing here depends on what is in them.  One action stands for one remote call, one
commit or one file operation with the control flow up to the next, so that a fault
fits between any two:

- the pass: `Connect`, `ConnectFails`, `EnsureRemoteDirs`, `EndLoop`, `CleanupLocal`;
- reconcile: `ListProcessing`, `Reconcile`, `Adopt`;
- discover: `ListIncoming`, `Discover`, `Claim`, `MarkClaimed`;
- download: `ListClaimed`, `Download`, `DeferDownloads` (low disk), `FetchBegin`,
  `FetchEnd`, `MarkDownloaded`;
- upload: `ListRecorded`, `Upload`, `PutBegin`, `PutEnd`, `Publish`, `MarkUploaded`,
  `Retire`, `MarkDone`, `DeleteInput`, `DeleteRecording`;
- record: `ListDownloaded`, `Record`, `Play`, `WriteRecording`, `MarkRecorded`;
- failures: `CountFailure`, `GiveUp`, `TidyFailedJob`, `ListFailed`, `Tidy`;
- environment: `Submit` (an uploader), `Crash`, `Restart` (systemd), `LoseDb`.

A remote call returns (`CallOk`), raises with or without the end of the connection
(`CallFails`), or is carried out and its reply lost (`ReplyLost`).  On a dead
connection every call raises at no further cost.  `Exits` is an exception the loop
does not name: the daemon ends, and systemd starts it again.

The actions have no alternative for a source that is missing when it is fetched or
renamed, because `HeldIsProcessing` - checked and proved - says that it is there.

`Playback` adds to this the one effect no store shows.  `plays` counts the calls of
`play_and_record` for each job (`Sounds`), failed ones too, since they may have been heard to
the end.  It is a history variable: no guard and no update of the daemon reads it, as `PlaybackNext`
shows at a glance.  That a behaviour with the history is one of the daemon, which is what lets the
daemon's theorems be used here, is the lemma `PlaybackIsChamber`; the converse is not proved.

### PlayRec

One channel, and a frame is a number: 0 is silence, `k + 1` is frame `k` of the file.
`Start`, `TimeOut` and `Finish` are the main thread, `Callback` and `Abort` the
callback, `LoseFrames` and `EndEarly` the device.  `Heard` is the room (external): a
frame is heard `delay + travel` frames after it is played, where `delay` is the
latency the stream reports - taken to be true, the program has nothing else to go by -
and `travel` the acoustics that the recording is made for.  `NoFrame` is what
`np.empty` holds.

### Uploader

`Commands` is a set of processes, each running one command line after the other from
one configuration directory.  `lastJob` is `.uploader_last_job.json`; `write_text`
truncates it and then writes, so it may be `Empty`, and `Garbled` when a shorter record
overwrites the head of a longer one.  `pc` is where a command stands; the two
directories a poll looks at are looked at in two steps.  A connection that cannot be
made changes nothing (the command sleeps and is at the head of its loop again), so it
has no action of its own.  `PollFails` is a call that raises after the connection was
made; `Interrupt` is Ctrl+C or a kill anywhere.  `deadline` is the clock as far as the
code reads it: a time-out of 0 is none (`Deadline`).

### InstanceLock

`Process` are daemons started on one state directory, `Supervised` those that systemd
starts again.  `lock` is the age of the file, up to the threshold `Stale`, or `NoLock`;
what is written in it is never read.  `FindsNoLock`, `FindsLock`, `FindsStale`, `Refused`
and `Acquire` are the three calls of `_acquire_lock`; `Heartbeat`, `PassEnds`, `Leave`
and `Abort` are the loop and the `finally` around it; a pass is one step of any length,
and `ChamberClient` has its inside.  `Signal` is SIGTERM, `Kill` a process that goes without
its `finally`, `Tick` the time.  The wall clock is taken to run forward.

The lock cannot keep daemons apart at all times, and the history variable `trusted`
says when it can.  It becomes false in two ways: a process decides to write the file while
another has decided and not written (`Decide`), or the heartbeat of a running daemon is as
old as the threshold (`Tick`).  It becomes true again when nobody holds the lock, or when a
daemon that is alone writes its heartbeat.

### System

`User` is `Uploader` with the daemon's `source` for `place` and the jobs that have a file in
`recordings/` for `answered`.  `ChamberStep` is a step of the daemon or a fault of its own;
`Submission`, the rename into `incoming/`, is the one step of both; in all others a command
only reads the server.  `UploadFails` and `PollFails` come from the command's own
connection and are not counted among the daemon's `faults`.

### Endpoints and Setup

An ALSA device name is a record of its label and the card number in `(hw:card,device)`;
`Within` says which label occurs in which, so that no text is taken apart.  `Usb` are the
units with a stream file, `Altsets` what it says.  Devices without one, and all on systems
other than Linux, are the `\ Usb` case of `ResolveEndpoint`.  `Accepts` is external: raw
USB hardware opens with its own channel counts only.  The device number behind the comma is
left out (one PCM per card), and so are negative channel counts, which a prompt accepts.

| Variable of `Setup` | In the program |
|---|---|
| `plugged` | which unit each card is now: `/proc/asound` and what an open reaches |
| `stage`, `listed`, `picks` | where the wizard stands, its device table, its answers |
| `config` | `config.yaml`: nothing, `Truncated`, or the audio section |
| `daemon` | its configuration and its device table, both as of its start |
| `stream` | the stream of the last file: units, and what each output plays |

`chosen`, `tested` and `table` in a configuration are history: what was meant and what the
wizard saw.  `ListDevices`, `Choose`, `LiveTest`, `SkipTest`, `Truncate`, `WriteConfig` are
the wizard, `Quit` its end anywhere; `EditConfig` a file written by hand after
`config.example.yaml`; `Start`, `PlayFile`, `Stop` the daemon; `Replug` a reboot or a
reconnect at any time.  `save_config` is two steps because opening for writing empties the
file.  That PortAudio reads its table when a process starts is how `sounddevice` works;
nothing in the program reads it again.

## 3. Runs

| Run | Instance | Shows |
|---|---|---|
| `chamber_safety` | 3 jobs (`.wav.xz`, `.wav`, and an undecodable `.wav.xz`), budget 2, 3 faults; 3.6M states with the history `plays` | 10 invariants, `RecordingKeptUntilDelivered`, `LifeCycleIsKept`, `ImplementsQueue` |
| `chamber_liveness` | 2 jobs, one unplayable, budget 2, 2 faults; 46k states | `RecordsOffline`, `EveryJobResolved`, `GoodJobsAnswered`, `BadJobsRejected`, `FailedFilesSwept`, `TempFilesSwept` |
| `playrec` | files 0..4, tails 0..2, latency 0..3, distance 0..3, blocks of 1..3 frames in any mix; 16k states | `PlaysFileOnce`, `SavedIsResponse`, `InterruptedNeverSaved` |
| `uploader` | 2 commands over 2 jobs, any chamber; 323k states | `ReportIsTrue`, `RecordIsSubmitted`, `TimedWaitEnds`, `OutcomeEndsWait` |
| `instance_lock` | 3 daemons, one supervised, threshold of 2 ticks, 2 kills; 253k states | `OneDaemon`, `LockShowsDaemon`, `CleanExitsUnlock`, `StartsAgain` |
| `setup` | 2 units (a USB interface with fewer channels at the higher rate, a sound card whose label occurs in that of the interface), 2 cards, 2 rates, counts 0..2; 26k states | `TestedIsPlayable`, `SameDeviceIsOneUnit`, `SpeakersGetFile`, `LabelsSurvive` |
| `system` | 1 job, 1 command, the whole daemon, budget 2, 2 faults; 173k states | `ImplementsUser`, `FailedOnlyForCause`, `SavedIsWhole`, `WaitsEnd` |

Safety, in words (each property's comment names the code):

- `HeldIsProcessing`: a job the table has in work has its source in `processing/`.
- `LocalFilesBackState`: DOWNLOADED has its input, RECORDED has a recording.
- `DoneIsDelivered`: `done/`, UPLOADED and DONE mean a file in `recordings/`.
- `NoTornFile`: no final name ever holds half a transfer.
- `NoEarlyFailure`, `RetriesPaidByFaults`: the budget is used, and nothing but faults uses it.
- `AttemptsAreBounded`: not even a job that can never be decoded or played is tried for
  ever, and no kill between counting and giving up adds more than one attempt.
- `PlaysArePaid`: a playable job is heard at most once more than something went wrong.
- `PassStaysInStep`: no loop acts on a stale listing (`SnapshotIsFresh`), and wherever
  the pass stands the stores are as the calls before left them (`PassIsConsistent`).
- `LifeCycleIsKept`: a row takes each state in its order and never goes back, unless the whole
  table is lost between two runs.  It is charged or given up while CLAIMED, DOWNLOADED or RECORDED,
  and, in the upload that delivers it, while UPLOADED or DONE as well: there a DONE row may still
  turn FAILED (see the disagreements below), nowhere else.
- `RecordingKeptUntilDelivered`: a recording is only deleted when it is on the server
  or its job was given up.
- `ImplementsQueue`: to whoever watches the server, the daemon is `JobQueue`.
- `ImplementsUser`: to a command the daemon is the chamber `Uploader` was checked with.
- `FailedOnlyForCause`: whoever is told that a playable job failed, as many things went wrong
  as the job has attempts.
- `SavedIsWhole`: what a command saves is never torn, and short only after a fault.
- `TestedIsPlayable`: what passed the live test is found by name and opens as long as the unit
  is on its card, whatever the other cards became, before the daemon's start or under it.
- `SameDeviceIsOneUnit`: a device the wizard was given for both ends is opened as one unit, though
  each end is searched for by itself.
- `LabelsSurvive`: a label written by hand finds its unit on any card, unless it fits another too.
- `TempFilesSwept`: the `.tmp` of a plain `.wav` download goes, the liveness of a sweep; it says
  nothing of `.xz` downloads, whose leftovers stay (see the disagreements below).
- `WaitsEnd`: a wait for a submitted job ends, over all faults of the daemon.  Its instance has one
  job, which can be played (a second makes the product too large for its liveness), and a poll that
  raises counts as an end; that bad jobs get to `failed/`, where a wait ends, is `BadJobsRejected`.
- `SpeakersGetFile`: all configured outputs are there and play the file, the others nothing.

Why the bounds are enough.  Jobs interact only through the shared connection, the
loops' snapshots and low disk, for which one job ahead and one behind suffice; the
jobs use both transfer formats, and one of the three fails at no fault's cost.  A budget of 2 has a retry that is not the last
and one that is.  Three faults lose the table, kill the
daemon and drop a connection under all the jobs in one behaviour; every action fires within them.  The liveness runs
use two faults, which is what it takes to exhaust one budget by faults, and bad jobs for
failures that cost no fault.  For captures, 4 frames with blocks of 1 to 3 have blocks
that end before, at and across each boundary.  Two commands over two jobs suffice for
one command to write the record inside another's write.  Three daemons are needed for one
to be refused or leave while a second depends on the file and a third looks at it; with two
ticks an age is below, at the edge of, or at the threshold.  In
`setup`, two units on two cards can be swapped, unplugged and renumbered; 3 hardware outputs
for 2 configured ones and files of 1 and 3 channels make each of the three counts the
smallest once.  `OneSetupAtATime` is a constraint of that run: the wizard is started where
there is no configuration, and not beside a daemon, which reads the file once at its start;
what it would add is a second configuration nobody has read yet.  The safety properties are
proved without these bounds.  The type invariants of `PlayRec` and `InstanceLock` are proved
only; every other invariant is both checked and proved.

The bounds are `MaxRetries` (a parameter of the program too), `MaxFaults`, `MaxKills` and the
age `Stale` beyond which `InstanceLock` tells no ages apart, and, in `PlayRec`, one loss of frames per capture - the callback after it ends the stream.

### Fairness

- `FairSpec`: `WF(Daemon)`.  systemd restarts the daemon whenever it ends
  (`Restart=always`), its sleep is bounded by the backoff cap, and each call returns or
  raises.  The last is an assumption about paramiko: nothing sets a time-out on a
  transfer, and a connection that hangs without ever failing blocks the pass.
- `ServerReachable`, `SF(Connect)`: the server is reached again and again.  It is the
  hypothesis of `EveryJobResolved`, `GoodJobsAnswered` and `BadJobsRejected` (strong
  fairness because failed attempts lie in between).  `ConnectedSpec` has it built in, for
  the runs that look for counterexamples.
- `FilesAge`, `SF` of a `CleanupLocal` that finds every file old: files age by themselves,
  the cleanup comes once per pass.  It is the hypothesis of `FailedFilesSwept` and
  `TempFilesSwept`; `SweptSpec` has it built in.  `RecordsOffline` has no hypothesis, and so
  holds without any promise of a connection.
- `Uploader!FairSpec`: `WF` of what a command does by itself and of its deadline passing.
  Nothing says that the server is reached: `OutcomeEndsWait` allows for a wait that
  never connects again, `TimedWaitEnds` does not have to.
- `InstanceLock!FairSpec`: `WF(Tick)`, and `WF` of what a supervised daemon does by itself,
  its start included (`Restart=always`).  Daemons started by hand may stop anywhere,
  between deciding and writing for instance.

- `SystemFairSpec`: the above for daemon and commands together, with `SF` of either's
  connecting.

`Setup` has no fairness: its properties are safety.  No fairness is assumed of uploaders, of chambers towards uploaders, or of faults.

### Where code and documentation disagree

Each of these is a run in which TLC finds the behaviour.

| Run | What happens | What is said |
|---|---|---|
| `uploaded_stuck` | a kill or failing rename after the UPLOADED commit; no method lists UPLOADED, and the job stays there | "safe to resume after a crash" (`job_store.py`) |
| `delivered_files_leak` | a kill between the DONE commit and the unlinks; the sweep looks at FAILED jobs only | "deleted as soon as its recording is confirmed uploaded" (`README.md`) |
| `short_recording` | a capture cut off inside `sf.write` has the final name, and the next pass takes it for the recording | "(a file of the expected size) has been verified" (`job_store.py`) |
| `network_kills` | a connection lost in a listing raises what `_run_loop` does not catch, and the daemon ends | "lost sftp connection mid-pass" is meant to be logged (`state_machine.py`) |
| `names_lost` | the wizard saves the name with the card number in it, and a device that was renumbered is not found | "Device names, not indices -- ALSA/PortAudio indices can shift across reboots or USB reconnects" (`config.example.yaml`) |

Five more are in the model without a run of their own.  The comment on
`LOCK_STALE_SECONDS` takes a lock older than 60 s for one of a crashed process; the heartbeat
comes once per pass, a playback and the backoff cap of 300 s are longer, and a second daemon
then takes the lock of a live one: `OneDaemon` is false without `trusted`.  A killed compressed download
leaves `downloads/chamber-xz-*/audio.wav.xz.tmp`, and the glob of the sweep looks for `*.tmp` in
`downloads/` itself: `orphans` only grows, though the README has "orphaned temp files are swept on a
TTL".  `TempFilesSwept` is about the others.  And
`_delete_local_files` stands inside the `try` block after the DONE commit: an unlink that
raises is counted as a failed upload, and the last such turns a DONE job FAILED
(`DeleteInput`, `DeleteRecording`, `CountFailure`, `GiveUp`), though `job_store.py` lists DONE as
`TERMINAL`; `LifeCycleIsKept` names this as its one exception.  When the
rename to `done/` fails on the last attempt an answered job is filed in `failed/`, where the
README has jobs whose recording "will never arrive".  And a connection that drops inside a
poll ends the wait (`PollFails`), though the docstring of `wait_for_recording` has "a dropped
connection is retried rather than fatal".

Two were read in code that is not modelled.  `ensure_host_key_trusted` asks for the bare host
whatever the port, so that a host known on port 22 is skipped on another, where paramiko
looks for `[host]:port`.  And `ssh-keygen` killed between its two files leaves a private key
without a public one, which the uploader's wizard cannot read on any later run.

## 4. Proofs

All are checked by `tlapm` with Z3, Zenon and LS4, from the named assumptions on the
constants and nothing else: `ConstantsOK` in `ChamberClient` and what `JobStore`
assumes of `Jobs` and `MaxRetries`, `SizesOK` in `PlayRec`, `NamesOK` in `Uploader`,
`LockAssumption` in `InstanceLock`, `CommandNamesOK` in `System`, `EndpointsOK` in `Endpoints`
and `SetupOK` in `Setup`.

**ChamberProofs.**  None of the safety invariants is inductive alone: that a
download finds its source depends on the row, the row on the rename before it, and
that on the point the pass had reached when a kill came.  The inductive invariant is

    IInv == TypeOK /\ StoresAgree /\ SnapshotIsFresh /\ PassIsConsistent

where `StoresAgree` is the conjunction of the five invariants about the stores,
`SnapshotIsFresh` carries what a listing found to the job that is taken from it, and
`PassIsConsistent` is the assertion at each program point.  `InvStep` has a case for every
action.  From `IInv` follow the theorems `ClaimsAreBacked`, `StatesHaveFiles`,
`DeliveryIsReal`, `NothingTorn`, `BudgetIsUsed`, `PassesStayInStep` and, with a lemma about
which steps delete a recording, `RecordingsAreKept`.

`LifeCycles` and `AttemptsEnd` need more about the table.  `TableFrame` names the steps that
write it; what each of them may assume of the row is `PassIsConsistent`.  `AbsentIsEmpty` (a row
that is not there has no retries) is what makes an INSERT keep the counter.  For the bound on
attempts, `retries <= Attempts + faults` is not inductive: between the two UPDATEs of
`_fail_or_retry` a job holds a spent budget, and a kill there lets it be tried again.
`HasAttemptLeft` says that the bound is only ever reached by a job that is FAILED or about to be:
the kill that lets it go at that point is itself a fault, and raises the bound by one.

`RetriesArePaid` needs an argument of its own.  `retries <= faults` is not kept by
itself: on a dead connection a failure costs no fault, so a job must not be charged
again for a connection whose end it has already been charged for.  `Paid(j)` says that
while the connection is down, a job that may still be charged in this pass has been
charged less often than there were faults; it is inductive because a pass
charges a job at most once after the connection went, and a new pass starts
with a new connection.

`Refinement`: `QueueInit` maps the initial states, `QueueStep` every step to a step of
`JobQueue` or a stutter, under `source` for `place` and the jobs with a file in
`recordings/` for `answered`.  It needs `IInv`: that `Retire` is `Archive` is
`DoneIsDelivered`, that `TidyFailedJob` is `Reject` is its guard on the source.  `OutcomesStand`
is read off it: what uploaders poll for is never taken back.

Two of the disagreements are theorems as well, so that they are not an accident of small
bounds.  `StuckStays`: a job cut off after the UPLOADED commit stays there for as long as the
table is not lost.  `LeftoversStay`: the files of a delivered job that were not deleted in the
same pass never are, table or no table.  Both rest on three lemmas, that nothing takes such a
job up again (`NotTakenUp`), touches its files (`FilesLeftAlone`) or writes its row
(`RowLeftAlone`).

**PlaybackProofs.**  `NoneHeardForNothing` proves `PlaysArePaid`.  A job is played out
(`PlayedOut`) when its recording is on disk, its source in `done/`, or its row FAILED; no loop
plays it then, and it stays so until a fault (`PlayedOutStays`): a FAILED row, for one, is only
undone by the loss of the table.  A play that ends well makes its job played out, one that raises
takes a fault; so a job that is not played out has been played at most as often as something went
wrong, and one that is at most once more (`Paying`).

**PlayRecProofs.**  `IInv` adds to `PlaysFileOnce`: while no frame was lost the cursor is
the device's clock (`Aligned`); what has been captured is the padded file, `delay + travel`
frames later (`Captured`); a stream that runs, or lost frames, has frames to come
(`Unfinished`).  `Callback` is split into `BlockMoved`, `BlockPlayed` and `BlockCaptured`;
`SliceIsResponse` is where the latency drops out.  Proved for files, tails, latencies,
distances and block sizes of any length.

**UploaderProofs.**  Sources never return to "unsent" and never leave `failed/`, and
recordings are never withdrawn (`Forward`); a command about to write the record has
submitted its job (`Submitted`).  With these, `ReportIsTrue` and `RecordIsSubmitted`, for
any number of commands and jobs.

**InstanceLockProofs.**  `OneDaemon` says nothing of a process that has decided and not
written, and the next one to look sees only the file.  `IInv` therefore has `Sole`, which
counts the deciding process as a holder, and `Marked`: a running daemon's file is there, as
young as its heartbeat, and the heartbeat is not overdue.  While the lock is trusted,
`Marked` refuses whoever looks (`DecideStep`) and `Sole` makes whoever leaves or writes the only
holder (`ReleaseStep`, `WriteStep`).  `CleanExitsUnlock` needs no trust and is inductive by
itself.  For any number of daemons, any threshold, and any number of kills.

**SystemProofs.**  `ChamberView` maps every step of the composition to one of `ChamberClient`
or a stutter, so that `SystemIsChamber` carries every theorem about the daemon over;
`UserView` maps it to a step of `Uploader`, where the daemon's steps become moves of
`JobQueue` by the refinement already proved (`DaemonView`): `SystemIsUploader`.
`FailuresHaveCauses` ties the two: a source in `failed/` is there because its row was FAILED,
a FAILED row has its budget spent, retries are paid by faults, and faults never decrease - the
last needed because the table may be lost after the job was rejected.
`CommandsKeepTheirWord` carries the invariant of `UploaderProofs` over to the composition by
instantiating that module (`UserProofs`); the two instances of `Uploader` are the same
specification (`SameUser`).  `SavedRecordingsAreWhole` ties it to the daemon: a recording is
short only while `sf.write` runs or after a fault, and so is its copy in `.part` and in
`recordings/` (`ShortForCause`), and none is torn (`NothingTorn`).

**EndpointsProofs.**  What may raise is a set of results in `Endpoints`.  `SearchFailsForCause` and
`ResolvedOpens` prove when there is none, `OneEndpoint` that a channel count is never less than the
one asked for; the last two need that a set of naturals has a least element (`LeastNat`, from
the well-founded order of the library).  `StreamIsFilled`: the data handed to the stream has the
width it was opened with.  `SavedNamesAreLost` is the disagreement of `names_lost` for all
hardware.

**SetupProofs.**  The inductive invariant keeps of a configuration why it was written
(`ConfigOK`): what the wizard chose from which table (`WasChosen`), a live test's outcome with it
(`WasTested`), or a label that fits the unit meant.  `TestHoldsForDaemon` follows from it with
`NameIsFound` (a full name finds the unit on its card, whatever the other cards are),
`OneUnitForBoth` with `OneName` (one unit is one card of the wizard's table) and `FoundOnCard`,
`LabelsFindUnits` from the label alone, and `OutputsPlayFile` from `PlaysFile` and `OneEndpoint` (no
configured channel is cut off by the padding).  For any hardware, cards, labels, rates and
counts, and without `OneSetupAtATime`.

Only model-checked: all liveness properties (`EveryJobResolved` and the others of
`chamber_liveness`, `WaitsEnd`, `TimedWaitEnds`, `OutcomeEndsWait`, `StartsAgain`), which need
`ENABLED` and fairness; and the disagreements `short_recording` and `network_kills`, whose
counterexamples show that something can happen, which is no safety theorem.

## 5. Not modelled

- Power loss.  A kill loses no write here; SQLite's journal and the page cache are not
  modelled.  `LoseDb` stands for a table that is gone.
- `upload_compressed`'s scratch directory in `/tmp`, SQLite errors, and the contents of
  files: compression is content-preserving, and `Undecodable` is the stream that is not.
- Operators who move files on the server by hand, and a second daemon inside the
  pass of the first: `InstanceLock` says when there is one, not what the two do to the queue.
- The wall clock set back or forward under the lock, and the backoff interval.
- The text of ALSA's stream descriptors and the bridge that passes `hw:` names to PortAudio.
- Logging, prompts, the host key and the connection test of the wizards, the uploader's
  key generation, and the scripts: each writes its files once and keeps no state.

## 6. Plan

Done: the daemon, its table and transfers; the capture; the uploader; the lock; the
composition of daemon and uploader; hardware, wizard and configuration - all with proofs.
What is left:

1. The disk budget: `DeferDownloads` bound to the files that are there, to ask whether a
   queue of finished recordings can starve its own uploads.
2. Two daemons over `JobQueue`, when the lock fails: which of the chamber's invariants
   survive.
3. Proofs for larger compositions: `PlayRec` under `Setup`'s channel counts; the lock above
   `Playback`, so that one daemon plays at a time.
4. The order of the server's directories alone: theorems about `JobQueue` that any other
   implementation of it could use.

## 7. Running

    tlc -config ChamberSafety.cfg MCPlayback
    tlc -config ChamberLiveness.cfg MCChamber
    tlc -config PlayRec.cfg MCPlayRec
    tlc -config Uploader.cfg MCUploader
    tlc -config InstanceLock.cfg MCInstanceLock
    tlc -config System.cfg MCSystem
    tlc -config Setup.cfg MCSetup
    tlapm ChamberProofs.tla ; tlapm PlayRecProofs.tla
    tlapm UploaderProofs.tla ; tlapm InstanceLockProofs.tla
    tlapm SystemProofs.tla ; tlapm SetupProofs.tla
    tlapm PlaybackProofs.tla ; tlapm EndpointsProofs.tla

`PROJECT.json` names every run with its module and configuration, the mutation of the code
each property catches, and the source lines of each definition.
