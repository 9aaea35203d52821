----------------------------- MODULE InstanceLock -----------------------------
(***************************************************************************)
(* The lock file that keeps a second daemon off the chamber:               *)
(* ChamberClient._acquire_lock, _heartbeat_lock and _release_lock with the *)
(* loop that calls them.  The file holds nothing that is read again; only  *)
(* its age counts.  Time passes in ticks, between any two calls.           *)
(***************************************************************************)
EXTENDS Integers

CONSTANTS Process,    \* daemons that may be started on one state directory
          Supervised, \* those that systemd starts again whenever they end
          Stale,      \* LOCK_STALE_SECONDS, in ticks
          MaxKills    \* bound of the model: processes killed

ASSUME LockAssumption ==
    /\ Supervised \subseteq Process
    /\ Stale \in Nat \ {0} /\ MaxKills \in Nat

VARIABLES
    pc,       \* per process: "down", in _acquire_lock "exists", "stat" or
              \* "write", in _run_loop "top" or "pass"
    stopping, \* per process: _stop_event is set
    lock,     \* age of the lock file, or NoLock
    since,    \* per process: ticks since it last wrote the lock file
    kills,    \* processes killed so far
    trusted   \* history: see Decide and Tick

vars == <<pc, stopping, lock, since, kills, trusted>>

NoLock == -1

\* Ages are told apart up to the threshold.
Older(age) == IF age < Stale THEN age + 1 ELSE age

Running == {p \in Process : pc[p] \in {"top", "pass"}}
Deciding == {p \in Process : pc[p] = "write"}
Holders == Running \cup Deciding

Goto(p, label) == pc' = [pc EXCEPT ![p] = label]

WriteLock(p) == lock' = 0 /\ since' = [since EXCEPT ![p] = 0]

Init ==
    /\ pc = [p \in Process |-> "down"]
    /\ stopping = [p \in Process |-> FALSE]
    /\ lock = NoLock
    /\ since = [p \in Process |-> 0]
    /\ kills = 0
    /\ trusted = TRUE

(* _acquire_lock *)

Begin(p) ==
    /\ pc[p] = "down"
    /\ Goto(p, "exists")
    /\ stopping' = [stopping EXCEPT ![p] = FALSE]
    /\ UNCHANGED <<lock, since, kills, trusted>>

\* The process goes on to write.  If another one has decided the same and
\* has not written yet, the lock can no longer tell them apart.
Decide(p) ==
    /\ Goto(p, "write")
    /\ trusted' = (trusted /\ Deciding = {})
    /\ UNCHANGED <<stopping, lock, since, kills>>

FindsNoLock(p) ==
    /\ pc[p] = "exists" /\ lock = NoLock
    /\ Decide(p)

FindsLock(p) ==
    /\ pc[p] = "exists" /\ lock # NoLock
    /\ Goto(p, "stat")
    /\ UNCHANGED <<stopping, lock, since, kills, trusted>>

\* Mutant: off by one at the threshold.
IsStaleEarly == lock + 1 >= Stale

\* Mutant: the age is not compared with the threshold.
IsStaleNever == FALSE

IsStale == lock >= Stale

FindsStale(p) ==
    /\ pc[p] = "stat" /\ IsStale
    /\ Decide(p)

\* Mutant: _acquire_lock stands inside the try of run_forever.
RefusedReleases(p) ==
    /\ pc[p] = "stat" /\ ~IsStale
    /\ Goto(p, "down")
    /\ lock' = NoLock
    /\ UNCHANGED <<stopping, since, kills, trusted>>

\* The file is fresh (RuntimeError), or was removed after exists()
\* (FileNotFoundError).  Either is raised outside the try of run_forever.
Refused(p) ==
    /\ pc[p] = "stat" /\ ~IsStale
    /\ Goto(p, "down")
    /\ UNCHANGED <<stopping, lock, since, kills, trusted>>

Acquire(p) ==
    /\ pc[p] = "write"
    /\ Goto(p, "top")
    /\ WriteLock(p)
    /\ UNCHANGED <<stopping, kills, trusted>>

(* _run_loop *)

\* A daemon that is alone and has just written is known by the lock again.
Heartbeat(p) ==
    /\ pc[p] = "top" /\ ~stopping[p]
    /\ Goto(p, "pass")
    /\ WriteLock(p)
    /\ trusted' = (trusted \/ Holders = {p})
    /\ UNCHANGED <<stopping, kills>>

\* The pass and the wait after it, of any length.
PassEnds(p) ==
    /\ pc[p] = "pass"
    /\ Goto(p, "top")
    /\ UNCHANGED <<stopping, lock, since, kills, trusted>>

\* _release_lock removes the file, whoever wrote it.
Release(p) ==
    /\ Goto(p, "down")
    /\ lock' = NoLock
    /\ trusted' = (trusted \/ Holders = {p})
    /\ UNCHANGED <<stopping, since, kills>>

Leave(p) == pc[p] = "top" /\ stopping[p] /\ Release(p)

\* Mutant: only a stop removes the file, an exception does not.
AbortKeepsLock(p) ==
    /\ p \in Running
    /\ Goto(p, "down")
    /\ trusted' = (trusted \/ Holders = {p})
    /\ UNCHANGED <<stopping, lock, since, kills>>

\* An exception nobody catches, in the heartbeat or the pass.
Abort(p) == p \in Running /\ Release(p)

(* Environment *)

\* SIGTERM or SIGINT
Signal(p) ==
    /\ pc[p] # "down" /\ ~stopping[p]
    /\ stopping' = [stopping EXCEPT ![p] = TRUE]
    /\ UNCHANGED <<pc, lock, since, kills, trusted>>

Kill(p) ==
    /\ pc[p] # "down" /\ kills < MaxKills
    /\ Goto(p, "down")
    /\ kills' = kills + 1
    /\ trusted' = (trusted \/ Holders \subseteq {p})
    /\ UNCHANGED <<stopping, lock, since>>

\* A daemon that has not written for as long as the threshold looks like one
\* that crashed.
Tick ==
    /\ lock' = IF lock = NoLock THEN NoLock ELSE Older(lock)
    /\ since' = [p \in Process |-> Older(since[p])]
    /\ trusted' = (trusted /\ \A p \in Running : since'[p] < Stale)
    /\ UNCHANGED <<pc, stopping, kills>>

Daemon(p) ==
    \/ Begin(p) \/ FindsNoLock(p) \/ FindsLock(p) \/ FindsStale(p)
    \/ Refused(p) \/ Acquire(p) \/ Heartbeat(p) \/ PassEnds(p) \/ Leave(p)

Next ==
    \/ \E p \in Process : Daemon(p) \/ Abort(p) \/ Signal(p) \/ Kill(p)
    \/ Tick

Spec == Init /\ [][Next]_vars

\* Restart=always, and time passes.  Daemons started by hand may stop
\* anywhere, and nobody has to send a signal.
FairSpec == Spec /\ WF_vars(Tick) /\ \A p \in Supervised : WF_vars(Daemon(p))

(* Properties *)

\* Ages, times and places are what the code can make of them.
TypeOK ==
    /\ pc \in [Process ->
                {"down", "exists", "stat", "write", "top", "pass"}]
    /\ stopping \in [Process -> BOOLEAN]
    /\ lock \in {NoLock} \cup 0..Stale
    /\ since \in [Process -> 0..Stale]
    /\ kills \in 0..MaxKills
    /\ trusted \in BOOLEAN

\* Unless two processes found the lock free at the same time, or a pass took
\* as long as the lock takes to go stale, no two daemons run on one state
\* directory: a refused process leaves the lock of the other alone, and no
\* heartbeat or release undoes it.
OneDaemon ==
    trusted => \A p, q \in Running : p = q

\* ... and a daemon that runs has a lock file as young as its heartbeat,
\* whatever refused, stopped and killed processes did before.
LockShowsDaemon ==
    trusted => \A p \in Running : lock # NoLock /\ lock <= since[p]

\* Where nobody was killed, a lock file means a daemon: one that is stopped,
\* or ends by an exception, leaves none behind to refuse its successor
\* (test_run_forever_releases_lock_on_stop), however many overlapped.
CleanExitsUnlock ==
    kills = 0 /\ lock # NoLock => Running # {}

\* A lock left by a killed daemon does not keep its successors out for ever.
StartsAgain == Running = {} ~> Running # {}
===============================================================================
