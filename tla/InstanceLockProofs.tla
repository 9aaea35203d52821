-------------------------- MODULE InstanceLockProofs --------------------------
(***************************************************************************)
(* The lock file of the daemon, for any number of daemons, any threshold   *)
(* and any number of kills.                                                *)
(***************************************************************************)
EXTENDS InstanceLock, TLAPS

\* While the lock is trusted, who runs or is about to write is alone.
Sole == trusted => \A p, q \in Holders : p = q

\* ... and the file is not stale before the heartbeat is overdue, which is
\* what keeps the next process from deciding to write.
Marked ==
    trusted => \A p \in Running :
        lock # NoLock /\ lock <= since[p] /\ since[p] < Stale

IInv == TypeOK /\ Sole /\ Marked /\ CleanExitsUnlock

\* The labels at which a process holds the lock or is about to.
LEMMA HoldersAre ==
    /\ Holders = {p \in Process : pc[p] \in {"write", "top", "pass"}}
    /\ Running \subseteq Holders /\ Deciding \subseteq Holders
  BY DEF Holders, Running, Deciding

\* What goes to a label moves no other process.
LEMMA Moves ==
    ASSUME TypeOK, NEW p \in Process, NEW label, Goto(p, label)
    PROVE  /\ pc' = [q \in Process |-> IF q = p THEN label ELSE pc[q]]
           /\ \A q \in Process : q # p => (q \in Holders' <=> q \in Holders)
           /\ \A q \in Process : q # p => (q \in Running' <=> q \in Running)
           /\ p \in Holders' <=> label \in {"write", "top", "pass"}
           /\ p \in Running' <=> label \in {"top", "pass"}
           /\ Holders' \subseteq Process /\ Running' \subseteq Holders'
  <1>1. pc' = [q \in Process |-> IF q = p THEN label ELSE pc[q]]
    BY DEF TypeOK, Goto
  <1> QED  BY <1>1 DEF Holders, Running, Deciding

\* Ages stay between 0 and the threshold.
LEMMA Ages ==
    ASSUME NEW a \in 0..Stale
    PROVE  /\ Older(a) \in 0..Stale
           /\ \A b \in 0..Stale : a <= b => Older(a) <= Older(b)
  BY LockAssumption DEF Older

\* The invariant holds when nothing runs yet.
LEMMA InitInv == Init => IInv
  <1> SUFFICES ASSUME Init PROVE IInv
    OBVIOUS
  <1>1. TypeOK
    BY LockAssumption DEF Init, TypeOK, NoLock
  <1>2. Holders = {} /\ Running = {} /\ lock = NoLock
    BY DEF Init, Holders, Running, Deciding
  <1> QED  BY <1>1, <1>2 DEF IInv, Sole, Marked, CleanExitsUnlock

\* Every action keeps the types.
LEMMA TypeStep ==
    ASSUME TypeOK, [Next]_vars
    PROVE  TypeOK'
  <1> USE DEF TypeOK
  <1>1. CASE UNCHANGED vars
    BY <1>1 DEF vars
  <1>2. CASE Tick
    BY <1>2, Ages DEF Tick, NoLock
  <1>3. ASSUME NEW p \in Process, Daemon(p)
        PROVE  TypeOK'
    <2>1. 0 \in 0..Stale
      BY LockAssumption
    <2>2. CASE Begin(p) \/ FindsNoLock(p) \/ FindsLock(p)
      BY <2>2 DEF Begin, FindsNoLock, FindsLock, Decide, Goto
    <2>3. CASE FindsStale(p) \/ Refused(p) \/ PassEnds(p)
      BY <2>3 DEF FindsStale, Refused, PassEnds, Decide, Goto
    <2>4. CASE Acquire(p) \/ Heartbeat(p)
      BY <2>1, <2>4 DEF Acquire, Heartbeat, WriteLock, Goto
    <2>5. CASE Leave(p)
      BY <2>5 DEF Leave, Release, Goto, NoLock
    <2> QED  BY <1>3, <2>2, <2>3, <2>4, <2>5 DEF Daemon
  <1>4. ASSUME NEW p \in Process, Abort(p) \/ Signal(p)
        PROVE  TypeOK'
    BY <1>4 DEF Abort, Release, Signal, Goto, NoLock
  <1>5. ASSUME NEW p \in Process, Kill(p)
        PROVE  TypeOK'
    BY <1>5, LockAssumption DEF Kill, Goto
  <1> QED  BY <1>1, <1>2, <1>3, <1>4, <1>5 DEF Next

\* Who finds the lock free or stale while it is trusted finds nobody running.
LEMMA DecideStep ==
    ASSUME IInv, NEW p \in Process, pc[p] \in {"exists", "stat"},
           lock = NoLock \/ IsStale, Decide(p)
    PROVE  Sole' /\ Marked' /\ CleanExitsUnlock'
  <1>1. trusted => Running = {}
    BY LockAssumption DEF IInv, TypeOK, Marked, IsStale, Running, NoLock
  <1>2. Running' = Running
    BY Moves DEF IInv, Decide, Running
  <1>3. trusted' => trusted /\ Holders = {}
    BY <1>1 DEF Decide, Holders
  <1>4. Sole'
    BY <1>3, Moves DEF IInv, Decide, Sole
  <1>5. Marked'
    BY <1>1, <1>2, <1>3 DEF Marked
  <1>6. CleanExitsUnlock'
    BY <1>2 DEF IInv, CleanExitsUnlock, Decide, NoLock
  <1> QED  BY <1>4, <1>5, <1>6

\* A process that is no holder before or after changes nothing for the others.
LEMMA AsideStep ==
    ASSUME IInv, NEW p \in Process, NEW label \in {"exists", "stat", "down"},
           p \notin Holders, Goto(p, label),
           UNCHANGED <<lock, since, kills, trusted>>
    PROVE  Sole' /\ Marked' /\ CleanExitsUnlock'
  <1>1. Holders' = Holders /\ Running' = Running
    BY Moves, HoldersAre DEF IInv, Holders, Running, Deciding
  <1> QED  BY <1>1 DEF IInv, Sole, Marked, CleanExitsUnlock, NoLock

\* A holder that writes is marked by what it writes.
LEMMA WriteStep ==
    ASSUME IInv, NEW p \in Holders, NEW label \in {"top", "pass"},
           Goto(p, label), WriteLock(p),
           trusted' => trusted \/ Holders = {p}
    PROVE  Sole' /\ Marked' /\ CleanExitsUnlock'
  <1>0. p \in Process
    BY HoldersAre
  <1>1. trusted' => Holders' = {p}
    BY <1>0, Moves, HoldersAre DEF IInv, Sole
  <1>2. Running' \subseteq Holders' /\ p \in Running'
    BY <1>0, Moves DEF IInv
  <1>3. lock' = 0 /\ since'[p] = 0 /\ 0 < Stale /\ 0 # NoLock
    BY <1>0, LockAssumption DEF IInv, TypeOK, WriteLock, NoLock
  <1>4. Sole' /\ CleanExitsUnlock'
    BY <1>1, <1>2 DEF Sole, CleanExitsUnlock
  <1>5. Marked'
    BY <1>1, <1>2, <1>3 DEF Marked, NoLock
  <1> QED  BY <1>4, <1>5

\* The last holder to go leaves nothing to be kept apart.
LEMMA ReleaseStep ==
    ASSUME IInv, NEW p \in Running, Release(p)
    PROVE  Sole' /\ Marked' /\ CleanExitsUnlock'
  <1>1. p \in Process /\ p \in Holders
    BY HoldersAre DEF Running
  <1>2. Holders' \subseteq Holders \ {p} /\ Running' \subseteq Holders'
    BY <1>1, Moves DEF IInv, Release
  <1>3. trusted' => Holders' = {} /\ Running' = {}
    BY <1>1, <1>2 DEF IInv, Sole, Release
  <1>4. lock' = NoLock /\ NoLock' = NoLock
    BY DEF Release, NoLock
  <1> QED  BY <1>3, <1>4 DEF Sole, Marked, CleanExitsUnlock

\* A kill leaves the file of whoever else runs.
LEMMA KillStep ==
    ASSUME IInv, NEW p \in Process, Kill(p)
    PROVE  Sole' /\ Marked' /\ CleanExitsUnlock'
  <1>1. \A q \in Process : q \in Holders' <=> q \in Holders /\ q # p
    BY Moves DEF IInv, Kill
  <1>2. \A q \in Process : q \in Running' => q \in Running /\ q # p
    BY Moves DEF IInv, Kill
  <1>3. Holders' \subseteq Process /\ Running' \subseteq Process
    BY DEF Holders, Running, Deciding
  <1>4. Sole'
    BY <1>1, <1>3, HoldersAre DEF IInv, Sole, Kill
  <1>5. Marked'
    <2>1. CASE trusted
      BY <2>1, <1>2, <1>3 DEF IInv, Marked, Kill, NoLock
    <2>2. CASE ~trusted
      BY <2>2, <1>2, <1>3, HoldersAre DEF Marked, Kill
    <2> QED  BY <2>1, <2>2
  <1>6. CleanExitsUnlock'
    BY DEF IInv, TypeOK, Kill, CleanExitsUnlock
  <1> QED  BY <1>4, <1>5, <1>6

\* Time ages the file no faster than the heartbeat.
LEMMA TickStep ==
    ASSUME IInv, Tick
    PROVE  Sole' /\ Marked' /\ CleanExitsUnlock'
  <1>1. Holders' = Holders /\ Running' = Running
    BY DEF Tick, Holders, Running, Deciding
  <1>2. Sole'
    BY <1>1 DEF IInv, Sole, Tick
  <1>3. Marked'
    <2> SUFFICES ASSUME trusted', NEW p \in Running
                 PROVE  lock' # NoLock /\ lock' <= since'[p]
                        /\ since'[p] < Stale
      BY <1>1 DEF Marked, NoLock
    <2>1. trusted /\ p \in Process /\ since'[p] < Stale
      BY DEF Tick, Running
    <2>2. lock # NoLock /\ lock <= since[p]
      BY <2>1 DEF IInv, Marked
    <2>3. lock \in 0..Stale /\ since[p] \in 0..Stale
      BY <2>1, <2>2 DEF IInv, TypeOK
    <2>4. lock' = Older(lock) /\ since'[p] = Older(since[p])
      BY <2>1, <2>2 DEF Tick
    <2>5. Older(lock) \in 0..Stale /\ Older(lock) <= Older(since[p])
      BY <2>2, <2>3, Ages
    <2> QED  BY <2>1, <2>4, <2>5, LockAssumption DEF NoLock
  <1>4. CleanExitsUnlock'
    BY <1>1 DEF IInv, CleanExitsUnlock, Tick, NoLock
  <1> QED  BY <1>2, <1>3, <1>4

\* Every step keeps the invariant.
LEMMA InvStep ==
    ASSUME IInv, [Next]_vars
    PROVE  IInv'
  <1>1. TypeOK'
    BY TypeStep DEF IInv
  <1> DEFINE Rest == Sole /\ Marked /\ CleanExitsUnlock
  <1> SUFFICES Rest'
    BY <1>1 DEF IInv
  <1>2. CASE UNCHANGED vars
    BY <1>2 DEF IInv, vars, Sole, Marked, CleanExitsUnlock, Holders, Running,
                Deciding, NoLock
  <1>3. CASE Tick
    BY <1>3, TickStep
  <1>4. ASSUME NEW p \in Process, Daemon(p)
        PROVE  Rest'
    <2>1. CASE Begin(p)
      BY <2>1, AsideStep, HoldersAre DEF Begin
    <2>2. CASE FindsNoLock(p)
      BY <2>2, DecideStep DEF FindsNoLock
    <2>3. CASE FindsLock(p)
      BY <2>3, AsideStep, HoldersAre DEF FindsLock
    <2>4. CASE FindsStale(p)
      BY <2>4, DecideStep DEF FindsStale
    <2>5. CASE Refused(p)
      BY <2>5, AsideStep, HoldersAre DEF Refused
    <2>6. CASE Acquire(p)
      BY <2>6, WriteStep, HoldersAre DEF Acquire
    <2>7. CASE Heartbeat(p)
      BY <2>7, WriteStep, HoldersAre DEF Heartbeat
    <2>8. CASE PassEnds(p)
      <3>1. Holders' = Holders /\ Running' = Running
        BY <2>8, Moves, HoldersAre
           DEF IInv, PassEnds, Holders, Running, Deciding
      <3> QED  BY <2>8, <3>1 DEF IInv, PassEnds, Sole, Marked,
                                 CleanExitsUnlock, NoLock
    <2>9. CASE Leave(p)
      BY <2>9, ReleaseStep DEF Leave, Running
    <2> QED  BY <1>4, <2>1, <2>2, <2>3, <2>4, <2>5, <2>6, <2>7, <2>8, <2>9
             DEF Daemon
  <1>5. ASSUME NEW p \in Process, Abort(p)
        PROVE  Rest'
    BY <1>5, ReleaseStep DEF Abort
  <1>6. ASSUME NEW p \in Process, Signal(p)
        PROVE  Rest'
    BY <1>6 DEF IInv, Signal, Sole, Marked, CleanExitsUnlock, Holders,
                Running, Deciding, NoLock
  <1>7. ASSUME NEW p \in Process, Kill(p)
        PROVE  Rest'
    BY <1>7, KillStep
  <1> QED  BY <1>2, <1>3, <1>4, <1>5, <1>6, <1>7 DEF Next

\* The inductive invariant of the lock.
THEOREM LockInvariance == Spec => []IInv
  BY InitInv, InvStep, PTL DEF Spec

\* Every variable keeps its type.
THEOREM LockTypeCorrect == Spec => []TypeOK
  <1>1. IInv => TypeOK
    BY DEF IInv
  <1> QED  BY <1>1, LockInvariance, PTL

\* Mutual exclusion, as far as the lock file gives it: no two daemons run
\* unless two decided at once or a heartbeat was overdue.
THEOREM AtMostOneDaemon == Spec => []OneDaemon
  <1>1. IInv => OneDaemon
    BY HoldersAre DEF IInv, Sole, OneDaemon
  <1> QED  BY <1>1, LockInvariance, PTL

\* A running daemon is shown by the lock file.
THEOREM LockIsHeartbeat == Spec => []LockShowsDaemon
  <1>1. IInv => LockShowsDaemon
    BY DEF IInv, Marked, LockShowsDaemon
  <1> QED  BY <1>1, LockInvariance, PTL

\* Stopped daemons and exceptions leave no lock file behind.
THEOREM NoLockLeft == Spec => []CleanExitsUnlock
  <1>1. IInv => CleanExitsUnlock
    BY DEF IInv
  <1> QED  BY <1>1, LockInvariance, PTL
===============================================================================
