----------------------------- MODULE PlaybackProofs -----------------------------
(***************************************************************************)
(* How often a job is heard, for every set of jobs, every retry budget and *)
(* every bound on faults.  The invariant of the daemon itself comes from   *)
(* ChamberProofs, whose theorems hold here because a behaviour with the    *)
(* history is one of the daemon when the history is left out.              *)
(***************************************************************************)
EXTENDS Playback, ChamberProofs

-------------------------------------------------------------------------------
\* Without its history, each step is one of the daemon's.
LEMMA DaemonSteps == [PlaybackNext]_playbackVars => [Next]_vars
  BY DEF PlaybackNext, playbackVars

\* So a behaviour with the history is one of the daemon, and its invariants hold.
\* (That every behaviour of the daemon has a history is no theorem here.)
LEMMA PlaybackIsChamber == PlaybackSpec => Spec
<1>1. PlaybackInit => Init
    BY DEF PlaybackInit
<1>2. QED
    BY <1>1, DaemonSteps, PTL DEF PlaybackSpec, Spec

\* A play that some fault did not pay for is not repeated: the recording it
\* began is still there, its source is in done/, or the job was given up.
PlayedOut(j) ==
    rec[j] # "none" \/ source[j] = "done" \/ rows[j].state = "FAILED"

Paying(j) ==
    /\ plays[j] \in Nat
    /\ \/ plays[j] <= faults
       \/ plays[j] <= 1 + faults /\ PlayedOut(j)

\* A source in done/ is there to stay.
LEMMA DoneStays ==
    ASSUME IInv, [Next]_vars, NEW k \in Jobs, source[k] = "done"
    PROVE  source'[k] = "done"
<1> USE DEF IInv, TypeOK
<1>1. CASE Daemon \/ Crash \/ LoseDb
    BY <1>1, ServerFrame
    DEF Claim, Publish, Retire, TidyFailedJob, At, JobStep, PassIsConsistent
<1>2. ASSUME NEW j \in Jobs, Submit(j) PROVE source'[k] = "done"
    BY <1>2 DEF Submit
<1>3. CASE UNCHANGED vars
    BY <1>3 DEF vars, server
<1>4. QED
    BY <1>1, <1>2, <1>3 DEF Next

\* Only the loss of the table opens the way to another play, and it is a fault.
LEMMA PlayedOutStays ==
    ASSUME IInv, AbsentIsEmpty, [Next]_vars, NEW k \in Jobs, PlayedOut(k)
    PROVE  PlayedOut(k)' \/ faults' = faults + 1
<1>1. CASE LoseDb
    BY <1>1 DEF LoseDb, Fault
<1>2. CASE source[k] = "done"
    BY <1>2, DoneStays DEF PlayedOut
<1>3. CASE rows[k].state = "FAILED" /\ ~LoseDb
    BY <1>3, RowsMoveOn DEF MovesOn, LifeCycle, MayFail, Held, PlayedOut
<1>4. CASE rec[k] # "none" /\ rec'[k] # "none"
    BY <1>4 DEF PlayedOut
<1>5. CASE rec[k] # "none" /\ rec'[k] = "none"
    <2>1. CASE DeleteRecording
        <3>1. job = k /\ source[k] = "done"
            BY <1>5, <2>1
            DEF DeleteRecording, At, IInv, TypeOK, JobStep, PassIsConsistent,
                StoresAgree, DoneIsDelivered
        <3>2. QED
            BY <1>2, <3>1
    <2>2. ASSUME NEW inputs \in SUBSET JobsInState(rows, "FAILED"),
                 NEW recs \in SUBSET inputs, NEW old,
                 CleanupLocal(inputs, recs, old)
          PROVE  PlayedOut(k)'
        BY <1>5, <2>2 DEF CleanupLocal, JobsInState, PlayedOut
    <2>3. QED
        BY <1>5, <2>1, <2>2, RecordingFrame DEF IInv
<1>6. QED
    BY <1>1, <1>2, <1>3, <1>4, <1>5 DEF PlayedOut

\* Each play is the first or has a fault that came before it.
LEMMA PayingStep ==
    ASSUME IInv, AbsentIsEmpty, [PlaybackNext]_playbackVars,
           NEW k \in Jobs \ Unplayable, Paying(k)
    PROVE  Paying(k)'
<1>0. /\ k \in Jobs /\ [Next]_vars
      /\ faults \in Nat /\ faults' \in Nat /\ faults' >= faults
    BY DaemonSteps, TypeStep, FaultsGrow, ConstantsOK
    DEF IInv, TypeOK, ConstantsOK
<1>1. CASE PlaybackNext /\ Sounds(k)
    <2>1. /\ job = k /\ rec[k] = "none" /\ rows[k].state = "DOWNLOADED"
          /\ source[k] = "processing"
        BY <1>0, <1>1
        DEF Sounds, Play, At, IInv, PassIsConsistent, StoresAgree,
            HeldIsProcessing, Held
    <2>2. plays[k] \in Nat /\ plays[k] <= faults
        BY <2>1 DEF Paying, PlayedOut
    <2>3. plays'[k] = plays[k] + 1
        BY <1>0, <1>1 DEF PlaybackNext
    <2>4. rec'[k] # "none" \/ faults' = faults + 1
        BY <1>0, <1>1, <2>1 DEF Sounds, Play, Fault, IInv, TypeOK
    <2>5. QED
        BY <1>0, <2>2, <2>3, <2>4 DEF Paying, PlayedOut
<1>2. CASE ~(PlaybackNext /\ Sounds(k))
    <2>1. plays'[k] = plays[k]
        BY <1>0, <1>2 DEF PlaybackNext, playbackVars
    <2>2. plays[k] <= faults => plays'[k] <= faults'
        BY <1>0, <2>1 DEF Paying
    <2>3. PlayedOut(k) => PlayedOut(k)' \/ faults' = faults + 1
        BY <1>0, PlayedOutStays
    <2>4. QED
        BY <1>0, <2>1, <2>2, <2>3 DEF Paying
<1>3. QED
    BY <1>1, <1>2

\* No job that can be played is heard more than once, but for each fault.
THEOREM NoneHeardForNothing == PlaybackSpec => []PlaysArePaid
<1> DEFINE AllPaying == \A j \in Jobs \ Unplayable : Paying(j)
<1>1. PlaybackInit => AllPaying
    <2> SUFFICES ASSUME PlaybackInit, NEW j \in Jobs \ Unplayable
                 PROVE  Paying(j)
        OBVIOUS
    <2>1. plays[j] = 0 /\ faults = 0
        BY DEF PlaybackInit, Init
    <2>2. QED
        BY <2>1 DEF Paying
<1>2. IInv /\ AbsentIsEmpty /\ AllPaying /\ [PlaybackNext]_playbackVars
      => AllPaying'
    BY PayingStep
<1>3. IInv /\ AllPaying => PlaysArePaid
    <2> SUFFICES ASSUME IInv, NEW j \in Jobs \ Unplayable, Paying(j)
                 PROVE  plays[j] <= 1 + faults
        BY DEF PlaysArePaid
    <2>1. faults \in Nat
        BY ConstantsOK DEF IInv, TypeOK, ConstantsOK
    <2>2. QED
        BY <2>1 DEF Paying
<1> HIDE DEF AllPaying
<1>4. QED
    BY <1>1, <1>2, <1>3, PlaybackIsChamber, Invariance, AbsentEmpty, PTL
    DEF PlaybackSpec
=================================================================================
