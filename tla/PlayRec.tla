-------------------------------- MODULE PlayRec --------------------------------
(***************************************************************************)
(* One full-duplex capture of client/audio.py: play_and_record pads the    *)
(* file with silence, _playrec_with_latency runs one stream whose callback *)
(* (a thread of PortAudio) moves blocks of frames while the main thread    *)
(* waits for it, and the saved recording is a slice of what was captured.  *)
(*                                                                         *)
(* One channel; a frame is a number: 0 is silence, k + 1 is frame k of the *)
(* file.  The sound goes from the device's output through the air to its   *)
(* input: a frame is heard "delay" (the latency the stream reports) plus   *)
(* "travel" (the acoustics the recording is made for) frames later.        *)
(***************************************************************************)
EXTENDS Integers

CONSTANTS Lens,     \* lengths of files, in frames
          Tails,    \* tail_seconds, in frames; the settling time is the same
          Delays,   \* reported input plus output latency, in frames
          Travels,  \* frames from loudspeaker to microphone
          Blocks,   \* sizes of the blocks the device asks for
          NoFrame   \* what np.empty holds before it is written

ASSUME SizesOK ==
    /\ Lens \subseteq Nat /\ Tails \subseteq Nat
    /\ Delays \subseteq Nat /\ Travels \subseteq Nat
    /\ Blocks \subseteq Nat \ {0}
    /\ NoFrame \notin Nat

VARIABLES
    len, tail, delay, travel,  \* of this capture
    pc,         \* main thread: "open", "waiting", "saved" or "raised"
    stream,     \* "closed", "running" or "ended"
    interrupted,\* frames were lost: the next callback gets a status flag
    errors,     \* the callback raised
    cursor,     \* frames moved so far
    clock,      \* frames the device has run
    played,     \* what the device put out, a frame per tick of its clock
    recorded,   \* the capture buffer
    saved       \* the slice written to the recording

sizes == <<len, tail, delay, travel>>
vars == <<sizes, pc, stream, interrupted, errors, cursor, clock, played,
          recorded, saved>>

Least(a, b) == IF a < b THEN a ELSE b

\* np.concatenate([lead_in, data, silence])
Frames == tail + len + tail
Padded(n) == IF tail <= n /\ n < tail + len THEN n - tail + 1 ELSE 0

\* total_frames: playback and the latency to compensate
total == Frames + delay

\* What the microphone hears at tick f if the loudspeaker played p.
Heard(p, f) ==
    LET e == f - delay - travel IN IF e \in DOMAIN p THEN p[e] ELSE 0

Init ==
    /\ len \in Lens /\ tail \in Tails /\ travel \in Travels /\ delay \in Delays
    /\ pc = "open" /\ stream = "closed"
    /\ interrupted = FALSE /\ errors = FALSE
    /\ cursor = 0 /\ clock = 0
    /\ played = [f \in {} |-> 0]
    /\ recorded = [i \in {} |-> NoFrame]
    /\ saved = [i \in {} |-> NoFrame]

(* Main thread *)

Raise == pc' = "raised" /\ stream' = "closed"

\* The device is missing or rejects the settings, or its latency is not finite.
OpenFails ==
    /\ pc = "open"
    /\ Raise
    /\ UNCHANGED <<sizes, interrupted, errors, cursor, clock, played,
                   recorded, saved>>

\* The buffer is allocated after the latency is known, before stream.start().
Start ==
    /\ pc = "open"
    /\ pc' = "waiting" /\ stream' = "running"
    /\ recorded' = [i \in 0..(total - 1) |-> NoFrame]
    /\ UNCHANGED <<sizes, interrupted, errors, cursor, clock, played,
                   saved>>

\* finished.wait(timeout=...) gives up; finally closes the stream.
TimeOut ==
    /\ pc = "waiting"
    /\ Raise
    /\ UNCHANGED <<sizes, interrupted, errors, cursor, clock, played,
                   recorded, saved>>

\* Mutant of SliceStart: the latency is not compensated.
SliceUncompensated == tail

\* start = settle_frames + delay_frames
SliceStart == tail + delay

\* finished is set: by CallbackStop, by CallbackAbort, or by a device that went.
Finish ==
    /\ pc = "waiting" /\ stream = "ended"
    /\ IF errors \/ cursor # total
       THEN Raise /\ UNCHANGED saved
       ELSE /\ pc' = "saved" /\ stream' = "closed"
            /\ saved' = [k \in 0..(len + tail - 1) |-> recorded[SliceStart + k]]
    /\ UNCHANGED <<sizes, interrupted, errors, cursor, clock, played, recorded>>

(* The callback *)

\* Mutant of NoFlag: lost frames are only logged.
FlagIgnored == TRUE

\* "if status: raise"
NoFlag == ~interrupted

\* count: a block is cut at the end of the buffer.
Count(frames) == Least(frames, total - cursor)

\* Mutant of Output: the cursor has moved before the block is filled.
OutputAfterMove(count, f) ==
    IF f < Least(count, Frames - cursor) THEN Padded(cursor + count + f) ELSE 0

\* What outdata holds at its frame f: past the end of data it stays silent.
Output(count, f) ==
    IF f < Least(count, Frames - cursor) THEN Padded(cursor + f) ELSE 0

Callback(frames) ==
    /\ stream = "running" /\ NoFlag
    /\ LET count == Count(frames) IN
       /\ played' = [f \in 0..(clock + frames - 1) |->
                        IF f < clock THEN played[f] ELSE Output(count, f - clock)]
       /\ recorded' = [i \in 0..(total - 1) |->
                          IF cursor <= i /\ i < cursor + count
                          THEN Heard(played', clock + i - cursor)
                          ELSE recorded[i]]
       /\ cursor' = cursor + count
    /\ clock' = clock + frames
    /\ stream' = IF cursor' >= total THEN "ended" ELSE stream
    /\ UNCHANGED <<sizes, pc, interrupted, errors, saved>>

\* A status flag, or anything else the callback raises on.
Abort ==
    /\ stream = "running"
    /\ errors' = TRUE /\ stream' = "ended"
    /\ UNCHANGED <<sizes, pc, interrupted, cursor, clock, played,
                   recorded, saved>>

(* The device *)

\* An overflow or underflow: ticks pass without a callback.
LoseFrames ==
    /\ stream = "running" /\ ~interrupted
    /\ interrupted' = TRUE
    /\ clock' = clock + 1
    /\ played' = [f \in 0..clock |-> IF f < clock THEN played[f] ELSE 0]
    /\ UNCHANGED <<sizes, pc, stream, errors, cursor, recorded, saved>>

\* The stream ends by itself, e.g. the device was unplugged.
EndEarly ==
    /\ stream = "running"
    /\ stream' = "ended"
    /\ UNCHANGED <<sizes, pc, interrupted, errors, cursor, clock, played,
                   recorded, saved>>

Next ==
    \/ OpenFails \/ Start \/ TimeOut \/ Finish
    \/ (\E frames \in Blocks : Callback(frames)) \/ Abort
    \/ LoseFrames \/ EndEarly

Spec == Init /\ [][Next]_vars

-------------------------------------------------------------------------------
\* Every variable keeps its type; the buffers have the lengths the cursors say.
TypeOK ==
    /\ len \in Lens /\ tail \in Tails /\ delay \in Delays /\ travel \in Travels
    /\ pc \in {"open", "waiting", "saved", "raised"}
    /\ stream \in {"closed", "running", "ended"}
    /\ stream # "closed" <=> pc = "waiting"
    /\ interrupted \in BOOLEAN /\ errors \in BOOLEAN
    /\ cursor \in 0..total /\ clock \in Nat
    /\ played \in [0..(clock - 1) -> Nat]
    /\ pc # "open" /\ stream # "closed" =>
           recorded \in [0..(total - 1) -> Nat \cup {NoFrame}]
    /\ pc = "saved" => saved \in [0..(len + tail - 1) -> Nat]

\* Over all blocks the loudspeaker plays the settling silence, each frame of
\* the file once and in order, and silence again: a short last block or a
\* block that straddles the end repeats and skips nothing (callback).
PlaysFileOnce ==
    ~interrupted => \A f \in 0..(clock - 1) : played[f] = Padded(f)

\* Sample k of a saved recording is what the file's frame k - travel sounds
\* like: the reported latency is compensated, the acoustic delay and the tail
\* are kept, and no frame of np.empty gets through (play_and_record).
SavedIsResponse ==
    pc = "saved" =>
        /\ DOMAIN saved = 0..(len + tail - 1)
        /\ \A k \in DOMAIN saved :
              saved[k] = IF travel <= k /\ k < travel + len
                         THEN k - travel + 1 ELSE 0

\* "Dropped/inserted samples invalidate a fixed alignment offset": a capture
\* that lost frames, at whatever moment while frames were to come, is never
\* saved (callback and the checks after finished.wait).
InterruptedNeverSaved == pc = "saved" /\ interrupted => total = 0
===============================================================================
