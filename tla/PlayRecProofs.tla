----------------------------- MODULE PlayRecProofs -----------------------------
(***************************************************************************)
(* The capture of client/audio.py for files, tails, latencies, distances   *)
(* and block sizes of any length: the callback plays the file once and in  *)
(* order, and what is saved is the response to it.                         *)
(***************************************************************************)
EXTENDS PlayRec, TLAPS

(***************************************************************************)
(* While no frame was lost the cursor is the device's clock, stopped at    *)
(* the end of the buffer, and the captured part of the buffer is the file  *)
(* as it sounds delay + travel frames later.                               *)
(***************************************************************************)
Aligned == ~interrupted /\ stream = "running" => clock = cursor

Captured ==
    ~interrupted =>
        \A i \in 0..(cursor - 1) : recorded[i] = Padded(i - delay - travel)

\* A running stream with nothing left to move has nothing to move at all.
Unfinished ==
    /\ (stream = "running" \/ interrupted) => cursor < total \/ total = 0
    /\ stream = "closed" /\ pc = "open" => cursor = 0 /\ clock = 0 /\ ~interrupted

Response ==
    pc = "saved" =>
        /\ ~interrupted \/ total = 0
        /\ \A k \in 0..(len + tail - 1) : saved[k] = Padded(tail + k - travel)

IInv == TypeOK /\ PlaysFileOnce /\ Aligned /\ Captured /\ Unfinished /\ Response

\* An index below a length is in the interval that buffers are indexed by.
LEMMA InRange ==
    ASSUME NEW i \in Nat, NEW n \in Nat, i < n
    PROVE  i \in 0..(n - 1)
  OBVIOUS

\* The sizes of a capture are natural numbers, and how they add up.
LEMMA Sizes ==
    ASSUME TypeOK
    PROVE  /\ len \in Nat /\ tail \in Nat /\ delay \in Nat /\ travel \in Nat
           /\ Frames \in Nat /\ total \in Nat /\ cursor \in Nat /\ clock \in Nat
           /\ cursor <= total /\ total = Frames + delay
           /\ Frames = tail + len + tail
  BY SizesOK DEF TypeOK, Frames, total

\* A padded frame is a number, and there is silence before the first.
LEMMA PaddedType ==
    ASSUME TypeOK, NEW n \in Int
    PROVE  /\ Padded(n) \in Nat
           /\ n < 0 => Padded(n) = 0
  BY Sizes DEF Padded

\* ... and after the last.
LEMMA SilenceAround ==
    ASSUME TypeOK, NEW n \in Int, n >= Frames
    PROVE  Padded(n) = 0
  BY Sizes DEF Padded

\* What is heard of a loudspeaker that played the padded file for a while.
LEMMA HeardIsDelayed ==
    ASSUME TypeOK, NEW p, NEW c \in Nat, DOMAIN p = 0..(c - 1),
           \A g \in 0..(c - 1) : p[g] = Padded(g),
           NEW f \in 0..(c - 1)
    PROVE  Heard(p, f) = Padded(f - delay - travel)
  <1> DEFINE e == f - delay - travel
  <1>1. e \in Int /\ e <= f
    BY Sizes
  <1>2. CASE e < 0
    <2>1. e \notin DOMAIN p
      BY <1>1, <1>2
    <2>2. Padded(e) = 0
      BY <1>1, <1>2, PaddedType
    <2> QED
      BY <2>1, <2>2 DEF Heard
  <1>3. CASE e >= 0
    <2>1. e \in 0..(c - 1)
      BY <1>1, <1>3
    <2> QED
      BY <2>1 DEF Heard
  <1> QED
    BY <1>1, <1>2, <1>3

\* A capture that has not begun is aligned.
LEMMA InvInit == Init => IInv
  <1> SUFFICES ASSUME Init PROVE IInv
    OBVIOUS
  <1>1. /\ len \in Nat /\ tail \in Nat /\ delay \in Nat /\ travel \in Nat
        /\ total \in Nat
    BY SizesOK DEF Init, total, Frames
  <1>2. clock = 0 /\ 0..(clock - 1) = {}
    BY DEF Init
  <1>3. played \in [0..(clock - 1) -> Nat]
    BY <1>2 DEF Init
  <1>4. cursor \in 0..total /\ clock \in Nat
    BY <1>1 DEF Init
  <1>5. TypeOK
    BY <1>3, <1>4 DEF Init, TypeOK
  <1> QED
    BY <1>1, <1>5 DEF Init, IInv, PlaysFileOnce, Aligned, Captured, Unfinished,
                      Response

\* The three frames a good block adds: to the cursor, to what is played and to
\* what is captured.
LEMMA BlockMoved ==
    ASSUME IInv, NEW frames \in Blocks, Callback(frames)
    PROVE  /\ Count(frames) \in 0..frames
           /\ cursor' = cursor + Count(frames) /\ clock' = clock + frames
           /\ cursor' \in 0..total
           /\ Count(frames) = frames \/ cursor' = total
           /\ stream' = IF cursor' >= total THEN "ended" ELSE "running"
           /\ clock = cursor /\ ~interrupted /\ frames \in Nat \ {0}
  <1>1. TypeOK /\ stream = "running" /\ ~interrupted
    BY DEF IInv, Callback, NoFlag
  <1>2. clock = cursor /\ cursor \in 0..total /\ total \in Nat
    BY <1>1, Sizes DEF IInv, Aligned
  <1>3. frames \in Nat \ {0}
    BY SizesOK
  <1>4. /\ Count(frames) \in 0..frames /\ Count(frames) <= total - cursor
        /\ Count(frames) = frames \/ Count(frames) = total - cursor
    BY <1>2, <1>3 DEF Count, Least
  <1>5. /\ cursor' = cursor + Count(frames) /\ clock' = clock + frames
        /\ stream' = IF cursor' >= total THEN "ended" ELSE "running"
    BY <1>1 DEF Callback
  <1> QED
    BY <1>1, <1>2, <1>3, <1>4, <1>5

\* A block continues the file where the one before left off, whatever is cut
\* off at the end of the file or of the buffer (callback).
LEMMA BlockPlayed ==
    ASSUME IInv, NEW frames \in Blocks, Callback(frames)
    PROVE  /\ DOMAIN played' = 0..(clock' - 1)
           /\ \A f \in 0..(clock' - 1) : played'[f] = Padded(f)
  <1>1. TypeOK /\ ~interrupted /\ PlaysFileOnce
    BY BlockMoved DEF IInv
  <1>2. \A g \in 0..(frames - 1) : Output(Count(frames), g) = Padded(cursor + g)
    <2> TAKE g \in 0..(frames - 1)
    <2>1. /\ g \in Nat /\ g < frames /\ Count(frames) \in Nat
          /\ Count(frames) = frames \/ cursor + Count(frames) = total
          /\ frames \in Nat
      BY BlockMoved, Sizes, <1>1
    <2>2. CASE cursor + g >= Frames
      <3>1. Padded(cursor + g) = 0
        BY <1>1, <2>1, <2>2, Sizes, SilenceAround
      <3>2. ~(g < Least(Count(frames), Frames - cursor))
        BY <1>1, <2>1, <2>2, Sizes DEF Least
      <3> QED
        BY <3>1, <3>2 DEF Output
    <2>3. CASE cursor + g < Frames
      <3>1. g < Least(Count(frames), Frames - cursor)
        BY <1>1, <2>1, <2>3, Sizes DEF Least
      <3> QED
        BY <3>1 DEF Output
    <2> QED
      BY <1>1, <2>1, <2>2, <2>3, Sizes
  <1>3. played' = [f \in 0..(clock + frames - 1) |->
                      IF f < clock THEN played[f]
                      ELSE Output(Count(frames), f - clock)]
    BY DEF Callback
  <1>4. ASSUME NEW f \in 0..(clock' - 1) PROVE played'[f] = Padded(f)
    <2>1. clock \in Nat /\ clock = cursor /\ clock' = clock + frames /\ frames \in Nat
      BY <1>1, BlockMoved, Sizes
    <2>2. CASE f < clock
      <3>1. f \in 0..(clock - 1) /\ f \in 0..(clock + frames - 1)
        BY <2>1, <2>2
      <3> QED
        BY <1>1, <1>3, <2>2, <3>1 DEF PlaysFileOnce
    <2>3. CASE f >= clock
      <3>1. f - clock \in 0..(frames - 1) /\ cursor + (f - clock) = f
        BY <2>1, <2>3
      <3>2. Output(Count(frames), f - clock) = Padded(f)
        BY <1>2, <3>1
      <3>3. ~(f < clock) /\ f \in 0..(clock + frames - 1)
        BY <2>1, <2>3
      <3> QED
        BY <1>3, <3>2, <3>3
    <2> QED
      BY <2>1, <2>2, <2>3
  <1>5. clock' = clock + frames
    BY BlockMoved
  <1>6. DOMAIN played' = 0..(clock' - 1)
    <2>1. DOMAIN played' = 0..(clock + frames - 1)
      BY <1>3
    <2>2. 0..(clock + frames - 1) = 0..(clock' - 1)
      BY <1>1, <1>5, BlockMoved, Sizes
    <2> QED
      BY <2>1, <2>2, Zenon
  <1> QED
    BY <1>4, <1>6, Zenon

\* ... and so does the capture: what it heard is the file, later.
LEMMA BlockCaptured ==
    ASSUME IInv, NEW frames \in Blocks, Callback(frames)
    PROVE  \A i \in 0..(cursor' - 1) : recorded'[i] = Padded(i - delay - travel)
  <1> SUFFICES ASSUME NEW i \in 0..(cursor' - 1)
               PROVE  recorded'[i] = Padded(i - delay - travel)
    OBVIOUS
  <1>1. TypeOK /\ Captured
    BY DEF IInv
  <1>2. /\ cursor \in Nat /\ total \in Nat /\ cursor' \in 0..total
        /\ cursor' = cursor + Count(frames) /\ Count(frames) \in 0..frames
        /\ clock = cursor /\ clock' = clock + frames /\ frames \in Nat
        /\ ~interrupted
    BY <1>1, BlockMoved, Sizes
  <1>3. /\ i \in 0..(total - 1)
        /\ recorded'[i] = IF cursor <= i /\ i < cursor + Count(frames)
                          THEN Heard(played', clock + i - cursor)
                          ELSE recorded[i]
    BY <1>2 DEF Callback
  <1>4. CASE i < cursor
    BY <1>1, <1>2, <1>3, <1>4 DEF Captured
  <1>5. CASE i >= cursor
    <2>1. clock + i - cursor = i /\ i < cursor + Count(frames)
          /\ i \in 0..(clock' - 1) /\ clock' \in Nat
      BY <1>2, <1>5
    <2>2. Heard(played', i) = Padded(i - delay - travel)
      BY <1>1, <2>1, BlockPlayed, HeardIsDelayed
    <2> QED
      BY <1>3, <1>5, <2>1, <2>2
  <1> QED
    BY <1>2, <1>4, <1>5

\* A callback keeps the invariant.
LEMMA CallbackStep ==
    ASSUME IInv, NEW frames \in Blocks, Callback(frames)
    PROVE  IInv'
  <1>1. TypeOK /\ sizes' = sizes /\ pc' = pc /\ interrupted' = interrupted
        /\ errors' = errors /\ saved' = saved /\ pc = "waiting"
        /\ stream = "running"
    BY DEF IInv, TypeOK, Callback
  <1>2. total' = total /\ Frames' = Frames /\ \A n : Padded(n)' = Padded(n)
        /\ len' = len /\ tail' = tail /\ delay' = delay /\ travel' = travel
    BY <1>1 DEF sizes, total, Frames, Padded
  <1>3. /\ cursor' \in 0..total /\ cursor' \in Nat /\ clock' \in Nat
        /\ ~interrupted /\ stream' \in {"running", "ended"}
        /\ stream' = "running" => cursor' < total /\ clock' = cursor'
    BY <1>1, BlockMoved, Sizes
  <1>4. played' \in [0..(clock' - 1) -> Nat]
    <2>1. played' = [f \in DOMAIN played' |-> played'[f]]
      BY DEF Callback
    <2>2. \A f \in 0..(clock' - 1) : Padded(f) \in Nat
      BY <1>1, <1>3, PaddedType
    <2> QED
      BY <2>1, <2>2, BlockPlayed
  <1>5. recorded' \in [0..(total - 1) -> Nat \cup {NoFrame}]
    <2>1. recorded' = [i \in 0..(total - 1) |-> recorded'[i]]
      BY DEF Callback
    <2>2. ASSUME NEW i \in 0..(total - 1)
          PROVE  recorded'[i] \in Nat \cup {NoFrame}
      <3>1. CASE i < cursor'
        <4>1. i \in 0..(cursor' - 1)
          <5>1. i \in Nat /\ cursor' \in Nat
            BY <1>1, <1>3, Sizes
          <5> QED
            BY <3>1, <5>1, InRange, Zenon
        <4>2. i \in Int /\ delay \in Nat /\ travel \in Nat
          BY <1>1, Sizes
        <4>3. i - delay - travel \in Int
          BY <4>2
        <4> QED
          BY <1>1, <4>1, <4>3, BlockCaptured, PaddedType
      <3>2. CASE i >= cursor'
        <4>1. ~(i < cursor + Count(frames))
          BY <1>1, <1>3, <3>2, BlockMoved, Sizes
        <4>2. recorded'[i] = recorded[i]
          BY <4>1 DEF Callback
        <4> QED
          BY <1>1, <4>2 DEF TypeOK
      <3> QED
        BY <1>1, <1>3, <3>1, <3>2, Sizes
    <2> QED
      BY <2>1, <2>2
  <1>6. TypeOK'
    BY <1>1, <1>2, <1>3, <1>4, <1>5 DEF TypeOK
  <1>7. PlaysFileOnce'
    BY <1>2, BlockPlayed DEF PlaysFileOnce
  <1>8. Captured'
    BY <1>2, BlockCaptured DEF Captured
  <1>9. Aligned' /\ Unfinished' /\ Response'
    BY <1>1, <1>2, <1>3 DEF Aligned, Unfinished, Response
  <1> QED
    BY <1>6, <1>7, <1>8, <1>9 DEF IInv

\* What the steps that move no block keep of the invariant.
LEMMA Quiet ==
    ASSUME IInv, UNCHANGED <<sizes, cursor, recorded>>, interrupted' = interrupted,
           UNCHANGED <<clock, played>>
    PROVE  PlaysFileOnce' /\ Captured'
  BY DEF IInv, PlaysFileOnce, Captured, Padded, sizes

\* So does the start of the stream (stream.start) ...
LEMMA StartStep == ASSUME IInv, Start PROVE IInv'
  <1>1. TypeOK /\ total \in Nat
    BY Sizes DEF IInv
  <1>2. cursor = 0 /\ clock = 0 /\ ~interrupted
    BY DEF IInv, TypeOK, Unfinished, Start
  <1>3. UNCHANGED <<len, tail, delay, travel, total, Frames>>
        /\ \A n : Padded(n)' = Padded(n)
    BY DEF Start, sizes, total, Frames, Padded
  <1>4. recorded' \in [0..(total - 1) -> Nat \cup {NoFrame}]
    BY DEF Start
  <1>5. TypeOK'
    BY <1>1, <1>3, <1>4 DEF TypeOK, Start
  <1>6. PlaysFileOnce' /\ Captured'
    BY <1>2, <1>3 DEF IInv, PlaysFileOnce, Captured, Start
  <1>7. Aligned' /\ Unfinished' /\ Response'
    BY <1>1, <1>2, <1>3 DEF Aligned, Unfinished, Response, Start
  <1> QED
    BY <1>5, <1>6, <1>7 DEF IInv

\* ... an error of the main thread ...
LEMMA RaiseStep == ASSUME IInv, OpenFails \/ TimeOut PROVE IInv'
  <1>1. UNCHANGED <<len, tail, delay, travel, total, Frames, interrupted, errors,
                    cursor, clock, played, recorded, saved>>
        /\ pc' = "raised" /\ stream' = "closed"
    BY DEF OpenFails, TimeOut, Raise, sizes, total, Frames
  <1>2. PlaysFileOnce' /\ Captured'
    BY <1>1, Quiet DEF sizes
  <1>3. TypeOK' /\ Aligned' /\ Response'
    BY <1>1 DEF IInv, TypeOK, Aligned, Response
  <1>4. Unfinished'
    BY <1>1 DEF IInv, Unfinished
  <1> QED
    BY <1>2, <1>3, <1>4 DEF IInv

\* ... a stream that ends without its last block ...
LEMMA EndStep == ASSUME IInv, Abort \/ EndEarly PROVE IInv'
  <1>1. UNCHANGED <<len, tail, delay, travel, total, Frames, pc, interrupted,
                    cursor, clock, played, recorded, saved>>
        /\ stream = "running" /\ stream' = "ended" /\ errors' \in BOOLEAN
    BY DEF IInv, TypeOK, Abort, EndEarly, sizes, total, Frames
  <1>2. PlaysFileOnce' /\ Captured'
    BY <1>1, Quiet DEF sizes
  <1>3. TypeOK' /\ Aligned' /\ Unfinished'
    BY <1>1 DEF IInv, TypeOK, Aligned, Unfinished
  <1>4. Response'
    BY <1>1 DEF IInv, TypeOK, Response
  <1> QED
    BY <1>2, <1>3, <1>4 DEF IInv

\* ... frames that are lost ...
LEMMA LoseStep == ASSUME IInv, LoseFrames PROVE IInv'
  <1>1. UNCHANGED <<len, tail, delay, travel, total, Frames, pc, stream, errors,
                    cursor, recorded, saved>>
        /\ interrupted' = TRUE /\ stream = "running" /\ clock' = clock + 1
    BY DEF LoseFrames, sizes, total, Frames
  <1>2. clock \in Nat /\ played \in [0..(clock - 1) -> Nat]
    BY DEF IInv, TypeOK
  <1>3. played' \in [0..(clock' - 1) -> Nat]
    <2>1. played' = [f \in 0..clock |-> IF f < clock THEN played[f] ELSE 0]
      BY DEF LoseFrames
    <2>2. \A f \in 0..clock : (IF f < clock THEN played[f] ELSE 0) \in Nat
      BY <1>2
    <2>3. clock' - 1 = clock
      BY <1>1, <1>2
    <2> QED
      BY <2>1, <2>2, <2>3
  <1>4. TypeOK'
    BY <1>1, <1>2, <1>3 DEF IInv, TypeOK
  <1>5. PlaysFileOnce' /\ Captured' /\ Aligned' /\ Unfinished'
    BY <1>1 DEF IInv, PlaysFileOnce, Captured, Aligned, Unfinished
  <1>6. Response'
    BY <1>1 DEF IInv, TypeOK, Response
  <1> QED
    BY <1>4, <1>5, <1>6 DEF IInv

\* The slice lies inside what was captured, and the latency drops out of it.
LEMMA SliceIsResponse ==
    ASSUME IInv, Finish, ~errors, cursor = total
    PROVE  /\ ~interrupted \/ total = 0
           /\ \A k \in 0..(len + tail - 1) :
                 recorded[SliceStart + k] = Padded(tail + k - travel)
  <1>1. TypeOK
    BY DEF IInv
  <1>2. ~interrupted \/ total = 0
    BY <1>1, Sizes DEF IInv, Unfinished
  <1>3. ASSUME NEW k \in 0..(len + tail - 1)
        PROVE  recorded[SliceStart + k] = Padded(tail + k - travel)
    <2> DEFINE i == SliceStart + k
    <2>1. i \in 0..(cursor - 1) /\ total # 0 /\ i - delay - travel = tail + k - travel
      <3>1. /\ len \in Nat /\ tail \in Nat /\ delay \in Nat /\ travel \in Nat
            /\ total = tail + len + tail + delay /\ k \in Int
        BY <1>1, Sizes
      <3> QED
        BY <3>1 DEF SliceStart
    <2> HIDE DEF i
    <2>2. recorded[i] = Padded(i - delay - travel)
      BY <1>2, <2>1 DEF IInv, Captured
    <2>3. recorded[i] = Padded(tail + k - travel)
      BY <2>1, <2>2
    <2> QED
      BY <2>3 DEF i
  <1> QED
    BY <1>2, <1>3

\* ... and what the main thread makes of the capture after finished.wait.
LEMMA FinishStep == ASSUME IInv, Finish PROVE IInv'
  <1>1. UNCHANGED <<len, tail, delay, travel, total, Frames, interrupted, errors,
                    cursor, clock, played, recorded>>
        /\ stream' = "closed" /\ pc' \in {"raised", "saved"}
        /\ \A n : Padded(n)' = Padded(n)
    BY DEF Finish, Raise, sizes, total, Frames, Padded
  <1>2. PlaysFileOnce' /\ Captured'
    BY <1>1, Quiet DEF sizes
  <1>3. Aligned' /\ Unfinished'
    BY <1>1 DEF IInv, Aligned, Unfinished
  <1>4. TypeOK
    BY DEF IInv
  <1>5. CASE pc' = "raised"
    <2>1. TypeOK' /\ Response'
      BY <1>1, <1>4, <1>5 DEF TypeOK, Response
    <2> QED
      BY <1>2, <1>3, <2>1 DEF IInv
  <1>6. CASE pc' = "saved"
    <2>1. ~errors /\ cursor = total
          /\ saved' = [k \in 0..(len + tail - 1) |-> recorded[SliceStart + k]]
      BY <1>6 DEF Finish, Raise
    <2>2. Response'
      <3>1. ~interrupted \/ total = 0
        BY <2>1, SliceIsResponse
      <3>2. \A k \in 0..(len + tail - 1) : saved'[k] = Padded(tail + k - travel)
        BY <2>1, SliceIsResponse
      <3> QED
        BY <1>1, <3>1, <3>2 DEF Response, Padded
    <2>3. \A k \in 0..(len + tail - 1) : recorded[SliceStart + k] \in Nat
      <3>1. \A k \in 0..(len + tail - 1) : tail + k - travel \in Int
        BY <1>4, Sizes
      <3>2. \A k \in 0..(len + tail - 1) : Padded(tail + k - travel) \in Nat
        BY <1>4, <3>1, PaddedType
      <3> QED
        BY <2>1, <3>2, SliceIsResponse
    <2>4. TypeOK'
      BY <1>1, <1>4, <1>6, <2>1, <2>3 DEF TypeOK
    <2> QED
      BY <1>2, <1>3, <2>2, <2>4 DEF IInv
  <1> QED
    BY <1>1, <1>5, <1>6

\* The invariant the theorems below are read off.
THEOREM Invariance == Spec => []IInv
  <1>1. ASSUME IInv, [Next]_vars PROVE IInv'
    <2>1. CASE OpenFails \/ TimeOut
      BY <1>1, <2>1, RaiseStep
    <2>2. CASE Start
      BY <1>1, <2>2, StartStep
    <2>3. CASE Finish
      BY <1>1, <2>3, FinishStep
    <2>4. CASE \E frames \in Blocks : Callback(frames)
      BY <1>1, <2>4, CallbackStep
    <2>5. CASE Abort \/ EndEarly
      BY <1>1, <2>5, EndStep
    <2>6. CASE LoseFrames
      BY <1>1, <2>6, LoseStep
    <2>7. CASE UNCHANGED vars
      BY <1>1, <2>7 DEF vars, sizes, IInv, TypeOK, PlaysFileOnce, Aligned,
         Captured,
                        Unfinished, Response, Padded, total, Frames
    <2> QED
      BY <1>1, <2>1, <2>2, <2>3, <2>4, <2>5, <2>6, <2>7 DEF Next
  <1> QED
    BY <1>1, InvInit, PTL DEF Spec

\* Every variable keeps its type, for captures of any length.
THEOREM CaptureTypeCorrect == Spec => []TypeOK
  <1>1. IInv => TypeOK
    BY DEF IInv
  <1> QED
    BY <1>1, Invariance, PTL

\* Whatever the block sizes, the loudspeaker plays the file once, in order.
THEOREM FilePlayedOnce == Spec => []PlaysFileOnce
  <1>1. IInv => PlaysFileOnce
    BY DEF IInv
  <1> QED
    BY <1>1, Invariance, PTL

\* A saved recording is the response to the file, aligned with it and with its
\* tail, for every latency, distance and block size.
THEOREM RecordingIsResponse == Spec => []SavedIsResponse
  <1>1. IInv => SavedIsResponse
    <2> SUFFICES ASSUME IInv, pc = "saved"
                 PROVE  /\ DOMAIN saved = 0..(len + tail - 1)
                        /\ \A k \in 0..(len + tail - 1) :
                              saved[k] = IF travel <= k /\ k < travel + len
                                         THEN k - travel + 1 ELSE 0
      BY DEF SavedIsResponse, IInv, TypeOK
    <2>1. TypeOK /\ DOMAIN saved = 0..(len + tail - 1)
      BY DEF IInv, TypeOK
    <2>2. ASSUME NEW k \in 0..(len + tail - 1)
          PROVE  saved[k] = IF travel <= k /\ k < travel + len
                            THEN k - travel + 1 ELSE 0
      <3>1. saved[k] = Padded(tail + k - travel)
        BY DEF IInv, Response
      <3>2. len \in Nat /\ tail \in Nat /\ travel \in Nat /\ k \in Int
        BY <2>1, Sizes
      <3> QED
        BY <3>1, <3>2 DEF Padded
    <2> QED
      BY <2>1, <2>2
  <1> QED
    BY <1>1, Invariance, PTL

\* No capture that lost frames is ever saved.
THEOREM InterruptedDropped == Spec => []InterruptedNeverSaved
  <1>1. IInv => InterruptedNeverSaved
    BY DEF IInv, Response, InterruptedNeverSaved
  <1> QED
    BY <1>1, Invariance, PTL
===============================================================================
