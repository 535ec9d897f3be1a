-------------------------- MODULE DummyStreamProofs --------------------------
(***************************************************************************)
(* The dummy backend's streams, for every capacity of the ring buffer,     *)
(* size of a frame and length of time: the callback is promised only what  *)
(* is there, no stream runs ahead of the clock, and the thread never runs  *)
(* on a stream whose parts are gone.                                       *)
(***************************************************************************)
EXTENDS DummyStream, TLAPS

\* TypeOK without the numbers, a variable at a time.
Flags ==
  /\ thread \in BOOLEAN /\ cond \in BOOLEAN /\ ring_buffer \in BOOLEAN
  /\ abort_flag \in BOOLEAN /\ clear_buffer_flag \in BOOLEAN /\ pause_requested \in BOOLEAN
  /\ resets \in BOOLEAN

Places ==
  /\ dir \in {"out", "in"}
  /\ api \in {"created", "open", "failed", "started", "joining", "freeing", "destroyed"}
  /\ tpc \in {"none", "entry", "test", "wait", "clear", "pause", "consume", "callback", "done"}

\* There is a thread from start until destroy has joined it, and all that time
\* the parts it uses; only that of a playback stream looks for clear requests.
Lifetimes ==
  /\ api \in {"created", "open", "failed"} => ~thread /\ tpc = "none"
  /\ api \in {"freeing", "destroyed"} => tpc \in {"none", "done"}
  /\ api \in {"started", "joining"} => thread
  /\ api \in {"open", "started", "joining"} => cond /\ ring_buffer
  /\ tpc = "clear" => dir = "out"

\* What is in the buffer are whole frames; a transfer is under way only in a
\* callback, and there is room, or there are frames, for what is left of its
\* allowance.
Buffer ==
  /\ fill_bytes \in 0..CapacityBytes /\ fill_bytes % BytesPerFrame = 0
  /\ frames_left \in 0..MaxFrames /\ frame_count \in 0..MaxFrames
  /\ tpc # "callback" => frame_count = 0
  /\ tpc = "callback" =>
       /\ frame_count <= frames_left
       /\ dir = "out" => fill_bytes + frames_left * BytesPerFrame <= CapacityBytes
       /\ dir = "in" => frames_left * BytesPerFrame <= fill_bytes

\* The time noted by the loop is not before the clock's start, to which a paused
\* stream's clock is set back.
Clock ==
  /\ elapsed \in 0..MaxTime /\ since \in 0..MaxTime /\ consumed \in Int
  /\ consumed <= elapsed
  /\ tpc \in {"wait", "clear", "pause"} => since <= elapsed

StreamInv == Flags /\ Places /\ Lifetimes /\ Buffer /\ Clock

-----------------------------------------------------------------------------
LEMMA LeastOfTwo ==
  ASSUME NEW a \in Int, NEW b \in Int
  PROVE  Least(a, b) \in {a, b} /\ Least(a, b) \in Int /\ Least(a, b) <= a /\ Least(a, b) <= b
BY SMT DEF Least

\* What \div leaves over, and that multiplication by the size of a frame keeps
\* order and whole frames.
LEMMA WholeFrames ==
  ASSUME NEW a \in Nat
  PROVE  /\ a \div BytesPerFrame \in Nat
         /\ (a \div BytesPerFrame) * BytesPerFrame <= a
         /\ a % BytesPerFrame = 0 => a = (a \div BytesPerFrame) * BytesPerFrame
BY SizesAssumption, SMT

LEMMA FramesAreOrdered ==
  ASSUME NEW a \in Nat, a <= CapacityBytes
  PROVE  a \div BytesPerFrame \in 0..MaxFrames
BY SizesAssumption, SMT DEF MaxFrames

LEMMA MoreFrames ==
  ASSUME NEW k \in Int, NEW m \in Int
  PROVE  /\ k * BytesPerFrame \in Int /\ m * BytesPerFrame \in Int
         /\ k <= m => k * BytesPerFrame <= m * BytesPerFrame
         /\ k \in Nat => 0 <= k * BytesPerFrame
         /\ (k + m) * BytesPerFrame = k * BytesPerFrame + m * BytesPerFrame
         /\ (k - m) * BytesPerFrame = k * BytesPerFrame - m * BytesPerFrame
         /\ 0 * BytesPerFrame = 0
BY SizesAssumption, SMT

LEMMA MultipleOfFrame ==
  ASSUME NEW k \in Nat
  PROVE  (k * BytesPerFrame) % BytesPerFrame = 0
BY SizesAssumption, SMT

\* Adding whole frames to whole frames, or taking them away, leaves whole frames.
LEMMA FramesMoved ==
  ASSUME NEW a \in Nat, a % BytesPerFrame = 0, NEW k \in Nat
  PROVE  /\ (a + k * BytesPerFrame) % BytesPerFrame = 0
         /\ k * BytesPerFrame <= a => (a - k * BytesPerFrame) % BytesPerFrame = 0
<1> DEFINE q == a \div BytesPerFrame
<1>1. q \in Nat /\ a = q * BytesPerFrame
  BY WholeFrames
<1> HIDE DEF q
<1>2. a + k * BytesPerFrame = (q + k) * BytesPerFrame
  BY <1>1, MoreFrames
<1>3. a - k * BytesPerFrame = (q - k) * BytesPerFrame
  BY <1>1, MoreFrames
<1>4. k * BytesPerFrame <= a => q - k \in Nat
  BY <1>1, SizesAssumption, SMT
<1>5. q + k \in Nat
  BY <1>1, SMT
<1>6. ((q + k) * BytesPerFrame) % BytesPerFrame = 0
  BY <1>5, MultipleOfFrame
<1>7. ASSUME k * BytesPerFrame <= a PROVE ((q - k) * BytesPerFrame) % BytesPerFrame = 0
  BY <1>4, <1>7, MultipleOfFrame
<1> QED
  BY <1>2, <1>3, <1>6, <1>7, Zenon

-----------------------------------------------------------------------------
LEMMA Typing == Flags /\ Places /\ Buffer /\ Clock => TypeOK
<1> SUFFICES ASSUME Flags, Places, Buffer, Clock PROVE TypeOK
  OBVIOUS
<1>1. {thread, cond, ring_buffer, abort_flag, clear_buffer_flag, pause_requested, resets}
        \subseteq BOOLEAN
  BY SMT DEF Flags
<1> QED
  BY <1>1, Zenon DEF TypeOK, Places, Buffer, Clock

LEMMA InitHolds == Init => StreamInv
<1> SUFFICES ASSUME Init PROVE StreamInv
  OBVIOUS
<1>1. Flags
  BY Zenon DEF Init, Flags
<1>2. Places /\ Lifetimes
  BY Zenon DEF Init, Places, Lifetimes
<1>3. Buffer
  <2>1. 0 \in 0..MaxFrames /\ 0 \in 0..CapacityBytes /\ 0 % BytesPerFrame = 0
    BY SizesAssumption, SMT DEF MaxFrames
  <2> QED
    BY <2>1, Zenon DEF Init, Buffer
<1>4. Clock
  BY SizesAssumption, SMT DEF Init, Clock
<1> QED
  BY <1>1, <1>2, <1>3, <1>4, Zenon DEF StreamInv

-----------------------------------------------------------------------------
\* The frames in the buffer and the room for more, counted in frames.
LEMMA BufferSizes ==
  ASSUME StreamInv
  PROVE  /\ FillFrames \in 0..MaxFrames /\ FreeFrames \in 0..MaxFrames /\ MaxFrames \in Nat
         /\ FillFrames * BytesPerFrame <= fill_bytes
         /\ FreeFrames * BytesPerFrame <= CapacityBytes - fill_bytes
         /\ MaxFrames * BytesPerFrame <= CapacityBytes
<1>1. /\ fill_bytes \in Nat /\ fill_bytes <= CapacityBytes
      /\ CapacityBytes - fill_bytes \in Nat /\ CapacityBytes - fill_bytes <= CapacityBytes
      /\ CapacityBytes \in Nat
  BY SizesAssumption, SMT DEF StreamInv, Buffer
<1>2. FillFrames \in 0..MaxFrames /\ FreeFrames \in 0..MaxFrames /\ MaxFrames \in Nat
  BY <1>1, FramesAreOrdered, WholeFrames, Zenon DEF FillFrames, FreeFrames, MaxFrames
<1> QED
  BY <1>1, <1>2, WholeFrames, Zenon DEF FillFrames, FreeFrames, MaxFrames

\* The flags stay flags; one step per action.
LEMMA FlagsStep == StreamInv /\ [Next]_vars => Flags'
<1> SUFFICES ASSUME StreamInv, [Next]_vars PROVE Flags'
  OBVIOUS
<1> USE DEF StreamInv, Flags, control, flags, buffer, clock
<1>1. CASE Open
  <2>1. /\ clear_buffer_flag' \in BOOLEAN /\ pause_requested' \in BOOLEAN
        /\ cond' \in BOOLEAN /\ ring_buffer' \in BOOLEAN
    BY <1>1, Zenon DEF Open
  <2> QED
    BY <1>1, <2>1 DEF Open
<1>2. CASE Start
  <2>1. abort_flag' \in BOOLEAN /\ thread' \in BOOLEAN
    BY <1>2, Zenon DEF Start
  <2> QED
    BY <1>2, <2>1 DEF Start
<1>3. ASSUME NEW pause \in BOOLEAN, Pause(pause) PROVE Flags'
  <2>1. pause_requested' \in BOOLEAN
    BY <1>3, Zenon DEF Pause
  <2> QED
    BY <1>3, <2>1 DEF Pause
<1>4. CASE ClearBuffer
  <2>1. clear_buffer_flag' \in BOOLEAN
    BY <1>4, Zenon DEF ClearBuffer
  <2> QED
    BY <1>4, <2>1 DEF ClearBuffer
<1>5. CASE Destroy
  <2>1. abort_flag' \in BOOLEAN
    BY <1>5, Zenon DEF Destroy
  <2> QED
    BY <1>5, <2>1 DEF Destroy
<1>6. CASE Join
  <2>1. thread' \in BOOLEAN
    BY <1>6, Zenon DEF Join
  <2> QED
    BY <1>6, <2>1 DEF Join
<1>7. CASE Free
  <2>1. cond' \in BOOLEAN /\ ring_buffer' \in BOOLEAN
    BY <1>7, Zenon DEF Free
  <2> QED
    BY <1>7, <2>1 DEF Free
<1>8. ASSUME NEW n \in 1..MaxFrames, Begin(n) PROVE Flags'
  BY <1>8 DEF Begin
<1>9. CASE End
  BY <1>9 DEF End
<1>10. CASE Return
  <2>1. resets' \in BOOLEAN
    BY <1>10, Zenon DEF Return
  <2> QED
    BY <1>10, <2>1 DEF Return
<1>11. CASE Enter
  <2>1. resets' \in BOOLEAN
    BY <1>11, Zenon DEF Enter, CallBack
  <2> QED
    BY <1>11, <2>1 DEF Enter, CallBack
<1>12. CASE TestAbort
  <2>1. abort_flag' \in BOOLEAN
    BY <1>12, Zenon DEF TestAbort
  <2> QED
    BY <1>12, <2>1 DEF TestAbort
<1>13. CASE Wake
  BY <1>13 DEF Wake
<1>14. CASE TestClear
  <2>1. clear_buffer_flag' \in BOOLEAN /\ resets' \in BOOLEAN
    BY <1>14, Zenon DEF TestClear, CallBack
  <2> QED
    BY <1>14, <2>1 DEF TestClear, CallBack
<1>15. CASE TestPause
  BY <1>15 DEF TestPause
<1>16. CASE Play
  <2>1. resets' \in BOOLEAN
    BY <1>16, Zenon DEF Play, CallBack
  <2> QED
    BY <1>16, <2>1 DEF Play, CallBack
<1>17. CASE Record
  BY <1>17 DEF Record
<1>18. CASE Tick
  BY <1>18 DEF Tick
<1>19. CASE UNCHANGED vars
  BY <1>19 DEF vars
<1> QED
  BY <1>1, <1>2, <1>3, <1>4, <1>5, <1>6, <1>7, <1>8, <1>9, <1>10, <1>11, <1>12, <1>13,
     <1>14, <1>15, <1>16, <1>17, <1>18, <1>19, Zenon
     DEF Next, ThreadStep, CallbackStep, DestroyStep

\* Where the two threads are, and what there is; one step per action.
LEMMA LifetimesStep == StreamInv /\ [Next]_vars => (Places /\ Lifetimes)'
<1> SUFFICES ASSUME StreamInv, [Next]_vars PROVE (Places /\ Lifetimes)'
  OBVIOUS
<1> USE DEF StreamInv, Flags, Places, Lifetimes, control, flags, buffer, clock
<1>1. CASE Open
  BY <1>1 DEF Open
<1>2. CASE Start
  BY <1>2 DEF Start
<1>3. ASSUME NEW pause \in BOOLEAN, Pause(pause) PROVE (Places /\ Lifetimes)'
  BY <1>3 DEF Pause
<1>4. CASE ClearBuffer
  BY <1>4 DEF ClearBuffer
<1>5. CASE Destroy
  BY <1>5 DEF Destroy
<1>6. CASE Join
  BY <1>6 DEF Join
<1>7. CASE Free
  BY <1>7 DEF Free
<1>8. ASSUME NEW n \in 1..MaxFrames, Begin(n) PROVE (Places /\ Lifetimes)'
  BY <1>8 DEF Begin
<1>9. CASE End
  BY <1>9 DEF End
<1>10. CASE Return
  BY <1>10 DEF Return
<1>11. CASE Enter
  BY <1>11 DEF Enter, CallBack
<1>12. CASE TestAbort
  BY <1>12 DEF TestAbort
<1>13. CASE Wake
  BY <1>13 DEF Wake
<1>14. CASE TestClear
  BY <1>14 DEF TestClear, CallBack
<1>15. CASE TestPause
  BY <1>15 DEF TestPause
<1>16. CASE Play
  BY <1>16 DEF Play, CallBack
<1>17. CASE Record
  BY <1>17 DEF Record
<1>18. CASE Tick
  BY <1>18 DEF Tick
<1>19. CASE UNCHANGED vars
  BY <1>19 DEF vars
<1> QED
  BY <1>1, <1>2, <1>3, <1>4, <1>5, <1>6, <1>7, <1>8, <1>9, <1>10, <1>11, <1>12, <1>13,
     <1>14, <1>15, <1>16, <1>17, <1>18, <1>19, Zenon
     DEF Next, ThreadStep, CallbackStep, DestroyStep

\* The clock; one step per action.
LEMMA ClockStep == StreamInv /\ [Next]_vars => Clock'
<1> SUFFICES ASSUME StreamInv, [Next]_vars PROVE Clock'
  OBVIOUS
<1> USE SizesAssumption DEF StreamInv, Flags, Places, Clock, Least, control, flags, buffer, clock
<1>1. CASE Open
  BY <1>1 DEF Open
<1>2. CASE Start
  BY <1>2 DEF Start
<1>3. ASSUME NEW pause \in BOOLEAN, Pause(pause) PROVE Clock'
  BY <1>3 DEF Pause
<1>4. CASE ClearBuffer
  BY <1>4 DEF ClearBuffer
<1>5. CASE Destroy
  BY <1>5 DEF Destroy
<1>6. CASE Join
  BY <1>6 DEF Join
<1>7. CASE Free
  BY <1>7 DEF Free
<1>8. ASSUME NEW n \in 1..MaxFrames, Begin(n) PROVE Clock'
  BY <1>8 DEF Begin
<1>9. CASE End
  BY <1>9 DEF End
<1>10. CASE Return
  BY <1>10 DEF Return
<1>11. CASE Enter
  BY <1>11 DEF Enter, CallBack
<1>12. CASE TestAbort
  BY <1>12 DEF TestAbort
<1>13. CASE Wake
  BY <1>13 DEF Wake
<1>14. CASE TestClear
  BY <1>14 DEF TestClear, CallBack
<1>15. CASE TestPause
  BY <1>15 DEF TestPause
<1>16. CASE Play
  <2>1. CASE elapsed - consumed > FillFrames
    BY <1>16, <2>1, BufferSizes DEF Play, CallBack
  <2>2. CASE ~(elapsed - consumed > FillFrames)
    <3>1. /\ Least(elapsed - consumed, FillFrames) <= elapsed - consumed
          /\ Least(elapsed - consumed, FillFrames) \in Int
      <4>1. elapsed - consumed \in Int /\ FillFrames \in Int
        BY BufferSizes
      <4> QED
        BY <4>1, LeastOfTwo, Zenon
    <3>2. /\ consumed' = consumed + Least(elapsed - consumed, FillFrames)
          /\ tpc' \in {"callback", "test"} /\ UNCHANGED <<elapsed, since>>
      BY <1>16, <2>2, Zenon DEF Play
    <3> HIDE DEF Least
    <3> QED
      BY <3>1, <3>2
  <2> QED
    BY <2>1, <2>2
<1>17. CASE Record
  BY <1>17, BufferSizes DEF Record
<1>18. CASE Tick
  BY <1>18 DEF Tick
<1>19. CASE UNCHANGED vars
  BY <1>19 DEF vars
<1> QED
  BY <1>1, <1>2, <1>3, <1>4, <1>5, <1>6, <1>7, <1>8, <1>9, <1>10, <1>11, <1>12, <1>13,
     <1>14, <1>15, <1>16, <1>17, <1>18, <1>19, Zenon
     DEF Next, ThreadStep, CallbackStep, DestroyStep

\* The buffer; one step per action that touches it.
LEMMA BufferKept ==
  ASSUME StreamInv, UNCHANGED <<dir, buffer>>, tpc' = "callback" <=> tpc = "callback"
  PROVE  Buffer'
BY Zenon DEF StreamInv, Buffer, buffer

LEMMA BufferStep == StreamInv /\ [Next]_vars => Buffer'
<1> SUFFICES ASSUME StreamInv, [Next]_vars PROVE Buffer'
  OBVIOUS
<1>1. /\ fill_bytes \in 0..CapacityBytes /\ fill_bytes % BytesPerFrame = 0
      /\ frames_left \in 0..MaxFrames /\ frame_count \in 0..MaxFrames
      /\ (tpc # "callback" => frame_count = 0)
      /\ elapsed - consumed \in Nat /\ fill_bytes \in Nat
      /\ CapacityBytes \in Nat /\ BytesPerFrame \in Nat \ {0}
  BY SizesAssumption, SMT DEF StreamInv, Buffer, Clock
<1>2. /\ FillFrames \in 0..MaxFrames /\ FreeFrames \in 0..MaxFrames /\ MaxFrames \in Nat
      /\ FillFrames * BytesPerFrame <= fill_bytes
      /\ FreeFrames * BytesPerFrame <= CapacityBytes - fill_bytes
      /\ MaxFrames * BytesPerFrame <= CapacityBytes
  BY BufferSizes, Zenon
<1>3. /\ FillFrames \in Int /\ FreeFrames \in Int /\ frames_left \in Int /\ frame_count \in Int
      /\ FillFrames \in Nat /\ FreeFrames \in Nat /\ frame_count \in Nat
      /\ 0 \in 0..MaxFrames
  BY <1>1, <1>2, SMT
<1>4. CASE Open \/ Start \/ ClearBuffer \/ Destroy \/ Join \/ Free
           \/ \E pause \in BOOLEAN : Pause(pause)
  BY <1>4, BufferKept, Zenon DEF Open, Start, ClearBuffer, Destroy, Join, Free, Pause, control,
     StreamInv, Lifetimes
<1>5. CASE TestAbort \/ Wake \/ TestPause \/ Tick
  BY <1>5, BufferKept, Zenon DEF TestAbort, Wake, TestPause, Tick, control
<1>6. ASSUME NEW n \in 1..MaxFrames, Begin(n) PROVE Buffer'
  <2>1. /\ UNCHANGED <<dir, fill_bytes, frames_left, tpc>> /\ tpc = "callback"
        /\ n <= frames_left /\ frame_count' = n
    BY <1>6, Zenon DEF Begin, control
  <2>2. n \in 0..MaxFrames
    BY <1>2, SMT
  <2> QED
    BY <2>1, <2>2, Zenon DEF StreamInv, Buffer
<1>7. CASE End
  <2>1. /\ UNCHANGED <<dir, tpc>> /\ tpc = "callback" /\ frame_count' = 0
        /\ frames_left' = frames_left - frame_count
        /\ fill_bytes' = IF dir = "out" THEN fill_bytes + frame_count * BytesPerFrame
                                        ELSE fill_bytes - frame_count * BytesPerFrame
    BY <1>7, Zenon DEF End, control
  <2>2. /\ frame_count <= frames_left /\ dir \in {"out", "in"}
        /\ (dir = "out" => fill_bytes + frames_left * BytesPerFrame <= CapacityBytes)
        /\ (dir = "in" => frames_left * BytesPerFrame <= fill_bytes)
    BY <2>1, Zenon DEF StreamInv, Buffer, Places
  <2>3. /\ frame_count * BytesPerFrame \in Int /\ frames_left * BytesPerFrame \in Int
        /\ frame_count * BytesPerFrame <= frames_left * BytesPerFrame
        /\ (frames_left - frame_count) * BytesPerFrame
             = frames_left * BytesPerFrame - frame_count * BytesPerFrame
        /\ 0 <= frame_count * BytesPerFrame
    BY <1>3, <2>2, MoreFrames, SizesAssumption, SMT
  <2>4. frames_left' \in 0..MaxFrames
    BY <1>1, <1>2, <2>1, <2>2, SMT
  <2>5. CASE dir = "out"
    <3>1. fill_bytes' = fill_bytes + frame_count * BytesPerFrame
      BY <2>1, <2>5, Zenon
    <3>2. fill_bytes' % BytesPerFrame = 0
      BY <1>1, <1>3, <3>1, FramesMoved, Zenon
    <3>3. fill_bytes' \in 0..CapacityBytes
      BY <1>1, <2>2, <2>3, <2>5, <3>1, SMT
    <3>4. fill_bytes' + frames_left' * BytesPerFrame <= CapacityBytes
      BY <1>1, <2>1, <2>2, <2>3, <2>5, <3>1, SMT
    <3>5. 0 <= frames_left'
      BY <1>2, <2>4, SMT
    <3> QED
      BY <1>3, <2>1, <2>4, <2>5, <3>2, <3>3, <3>4, <3>5, Zenon DEF Buffer
  <2>6. CASE dir = "in"
    <3>1. fill_bytes' = fill_bytes - frame_count * BytesPerFrame
      BY <2>1, <2>6, Zenon
    <3>2. frame_count * BytesPerFrame <= fill_bytes
      BY <1>1, <2>2, <2>3, <2>6, SMT
    <3>3. fill_bytes' % BytesPerFrame = 0
      BY <1>1, <1>3, <3>1, <3>2, FramesMoved, Zenon
    <3>4. fill_bytes' \in 0..CapacityBytes
      BY <1>1, <2>3, <3>1, <3>2, SMT
    <3>5. frames_left' * BytesPerFrame <= fill_bytes'
      BY <1>1, <2>1, <2>2, <2>3, <2>6, <3>1, SMT
    <3>6. 0 <= frames_left'
      BY <1>2, <2>4, SMT
    <3> QED
      BY <1>3, <2>1, <2>4, <2>6, <3>3, <3>4, <3>5, <3>6, Zenon DEF Buffer
  <2> QED
    BY <2>2, <2>5, <2>6, Zenon
<1>8. CASE Return
  BY <1>8, Zenon DEF Return, control, buffer, StreamInv, Buffer
<1>9. CASE Enter
  <2>1. /\ UNCHANGED <<dir, fill_bytes, frame_count>> /\ tpc = "entry"
        /\ \/ dir = "out" /\ CallBack(FreeFrames, TRUE)
           \/ dir = "in" /\ tpc' = "test" /\ UNCHANGED frames_left
    BY <1>9, Zenon DEF Enter, control, StreamInv, Places
  <2>2. frames_left' \in 0..MaxFrames
    BY <1>1, <1>2, <2>1, Zenon DEF CallBack
  <2>3. tpc' = "callback" => dir = "out" /\ frames_left' = FreeFrames
    BY <2>1, Zenon DEF CallBack
  <2>4. tpc' = "callback" => /\ 0 <= frames_left'
                             /\ fill_bytes + frames_left' * BytesPerFrame <= CapacityBytes
    <3>1. fill_bytes + FreeFrames * BytesPerFrame <= CapacityBytes /\ 0 <= FreeFrames
      <4>1. FreeFrames * BytesPerFrame \in Int
        BY <1>3, MoreFrames, Zenon
      <4> QED
        BY <1>1, <1>2, <1>3, <4>1, SMT
    <3> QED
      BY <2>3, <3>1, Zenon
  <2> QED
    BY <1>1, <2>1, <2>2, <2>3, <2>4, Zenon DEF Buffer
<1>10. CASE TestClear
  <2>1. CASE clear_buffer_flag
    BY <1>10, <2>1, BufferKept, Zenon DEF TestClear, control, buffer
  <2>2. CASE ~clear_buffer_flag
    <3>1. /\ UNCHANGED <<dir, frame_count>> /\ tpc = "clear" /\ fill_bytes' = 0
          /\ frames_left' = MaxFrames /\ dir = "out"
      BY <1>10, <2>2, Zenon DEF TestClear, CallBack, control, StreamInv, Lifetimes
    <3>2. /\ 0 % BytesPerFrame = 0 /\ 0 \in 0..CapacityBytes /\ MaxFrames \in 0..MaxFrames
          /\ 0 + MaxFrames * BytesPerFrame <= CapacityBytes /\ 0 <= MaxFrames
      BY <1>1, <1>2, SizesAssumption, SMT
    <3> QED
      BY <1>1, <3>1, <3>2, Zenon DEF Buffer
  <2> QED
    BY <2>1, <2>2, Zenon
<1>11. CASE Play
  <2> DEFINE read_count == Least(elapsed - consumed, FillFrames)
  <2>1. /\ UNCHANGED <<dir, frame_count>> /\ dir = "out" /\ tpc = "consume"
        /\ fill_bytes' = fill_bytes - read_count * BytesPerFrame
        /\ frames_left' \in {FreeFrames, frames_left}
        /\ tpc' = "callback" => frames_left' = FreeFrames
    BY <1>11, Zenon DEF Play, CallBack, control
  <2>2. read_count \in Nat /\ read_count <= FillFrames
    BY <1>1, <1>3, SMT DEF Least
  <2> HIDE DEF read_count
  <2>3. /\ read_count * BytesPerFrame \in Int /\ 0 <= read_count * BytesPerFrame
        /\ read_count * BytesPerFrame <= fill_bytes
    <3>1. /\ read_count * BytesPerFrame \in Int /\ FillFrames * BytesPerFrame \in Int
          /\ read_count * BytesPerFrame <= FillFrames * BytesPerFrame
          /\ 0 <= read_count * BytesPerFrame
      <4>1. read_count \in Int
        BY <2>2, SMT
      <4> QED
        BY <1>3, <2>2, <4>1, MoreFrames, Zenon
    <3> QED
      BY <1>1, <1>2, <3>1, SMT
  <2>4. fill_bytes' % BytesPerFrame = 0
    BY <1>1, <2>1, <2>2, <2>3, FramesMoved, Zenon
  <2>5. /\ fill_bytes' \in 0..CapacityBytes
        /\ fill_bytes' + FreeFrames * BytesPerFrame <= CapacityBytes
        /\ 0 <= FreeFrames
    <3>1. FreeFrames * BytesPerFrame \in Int
      BY <1>3, MoreFrames, Zenon
    <3> QED
      BY <1>1, <1>2, <1>3, <2>1, <2>3, <3>1, SMT
  <2>6. frames_left' \in 0..MaxFrames
    BY <1>1, <1>2, <2>1, Zenon
  <2> QED
    BY <1>1, <2>1, <2>4, <2>5, <2>6, Zenon DEF Buffer
<1>12. CASE Record
  <2> DEFINE write_count == Least(elapsed - consumed, FreeFrames)
  <2>1. /\ UNCHANGED <<dir, frame_count>> /\ dir = "in" /\ tpc = "consume"
        /\ fill_bytes' = fill_bytes + write_count * BytesPerFrame
        /\ frames_left' \in {FillFrames, frames_left}
        /\ tpc' = "callback" => frames_left' = FillFrames
    BY <1>12, Zenon DEF Record, control
  <2>2. write_count \in Nat /\ write_count <= FreeFrames
    BY <1>1, <1>3, SMT DEF Least
  <2> HIDE DEF write_count
  <2>3. /\ write_count * BytesPerFrame \in Int /\ 0 <= write_count * BytesPerFrame
        /\ write_count * BytesPerFrame <= CapacityBytes - fill_bytes
    <3>1. /\ write_count * BytesPerFrame \in Int /\ FreeFrames * BytesPerFrame \in Int
          /\ write_count * BytesPerFrame <= FreeFrames * BytesPerFrame
          /\ 0 <= write_count * BytesPerFrame
      <4>1. write_count \in Int
        BY <2>2, SMT
      <4> QED
        BY <1>3, <2>2, <4>1, MoreFrames, Zenon
    <3> QED
      BY <1>1, <1>2, <3>1, SMT
  <2>4. fill_bytes' % BytesPerFrame = 0
    BY <1>1, <2>1, <2>2, FramesMoved, Zenon
  <2>5. /\ fill_bytes' \in 0..CapacityBytes
        /\ FillFrames * BytesPerFrame <= fill_bytes'
        /\ 0 <= FillFrames
    <3>1. FillFrames * BytesPerFrame \in Int
      BY <1>3, MoreFrames, Zenon
    <3> QED
      BY <1>1, <1>2, <1>3, <2>1, <2>3, <3>1, SMT
  <2>6. frames_left' \in 0..MaxFrames
    BY <1>1, <1>2, <2>1, Zenon
  <2> QED
    BY <1>1, <2>1, <2>4, <2>5, <2>6, Zenon DEF Buffer
<1>13. CASE UNCHANGED vars
  BY <1>13, BufferKept, Zenon DEF vars, control
<1> QED
  BY <1>4, <1>5, <1>6, <1>7, <1>8, <1>9, <1>10, <1>11, <1>12, <1>13, Zenon
     DEF Next, ThreadStep, CallbackStep, DestroyStep

LEMMA StreamInvariant == Spec => []StreamInv
<1>1. StreamInv /\ [Next]_vars => StreamInv'
  BY FlagsStep, LifetimesStep, BufferStep, ClockStep, Zenon DEF StreamInv
<1> QED
  BY <1>1, InitHolds, PTL DEF Spec

-----------------------------------------------------------------------------
\* Whatever the callback has been allowed is there, for every capacity and size of
\* a frame, the capacity a multiple of it or not (dummy.c:21-22, 53-74, 101-121).
THEOREM AllowancesAreReal == Spec => []AllowanceIsReal
<1>1. StreamInv => AllowanceIsReal
  <2> SUFFICES ASSUME StreamInv PROVE AllowanceIsReal
    OBVIOUS
  <2>1. TypeOK
    BY Typing, Zenon DEF StreamInv
  <2> QED
    BY <2>1, Zenon DEF StreamInv, Places, Buffer, AllowanceIsReal
<1> QED
  BY <1>1, StreamInvariant, PTL

\* No stream plays or records ahead of the clock, so that frames_to_kill is never
\* negative (dummy.c:60, 108).
THEOREM ClockIsNeverPassed == Spec => []NeverAheadOfTime
<1>1. StreamInv => NeverAheadOfTime
  BY Zenon DEF StreamInv, Clock, NeverAheadOfTime
<1> QED
  BY <1>1, StreamInvariant, PTL

\* The thread never runs on a stream whose parts are gone (dummy.c:160-173).
THEOREM StreamOutlivesThread == Spec => []ThreadOwnsStream
<1>1. StreamInv => ThreadOwnsStream
  BY Zenon DEF StreamInv, Places, Lifetimes, ThreadOwnsStream, Running
<1> QED
  BY <1>1, StreamInvariant, PTL
=============================================================================
