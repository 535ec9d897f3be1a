---------------------------- MODULE DummyStream ----------------------------
(***************************************************************************)
(* src/dummy.c: one stream of the dummy backend, playback ("out") or       *)
(* capture ("in"), from open to destroy.                                   *)
(*                                                                         *)
(* The stream's thread owns the ring buffer: it plays (or records) against *)
(* the clock and runs the client's callback, which writes (or reads) with  *)
(* begin/end pairs.  Any other thread may pause the stream, ask for its    *)
(* buffer to be cleared or destroy it; these calls reach the stream's      *)
(* thread only through atomic flags, each access to which is a step here.  *)
(* The thread's wait is timed, so a signal of its condition variable only  *)
(* shortens it and leaves nothing to model.                                *)
(***************************************************************************)
EXTENDS Integers

CONSTANTS CapacityBytes,   \* of the ring buffer, a multiple of the page size
          BytesPerFrame,
          MaxTime          \* bound: frames of time between two resets of the clock

ASSUME SizesAssumption ==
  /\ CapacityBytes \in Nat
  /\ BytesPerFrame \in Nat \ {0}
  /\ BytesPerFrame <= CapacityBytes
  /\ MaxTime \in Nat

VARIABLES dir,               \* "out" or "in"
          api,               \* how far the client's calls have come
          thread,            \* osd->thread is set
          cond, ring_buffer, \* osd->cond and the ring buffer's memory exist
          abort_flag, clear_buffer_flag,  \* atomic flags: TRUE when set
          pause_requested,
          fill_bytes,        \* what is in the ring buffer
          frames_left,       \* what the callback may still transfer
          frame_count,       \* the transfer begun and not ended, 0 if none
          tpc,               \* where the stream's thread is
          resets,            \* the clock restarts when the callback returns
          elapsed,           \* frames of time since start_time
          since,             \* frames of time since the loop's `now`
          consumed           \* frames_consumed

control == <<dir, api, thread, cond, ring_buffer>>
flags == <<abort_flag, clear_buffer_flag, pause_requested>>
buffer == <<fill_bytes, frames_left, frame_count>>
clock == <<elapsed, since, consumed>>
vars == <<control, flags, buffer, clock, tpc, resets>>

Least(a, b) == IF a < b THEN a ELSE b
FillFrames == fill_bytes \div BytesPerFrame
FreeFrames == (CapacityBytes - fill_bytes) \div BytesPerFrame
MaxFrames == CapacityBytes \div BytesPerFrame

\* The thread has been started and may touch its stream.
Running == tpc \notin {"none", "done"}

Init ==
  /\ dir \in {"out", "in"}
  /\ api = "created"
  /\ thread = FALSE /\ cond = FALSE /\ ring_buffer = FALSE
  /\ abort_flag = FALSE /\ clear_buffer_flag = FALSE /\ pause_requested = FALSE
  /\ fill_bytes = 0 /\ frames_left = 0 /\ frame_count = 0
  /\ tpc = "none" /\ resets = FALSE
  /\ elapsed = 0 /\ since = 0 /\ consumed = 0

-----------------------------------------------------------------------------
(* The client's calls.                                                     *)

\* outstream_open_dummy, instream_open_dummy.  When the ring buffer or the
\* condition variable cannot be made, what was made is destroyed again.
Open ==
  /\ api = "created"
  /\ clear_buffer_flag' = (dir = "out")
  /\ pause_requested' = FALSE
  /\ \/ api' = "open" /\ cond' = TRUE /\ ring_buffer' = TRUE
     \/ api' = "failed" /\ UNCHANGED <<cond, ring_buffer>>
  /\ UNCHANGED <<dir, thread, abort_flag, buffer, clock, tpc, resets>>

\* outstream_start_dummy, instream_start_dummy.  The flag is set even when no
\* thread can be created.
Start ==
  /\ api = "open"
  /\ abort_flag' = TRUE
  /\ \/ api' = "started" /\ thread' = TRUE /\ tpc' = "entry"
     \/ UNCHANGED <<api, thread, tpc>>
  /\ UNCHANGED <<dir, cond, ring_buffer, clear_buffer_flag, pause_requested, buffer, clock, resets>>

Pause(pause) ==
  /\ api \in {"open", "started"}
  /\ pause_requested' = pause
  /\ UNCHANGED <<control, abort_flag, clear_buffer_flag, buffer, clock, tpc, resets>>

ClearBuffer ==
  /\ api \in {"open", "started"}
  /\ dir = "out"
  /\ clear_buffer_flag' = FALSE
  /\ UNCHANGED <<control, abort_flag, pause_requested, buffer, clock, tpc, resets>>

\* Mutant: frees without waiting for the thread.
Destroy_without_join ==
  /\ api \in {"created", "open", "failed", "started"}
  /\ abort_flag' = IF thread THEN FALSE ELSE abort_flag
  /\ api' = "freeing"
  /\ UNCHANGED <<dir, thread, cond, ring_buffer, clear_buffer_flag, pause_requested,
                 buffer, clock, tpc, resets>>

\* The beginning of outstream_destroy_dummy and instream_destroy_dummy.
Destroy ==
  /\ api \in {"created", "open", "failed", "started"}
  /\ abort_flag' = IF thread THEN FALSE ELSE abort_flag
  /\ api' = IF thread THEN "joining" ELSE "freeing"
  /\ UNCHANGED <<dir, thread, cond, ring_buffer, clear_buffer_flag, pause_requested,
                 buffer, clock, tpc, resets>>

\* soundio_os_thread_destroy returns once the thread has.
Join ==
  /\ api = "joining"
  /\ tpc = "done"
  /\ thread' = FALSE
  /\ api' = "freeing"
  /\ UNCHANGED <<dir, cond, ring_buffer, flags, buffer, clock, tpc, resets>>

\* The rest of the destructor; both callees accept what was never made.
Free ==
  /\ api = "freeing"
  /\ cond' = FALSE
  /\ ring_buffer' = FALSE
  /\ api' = "destroyed"
  /\ UNCHANGED <<dir, thread, flags, buffer, clock, tpc, resets>>

-----------------------------------------------------------------------------
(* The client's callback, in the stream's thread.                          *)

\* begin_write_dummy, begin_read_dummy.  A write of too many frames is refused
\* and changes nothing; a second begin replaces the first.
Begin(n) ==
  /\ tpc = "callback"
  /\ n <= frames_left
  /\ frame_count' = n
  /\ UNCHANGED <<control, flags, fill_bytes, frames_left, clock, tpc, resets>>

\* Mutant: what was transferred is not taken off the callback's allowance.
End_keeps_frames_left ==
  /\ tpc = "callback"
  /\ frame_count > 0
  /\ fill_bytes' = IF dir = "out" THEN fill_bytes + frame_count * BytesPerFrame
                                  ELSE fill_bytes - frame_count * BytesPerFrame
  /\ frame_count' = 0
  /\ UNCHANGED <<control, flags, frames_left, clock, tpc, resets>>

\* end_write_dummy, end_read_dummy: the ring buffer's offset advances.  A client
\* ends what it has begun, once.
End ==
  /\ tpc = "callback"
  /\ frame_count > 0
  /\ fill_bytes' = IF dir = "out" THEN fill_bytes + frame_count * BytesPerFrame
                                  ELSE fill_bytes - frame_count * BytesPerFrame
  /\ frames_left' = frames_left - frame_count
  /\ frame_count' = 0
  /\ UNCHANGED <<control, flags, clock, tpc, resets>>

\* The callback returns, having ended what it began, and the loop goes on.
Return ==
  /\ tpc = "callback"
  /\ frame_count = 0
  /\ elapsed' = IF resets THEN 0 ELSE elapsed
  /\ consumed' = IF resets THEN 0 ELSE consumed
  /\ resets' = FALSE
  /\ tpc' = "test"
  /\ UNCHANGED <<control, flags, buffer, since>>

\* write_callback(outstream, 0, frames) if there is anything to write, and
\* whether the clock restarts after it.
CallBack(frames, restart) ==
  /\ frames_left' = frames
  /\ IF frames > 0
     THEN /\ tpc' = "callback"
          /\ resets' = restart
          /\ UNCHANGED <<elapsed, consumed>>
     ELSE /\ tpc' = "test"
          /\ elapsed' = IF restart THEN 0 ELSE elapsed
          /\ consumed' = IF restart THEN 0 ELSE consumed
          /\ UNCHANGED resets

-----------------------------------------------------------------------------
(* The stream's thread.                                                    *)

\* Before the loop: playback fills its buffer first.
Enter ==
  /\ tpc = "entry"
  /\ IF dir = "out"
     THEN CallBack(FreeFrames, TRUE)
     ELSE /\ tpc' = "test" /\ elapsed' = 0 /\ consumed' = 0
          /\ UNCHANGED <<frames_left, resets>>
  /\ UNCHANGED <<control, flags, fill_bytes, frame_count, since>>

\* while (SOUNDIO_ATOMIC_FLAG_TEST_AND_SET(abort_flag)), then the time is noted.
TestAbort ==
  /\ tpc = "test"
  /\ abort_flag' = TRUE
  /\ tpc' = IF abort_flag THEN "wait" ELSE "done"
  /\ since' = 0
  /\ UNCHANGED <<control, clear_buffer_flag, pause_requested, buffer, elapsed, consumed, resets>>

\* soundio_os_cond_timed_wait returns: the period is over, or a signal came.
Wake ==
  /\ tpc = "wait"
  /\ tpc' = IF dir = "out" THEN "clear" ELSE "pause"
  /\ UNCHANGED <<control, flags, buffer, clock, resets>>

\* Mutant: the request is noticed and not acknowledged.
TestClear_never ==
  /\ tpc = "clear"
  /\ tpc' = "pause"
  /\ UNCHANGED <<control, flags, buffer, clock, resets>>

\* The clear request, if there is one, empties the buffer and fills it anew.
TestClear ==
  /\ tpc = "clear"
  /\ clear_buffer_flag' = TRUE
  /\ IF clear_buffer_flag
     THEN tpc' = "pause" /\ UNCHANGED <<fill_bytes, frames_left, elapsed, consumed, resets>>
     ELSE fill_bytes' = 0 /\ CallBack(MaxFrames, TRUE)
  /\ UNCHANGED <<control, abort_flag, pause_requested, frame_count, since>>

\* Mutant: the clock restarts, the frames it is compared with do not.
TestPause_keeps_consumed ==
  /\ tpc = "pause"
  /\ tpc' = IF pause_requested THEN "test" ELSE "consume"
  /\ elapsed' = IF pause_requested THEN since ELSE elapsed
  /\ UNCHANGED <<control, flags, buffer, since, consumed, resets>>

\* A paused stream starts its clock again, from before the wait.
TestPause ==
  /\ tpc = "pause"
  /\ tpc' = IF pause_requested THEN "test" ELSE "consume"
  /\ elapsed' = IF pause_requested THEN since ELSE elapsed
  /\ consumed' = IF pause_requested THEN 0 ELSE consumed
  /\ UNCHANGED <<control, flags, buffer, since, resets>>

\* The rest of playback_thread_run's loop: what should have been played by now
\* leaves the buffer; if there was not enough of it, that is an underflow and
\* the clock starts again after the callback.
Play ==
  LET frames_to_kill == elapsed - consumed
      read_count == Least(frames_to_kill, FillFrames)
  IN  /\ dir = "out"
      /\ tpc = "consume"
      /\ fill_bytes' = fill_bytes - read_count * BytesPerFrame
      /\ IF frames_to_kill > FillFrames
         THEN CallBack(FreeFrames, TRUE)
         ELSE /\ frames_left' = IF FreeFrames > 0 THEN FreeFrames ELSE frames_left
              /\ tpc' = IF FreeFrames > 0 THEN "callback" ELSE "test"
              /\ consumed' = consumed + read_count
              /\ resets' = FALSE
              /\ UNCHANGED elapsed
      /\ UNCHANGED <<control, flags, frame_count, since>>

\* The rest of capture_thread_run's loop: what should have been recorded by now
\* enters the buffer; if it does not fit, that is an overflow and the clock
\* starts again.  The callback gets what was there before.
Record ==
  LET frames_to_kill == elapsed - consumed
      write_count == Least(frames_to_kill, FreeFrames)
      overflow == frames_to_kill > FreeFrames
  IN  /\ dir = "in"
      /\ tpc = "consume"
      /\ fill_bytes' = fill_bytes + write_count * BytesPerFrame
      /\ elapsed' = IF overflow THEN 0 ELSE elapsed
      /\ consumed' = IF overflow THEN 0 ELSE consumed + write_count
      /\ frames_left' = IF FillFrames > 0 THEN FillFrames ELSE frames_left
      /\ tpc' = IF FillFrames > 0 THEN "callback" ELSE "test"
      /\ UNCHANGED <<control, flags, frame_count, since, resets>>

\* Time passes for a stream that runs.
Tick ==
  /\ Running
  /\ elapsed < MaxTime
  /\ elapsed' = elapsed + 1
  /\ since' = IF tpc \in {"wait", "clear", "pause"} THEN since + 1 ELSE since
  /\ UNCHANGED <<control, flags, buffer, consumed, tpc, resets>>

-----------------------------------------------------------------------------
ThreadStep ==
  \/ Enter \/ TestAbort \/ Wake \/ TestClear \/ TestPause \/ Play \/ Record

CallbackStep == Return \/ End \/ \E n \in 1..MaxFrames : Begin(n)

DestroyStep == Join \/ Free

Next ==
  \/ Open \/ Start \/ ClearBuffer \/ Destroy
  \/ \E pause \in BOOLEAN : Pause(pause)
  \/ ThreadStep \/ CallbackStep \/ DestroyStep
  \/ Tick

\* The thread runs, the client's callback ends what it began and returns, and
\* destroy goes on once it can.  Nothing obliges the client to make a call.
Fairness ==
  /\ WF_vars(ThreadStep)
  /\ WF_vars(Return)
  /\ WF_vars(End)
  /\ WF_vars(DestroyStep)

Spec == Init /\ [][Next]_vars /\ Fairness

-----------------------------------------------------------------------------
TypeOK ==
  /\ dir \in {"out", "in"}
  /\ api \in {"created", "open", "failed", "started", "joining", "freeing", "destroyed"}
  /\ {thread, cond, ring_buffer, abort_flag, clear_buffer_flag, pause_requested, resets}
       \subseteq BOOLEAN
  /\ fill_bytes \in 0..CapacityBytes /\ fill_bytes % BytesPerFrame = 0
  /\ frames_left \in 0..MaxFrames /\ frame_count \in 0..MaxFrames
  /\ tpc \in {"none", "entry", "test", "wait", "clear", "pause", "consume", "callback", "done"}
  /\ elapsed \in 0..MaxTime /\ since \in 0..MaxTime /\ consumed \in Int

\* Whatever the callback has been allowed is there (dummy.c:21-22, 53-74,
\* 101-121): the room, for a writer, although it was computed before frames
\* were played; the frames, for a reader, although more were recorded since.
AllowanceIsReal ==
  /\ TypeOK
  /\ tpc = "callback" =>
       /\ frame_count <= frames_left
       /\ IF dir = "out"
          THEN fill_bytes + frames_left * BytesPerFrame <= CapacityBytes
          ELSE frames_left * BytesPerFrame <= fill_bytes

\* A stream never plays or records ahead of the clock (dummy.c:60, 108), so
\* frames_to_kill is never negative and no offset moves backwards.
NeverAheadOfTime == Running => consumed <= elapsed

\* The thread never runs on a stream whose parts are gone (dummy.c:160-173).
ThreadOwnsStream == Running => ring_buffer /\ cond /\ api \in {"started", "joining"}

\* A clear request of a running stream is honoured (dummy.c:35), paused or not,
\* unless the stream is destroyed first.
ClearIsHonoured ==
  (api = "started" /\ dir = "out" /\ ~clear_buffer_flag)
    ~> (clear_buffer_flag \/ api # "started")
=============================================================================
