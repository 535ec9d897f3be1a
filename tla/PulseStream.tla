---------------------------- MODULE PulseStream ----------------------------
(***************************************************************************)
(* src/pulseaudio.c: a playback or recording stream.  The client's thread  *)
(* and PulseAudio's main loop thread share the main loop's lock, a         *)
(* recursive mutex: the main loop holds it while it dispatches, and so in  *)
(* every callback; the client's calls take it, and waiting for a signal    *)
(* gives up one hold of it.  A step goes up to where a thread gives up or  *)
(* waits for the lock, or hands over to the client's code.                 *)
(*                                                                         *)
(* libpulse and the server are external: the stream's state, operations    *)
(* that complete or are cancelled, and the fragments recorded, some of     *)
(* which are holes.  libpulse changes state only in the main loop thread.  *)
(***************************************************************************)
EXTENDS Integers, Sequences

CONSTANTS MaxFragment,  \* frames in a recorded fragment
          MaxFrames,    \* bound: frames recorded, or room for frames to play
          MaxDepth      \* bound: holds of the lock by one thread

ASSUME SizeAssumption ==
  /\ MaxFragment \in Nat \ {0} /\ MaxFrames \in Nat \ {0}
  /\ MaxDepth \in Nat \ {0, 1}

VARIABLES aim,              \* "output" or "input"
          phase,            \* what the client has done with the stream
          cpc, mpc,         \* where the client's thread and the main loop are
          owner, depth,     \* who holds the lock, how often
          signalled,        \* the main loop was signalled since the client waits
          state, corked,    \* pa_stream_get_state, pa_stream_is_corked
          stream_ready,
          op,               \* the state of the timing operation
          registered,       \* is the write or read callback set
          clear_buffer_flag,
          leaked,           \* a pause was refused and kept, or gave up, the lock
          frame_count_max, requested, granted, \* as the client's callback sees them
          fragments,        \* recorded and not dropped
          peek_buf,         \* it is not NULL
          peek_buf_index, peek_buf_frames_left, read_frame_count,
          recorded, delivered, dropped \* frames, so far

lock == <<owner, depth>>
stream == <<state, corked, stream_ready, op, registered>>
reading == <<peek_buf, peek_buf_index, peek_buf_frames_left, read_frame_count, delivered, dropped>>
server == <<fragments, recorded>>
transfer == <<frame_count_max, requested, granted>>
vars == <<aim, phase, cpc, mpc, lock, signalled, stream, clear_buffer_flag, leaked,
          transfer, server, reading>>

Output == aim = "output"
Input == aim = "input"
ClientWaits == cpc \in {"wait_ready", "wait_op"}
InCallback == mpc \in {"write", "read", "error"}

Init ==
  /\ aim \in {"output", "input"} /\ phase = "created"
  /\ cpc = "idle" /\ mpc = "idle"
  /\ owner = "none" /\ depth = 0 /\ signalled = FALSE
  /\ state = "none" /\ corked = FALSE /\ stream_ready = FALSE /\ op = "none"
  /\ registered = FALSE /\ clear_buffer_flag = FALSE /\ leaked = FALSE
  /\ frame_count_max = 0 /\ requested = 0 /\ granted = 0
  /\ fragments = <<>> /\ peek_buf = FALSE
  /\ peek_buf_index = 0 /\ peek_buf_frames_left = 0 /\ read_frame_count = 0
  /\ recorded = 0 /\ delivered = 0 /\ dropped = 0

-----------------------------------------------------------------------------
(* The lock of the main loop. *)

CanLock(t) == owner \in {"none", t}
LockAs(t, n) == owner' = (IF n = 0 THEN "none" ELSE t) /\ depth' = n

\* The client's thread, between locking and unlocking, ends with depth d + k
\* when it began with d: k = 0 after a call that unlocks.
ClientLeaves(k) == CanLock("client") /\ LockAs("client", depth + k)

\* pa_threaded_mainloop_wait gives up one hold.
ClientWaitsAt(l) == cpc' = l /\ signalled' = FALSE

\* pa_threaded_mainloop_signal
Signal == signalled' = (signalled \/ ClientWaits)

-----------------------------------------------------------------------------
(* The client's thread. *)

data == <<clear_buffer_flag, transfer, server, reading>>

\* outstream_open_pa: wait until the server has made the stream.  Too many
\* channels, or no memory, leave no stream; a refused connection leaves one.
OpenOutput ==
  /\ phase = "created" /\ cpc = "idle" /\ Output
  /\ stream_ready' = FALSE /\ clear_buffer_flag' = TRUE
  /\ ClientLeaves(0)
  /\ \/ phase' = "failed" /\ UNCHANGED <<cpc, signalled, state, corked>>
     \/ phase' = "failed" /\ state' = "unconnected" /\ UNCHANGED <<cpc, signalled, corked>>
     \/ /\ state' = "creating" /\ corked' = TRUE   \* PA_STREAM_START_CORKED
        /\ ClientWaitsAt("wait_ready") /\ UNCHANGED phase
  /\ UNCHANGED <<aim, mpc, op, registered, leaked, transfer, server, reading>>

\* instream_open_pa: the stream is made, and connected by start.
OpenInput ==
  /\ phase = "created" /\ cpc = "idle" /\ Input
  /\ stream_ready' = FALSE /\ ClientLeaves(0)
  /\ \/ phase' = "failed" /\ UNCHANGED <<state, registered>>
     \/ phase' = "open" /\ state' = "unconnected" /\ registered' = TRUE
  /\ UNCHANGED <<aim, cpc, mpc, signalled, corked, op, leaked, data>>

\* instream_start_pa
StartInput ==
  /\ phase = "open" /\ cpc = "idle" /\ Input /\ ClientLeaves(0)
  /\ \/ phase' = "failed" /\ UNCHANGED <<cpc, signalled, state>>
     \/ state' = "creating" /\ ClientWaitsAt("wait_ready") /\ UNCHANGED phase
  /\ UNCHANGED <<aim, mpc, corked, stream_ready, op, registered, leaked, data>>

\* while (!stream_ready) pa_threaded_mainloop_wait; then the timing operation,
\* which a stream that is not ready refuses.
WaitReady ==
  /\ cpc = "wait_ready" /\ signalled /\ ClientLeaves(0)
  /\ \/ ~stream_ready /\ ClientWaitsAt("wait_ready") /\ UNCHANGED <<op, phase>>
     \/ stream_ready /\ state = "ready" /\ op' = "running" /\ ClientWaitsAt("wait_op") /\ UNCHANGED phase
     \/ /\ stream_ready /\ state # "ready"
        /\ phase' = "failed" /\ cpc' = "idle" /\ UNCHANGED <<op, signalled>>
  /\ UNCHANGED <<aim, mpc, state, corked, stream_ready, registered, leaked, data>>

\* perform_operation, the end of outstream_open_pa and of instream_start_pa.
WaitOp ==
  /\ cpc = "wait_op" /\ signalled /\ ClientLeaves(0)
  /\ \/ op = "running" /\ ClientWaitsAt("wait_op") /\ UNCHANGED <<op, phase>>
     \/ /\ op # "running" /\ cpc' = "idle" /\ op' = "none"
        /\ phase' = (IF op = "cancelled" THEN "failed" ELSE IF Output THEN "open" ELSE "started")
        /\ UNCHANGED signalled
  /\ UNCHANGED <<aim, mpc, state, corked, stream_ready, registered, leaked, data>>

\* outstream_start_pa calls write_callback itself.  The room of a stream that
\* has failed is (size_t)-1, in frames some negative int.
StartOutput ==
  /\ phase = "open" /\ cpc = "idle" /\ Output
  /\ CanLock("client") /\ LockAs("client", depth + 1)
  /\ cpc' = "write"
  /\ IF state = "ready" THEN frame_count_max' \in 0..MaxFrames ELSE frame_count_max' = -1
  /\ UNCHANGED <<aim, phase, mpc, signalled, stream, leaked, clear_buffer_flag,
                 requested, granted, server, reading>>

\* and uncorks the stream when that has returned.
StartUncorks ==
  /\ cpc = "write" /\ cpc' = "idle" /\ LockAs("client", depth - 1)
  /\ \/ state # "ready" /\ phase' = "failed" /\ UNCHANGED <<corked, registered>>
     \/ state = "ready" /\ phase' = "started" /\ corked' = FALSE /\ registered' = TRUE
  /\ frame_count_max' = 0 /\ requested' = 0 /\ granted' = 0
  /\ UNCHANGED <<aim, mpc, signalled, state, stream_ready, op, leaked, clear_buffer_flag,
                 server, reading>>

\* pa_stream_is_corked and pa_stream_cork, which is refused on a stream that
\* is not ready; it then counts as neither paused nor playing.
Corks(pause) == state = "ready" /\ corked' = pause
CorkRefused == state # "ready" /\ UNCHANGED corked

\* outstream_pause_pa and instream_pause_pa off the main loop's thread, in a
\* call of its own or in the callback that start makes: a refused recording
\* stream keeps the lock.
Pause(pause) ==
  /\ cpc \in {"idle", "write"} /\ phase \in {"open", "started"}
  /\ depth < MaxDepth
  /\ \/ Corks(pause) /\ ClientLeaves(0) /\ UNCHANGED leaked
     \/ CorkRefused /\ Output /\ ClientLeaves(0) /\ UNCHANGED leaked
     \/ CorkRefused /\ Input /\ ClientLeaves(1) /\ leaked' = TRUE
  /\ UNCHANGED <<aim, phase, cpc, mpc, signalled, state, stream_ready, op, registered, data>>

\* The same in a callback of the main loop: nothing is locked, and a refused
\* playback stream unlocks all the same.
PauseInCallback(pause) ==
  /\ InCallback
  /\ \/ Corks(pause) /\ UNCHANGED <<mpc, lock, leaked>>
     \/ CorkRefused /\ Input /\ UNCHANGED <<mpc, lock, leaked>>
     \/ /\ CorkRefused /\ Output /\ leaked' = TRUE
        /\ IF owner = "main" THEN LockAs("main", depth - 1) /\ UNCHANGED mpc
                             ELSE mpc' = "aborted" /\ UNCHANGED lock
  /\ UNCHANGED <<aim, phase, cpc, signalled, state, stream_ready, op, registered, data>>

\* outstream_clear_buffer_pa
ClearBuffer ==
  /\ Output /\ phase \in {"open", "started"} /\ clear_buffer_flag' = FALSE
  /\ UNCHANGED <<aim, phase, cpc, mpc, lock, signalled, stream, leaked, transfer, server, reading>>

\* Mutant: the callbacks are taken away without the lock.
Destroy_unlocked ==
  /\ phase # "destroyed" /\ cpc = "idle" /\ phase' = "destroyed"
  /\ registered' = FALSE /\ state' = "none" /\ op' = "none" /\ fragments' = <<>>
  /\ UNCHANGED <<aim, cpc, mpc, lock, signalled, corked, stream_ready, clear_buffer_flag, leaked,
                 transfer, recorded, reading>>

\* outstream_destroy_pa, instream_destroy_pa
Destroy ==
  /\ phase # "destroyed" /\ cpc = "idle" /\ phase' = "destroyed"
  /\ IF state = "none" THEN UNCHANGED lock ELSE ClientLeaves(0)
  /\ registered' = FALSE /\ state' = "none" /\ op' = "none" /\ fragments' = <<>>
  /\ UNCHANGED <<aim, cpc, mpc, signalled, corked, stream_ready, clear_buffer_flag, leaked,
                 transfer, recorded, reading>>

-----------------------------------------------------------------------------
(* The main loop's thread.  It dispatches when nobody else holds the lock. *)

Dispatches == mpc = "idle" /\ owner = "none"
Enter(l) == mpc' = l /\ LockAs("main", 1)

client == <<aim, phase, cpc, clear_buffer_flag>>

\* Mutant: nobody is told that the stream is ready.
StreamReady_quietly ==
  /\ Dispatches /\ state = "creating"
  /\ state' = "ready" /\ stream_ready' = TRUE
  /\ UNCHANGED <<client, mpc, lock, signalled, corked, op, registered, leaked, transfer, server, reading>>

\* playback_stream_state_callback, recording_stream_state_callback
StreamReady ==
  /\ Dispatches /\ state = "creating"
  /\ state' = "ready" /\ stream_ready' = TRUE /\ Signal
  /\ UNCHANGED <<client, mpc, lock, corked, op, registered, leaked, transfer, server, reading>>

\* The server ends the stream, or is lost, of which the client's thread is
\* signalled.  error_callback is called.
StreamFails ==
  /\ Dispatches /\ state \in {"creating", "ready"}
  /\ state' = "failed" /\ Enter("error")
  /\ op' = IF op = "running" THEN "cancelled" ELSE op
  /\ Signal \/ UNCHANGED signalled
  /\ UNCHANGED <<client, corked, stream_ready, registered, leaked, transfer, server, reading>>

\* timing_update_callback
TimingUpdate ==
  /\ Dispatches /\ op = "running" /\ op' = "done" /\ Signal
  /\ UNCHANGED <<client, mpc, lock, state, corked, stream_ready, registered, leaked, transfer,
                 server, reading>>

\* Another callback of the connection signals.
OtherSignal ==
  /\ Dispatches /\ ClientWaits /\ ~signalled /\ Signal
  /\ UNCHANGED <<client, mpc, lock, stream, leaked, transfer, server, reading>>

\* playback_stream_write_callback; playback_stream_underflow_callback when
\* there is nothing to write.
WriteCallback ==
  /\ Dispatches /\ Output /\ state = "ready" /\ registered
  /\ Enter("write") /\ frame_count_max' \in 0..MaxFrames
  /\ UNCHANGED <<client, signalled, stream, leaked, requested, granted, server, reading>>

\* A fragment comes; recording_stream_read_callback is told of all that was not
\* dropped yet, what was read of the first fragment included.
ReadCallback ==
  /\ Dispatches /\ Input /\ state = "ready" /\ registered /\ ~corked
  /\ \E n \in 1..MaxFragment, hole \in BOOLEAN :
       /\ recorded + n <= MaxFrames /\ recorded' = recorded + n
       /\ fragments' = Append(fragments, [frames |-> n, hole |-> hole])
  /\ Enter("read") /\ frame_count_max' = recorded' - dropped
  /\ UNCHANGED <<client, signalled, stream, leaked, requested, granted, reading>>

\* The callback returns and the main loop unlocks, which aborts the program
\* if the lock is not its own any more.
CallbackReturns ==
  /\ InCallback
  /\ IF owner = "main" THEN mpc' = "idle" /\ LockAs("main", depth - 1)
                       ELSE mpc' = "aborted" /\ UNCHANGED lock
  /\ frame_count_max' = 0 /\ requested' = 0 /\ granted' = 0
  /\ UNCHANGED <<client, signalled, stream, leaked, server, reading>>

-----------------------------------------------------------------------------
(* What the client does in a callback. *)

Writes == mpc = "write" \/ cpc = "write"

\* outstream_begin_write_pa; a stream that has failed grants nothing.
BeginWrite(n) ==
  /\ Writes /\ granted = 0 /\ n <= frame_count_max /\ state = "ready"
  /\ requested' = n /\ granted' \in 1..n
  /\ UNCHANGED <<client, mpc, lock, signalled, stream, leaked, frame_count_max, server, reading>>

\* outstream_end_write_pa: a write after a clear request replaces what was
\* written before.
EndWrite ==
  /\ Writes /\ granted > 0
  /\ clear_buffer_flag' = TRUE
  /\ frame_count_max' = frame_count_max - granted /\ requested' = 0 /\ granted' = 0
  /\ UNCHANGED <<aim, phase, cpc, mpc, lock, signalled, stream, leaked, server, reading>>

\* instream_begin_read_pa: peek, unless part of a fragment is left.  Of an
\* empty buffer or a hole there is no peek_buf.
BeginRead(n) ==
  LET empty == IF fragments = <<>> THEN TRUE ELSE Head(fragments).hole
      left == IF peek_buf THEN peek_buf_frames_left
              ELSE IF fragments = <<>> THEN 0 ELSE Head(fragments).frames
  IN
  /\ mpc = "read" /\ granted = 0 /\ n <= frame_count_max
  /\ requested' = n
  /\ \/ /\ ~peek_buf /\ empty
        /\ peek_buf_frames_left' = left /\ peek_buf_index' = 0
        /\ granted' = left /\ UNCHANGED <<peek_buf, read_frame_count>>
     \/ /\ empty => peek_buf
        /\ peek_buf' = TRUE /\ peek_buf_frames_left' = left
        /\ peek_buf_index' = IF peek_buf THEN peek_buf_index ELSE 0
        /\ read_frame_count' = (IF n < left THEN n ELSE left)
        /\ granted' = read_frame_count'
  /\ UNCHANGED <<client, mpc, lock, signalled, stream, leaked, frame_count_max, server,
                 delivered, dropped>>

\* pa_stream_drop
Drop == fragments' = Tail(fragments) /\ dropped' = dropped + Head(fragments).frames

\* Mutant: a fragment is dropped when any of it was read.
EndRead_drops ==
  /\ mpc = "read" /\ granted > 0
  /\ delivered' = delivered + granted /\ Drop /\ peek_buf' = FALSE
  /\ frame_count_max' = frame_count_max - granted /\ requested' = 0 /\ granted' = 0
  /\ UNCHANGED <<client, mpc, lock, signalled, stream, leaked, recorded, peek_buf_index,
                 peek_buf_frames_left, read_frame_count>>

\* instream_end_read_pa, which the client calls unless nothing was granted: a
\* hole is dropped, a fragment once it was read to its end.
EndRead ==
  /\ mpc = "read" /\ granted > 0
  /\ delivered' = delivered + granted
  /\ \/ ~peek_buf /\ Drop
        /\ UNCHANGED <<peek_buf, peek_buf_index, peek_buf_frames_left>>
     \/ /\ peek_buf
        /\ peek_buf_index' = peek_buf_index + read_frame_count
        /\ peek_buf_frames_left' = peek_buf_frames_left - read_frame_count
        /\ IF peek_buf_index' >= Head(fragments).frames
             THEN Drop /\ peek_buf' = FALSE
             ELSE UNCHANGED <<fragments, dropped, peek_buf>>
  /\ frame_count_max' = frame_count_max - granted /\ requested' = 0 /\ granted' = 0
  /\ UNCHANGED <<client, mpc, lock, signalled, stream, leaked, recorded, read_frame_count>>

-----------------------------------------------------------------------------

Wait == WaitReady \/ WaitOp
Events == StreamReady \/ TimingUpdate \/ WriteCallback \/ ReadCallback

Client ==
  \/ OpenOutput \/ OpenInput \/ StartInput \/ StartOutput \/ StartUncorks
  \/ ClearBuffer \/ Destroy
  \/ \E pause \in BOOLEAN : Pause(pause)

MainLoop == Events \/ StreamFails \/ OtherSignal \/ CallbackReturns

Callbacks ==
  \/ \E n \in 1..MaxFrames : BeginWrite(n) \/ BeginRead(n)
  \/ EndWrite \/ EndRead
  \/ \E pause \in BOOLEAN : PauseInCallback(pause)

Next == Client \/ Wait \/ MainLoop \/ Callbacks

\* Threads that can go on do; the server answers; callbacks return, here and in
\* outstream_start_pa.
Fairness ==
  /\ WF_vars(WaitReady) /\ WF_vars(WaitOp) /\ WF_vars(StartUncorks)
  /\ WF_vars(CallbackReturns) /\ SF_vars(StreamReady) /\ SF_vars(TimingUpdate)

Spec == Init /\ [][Next]_vars /\ Fairness

-----------------------------------------------------------------------------

TypeOK ==
  /\ aim \in {"output", "input"}
  /\ phase \in {"created", "open", "started", "failed", "destroyed"}
  /\ cpc \in {"idle", "wait_ready", "wait_op", "write"}
  /\ mpc \in {"idle", "write", "read", "error", "aborted"}
  /\ owner \in {"none", "client", "main"} /\ depth \in 0..MaxDepth
  /\ (owner = "none") = (depth = 0)
  /\ {signalled, corked, stream_ready, registered, clear_buffer_flag, leaked, peek_buf}
       \subseteq BOOLEAN
  /\ state \in {"none", "unconnected", "creating", "ready", "failed"}
  /\ op \in {"none", "running", "done", "cancelled"}
  /\ frame_count_max \in -1..MaxFrames /\ requested \in 0..MaxFrames /\ granted \in 0..MaxFrames
  /\ fragments \in Seq([frames : 1..MaxFragment, hole : BOOLEAN])
  /\ {peek_buf_index, peek_buf_frames_left, read_frame_count, recorded, delivered, dropped}
       \subseteq 0..MaxFrames

\* As long as no pause was refused, the lock is where it should be: a callback
\* of the main loop runs on a stream that was not destroyed, with the lock held,
\* and so never while start runs the same callback on the client's thread
\* (pulseaudio.c:739-745); and the client's thread leaves no call with the lock.
CallbacksAreExclusive ==
  /\ TypeOK
  /\ ~leaked =>
       /\ InCallback => owner = "main" /\ phase # "destroyed" /\ cpc # "write"
       /\ cpc # "write" => owner # "client"

\* Every recorded frame is handed to the client once and in order, however the
\* client splits its reads and the server its fragments and holes
\* (pulseaudio.c:968-1027).
FramesAreReadOnce ==
  phase # "destroyed" =>
    /\ delivered = dropped + (IF peek_buf THEN peek_buf_index ELSE 0)
    /\ peek_buf => /\ fragments # <<>>
                   /\ peek_buf_index + peek_buf_frames_left = Head(fragments).frames

\* A call that waits for the server returns, unless the stream fails while it
\* waits, or a refused pause has taken the lock with it (pulseaudio.c:717, 954).
WaitsEnd == ClientWaits ~> ~ClientWaits \/ state = "failed" \/ leaked

\* The frames that begin_read says can be read are no more than were asked for:
\* "The returned value will always be less than or equal to the provided value"
\* (soundio.h:1112).  It does not hold, since a hole is handed out whole
\* (pulseaudio.c:986), and no run checks it.
GrantsAtMostRequested == mpc = "read" => granted <= requested
=============================================================================
