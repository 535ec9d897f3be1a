---------------------------- MODULE WasapiStream ----------------------------
(***************************************************************************)
(* src/wasapi.c: a render or capture stream, shared or raw (exclusive).    *)
(* All COM calls are meant to be made by one thread, which opens, runs and *)
(* tears down; the client's thread talks to it by flags, two condition     *)
(* variables under one mutex and, for a raw stream, an auto-reset event    *)
(* that the device sets too.  A step is what a thread does up to its next  *)
(* access to a flag, the event or the device, or while it holds the mutex. *)
(*                                                                         *)
(* Windows is external: the audio client, which may be lost at any time.   *)
(* A timed wait may always end, so that only untimed ones need a signal.   *)
(***************************************************************************)
EXTENDS Integers, Sequences

CONSTANTS MaxPacket  \* frames in a captured packet

ASSUME PacketAssumption == MaxPacket \in Nat \ {0}

VARIABLES aim, is_raw,
          phase,                \* what the client has done with the stream
          cpc, tpc,             \* where the two threads are
          held,                 \* mutex, conditions and event exist
          com,                  \* the COM objects: "none", "held" or "released"
          lost,                 \* the device is gone: every call of it fails
          running,              \* IAudioClient_Start or _Stop was last
          open_complete, open_err, started,
          ran,                  \* the thread has seen that it was started
          start_signalled,      \* start_cond was signalled to the waiting thread
          h_event,              \* the event is set
          thread_exit_flag, pause_resume_flag, clear_buffer_flag, \* set, unless asked
          desired_pause_state, is_paused,
          packet,               \* frames of the packet that GetBuffer lent, 0 if none
          opened_buf_frames, read_buf_frames_left, read_frame_count

handshake == <<open_complete, open_err, started, start_signalled, ran>>
flags == <<h_event, thread_exit_flag, pause_resume_flag, clear_buffer_flag, desired_pause_state>>
device == <<com, lost, running>>
capture == <<packet, opened_buf_frames, read_buf_frames_left, read_frame_count>>
kind == <<aim, is_raw>>
vars == <<kind, phase, cpc, tpc, held, device, handshake, flags, is_paused, capture>>

Output == aim = "output"
Input == aim = "input"
ThreadRuns == tpc \notin {"none", "done"}

Init ==
  /\ aim \in {"output", "input"} /\ is_raw \in BOOLEAN
  /\ phase = "created" /\ cpc = "idle" /\ tpc = "none" /\ held = FALSE
  /\ com = "none" /\ lost = FALSE /\ running = FALSE
  /\ open_complete = FALSE /\ open_err = FALSE /\ started = FALSE /\ start_signalled = FALSE
  /\ ran = FALSE
  /\ h_event = FALSE /\ thread_exit_flag = FALSE
  /\ pause_resume_flag = FALSE /\ clear_buffer_flag = FALSE
  /\ desired_pause_state = FALSE /\ is_paused = FALSE
  /\ packet = 0 /\ opened_buf_frames = 0 /\ read_buf_frames_left = 0 /\ read_frame_count = 0

-----------------------------------------------------------------------------
(* Windows. *)

DeviceLost ==
  /\ ~lost /\ lost' = TRUE
  /\ UNCHANGED <<kind, phase, cpc, tpc, held, com, running, handshake, flags, is_paused, capture>>

\* The device asks for, or has, a buffer.
DeviceEvent ==
  /\ is_raw /\ held /\ running /\ ~lost /\ ~h_event /\ h_event' = TRUE
  /\ UNCHANGED <<kind, phase, cpc, tpc, held, device, handshake, thread_exit_flag, pause_resume_flag,
                 clear_buffer_flag, desired_pause_state, is_paused, capture>>

-----------------------------------------------------------------------------
(* The stream's thread. *)

goto(l) == tpc' = l

\* outstream_thread_deinit, instream_thread_deinit, and the thread ends.
Deinit == goto("done") /\ com' = (IF com = "held" THEN "released" ELSE com)

\* outstream_do_open, instream_do_open, and what became of it.
DoOpen ==
  /\ tpc = "open" /\ open_complete' = TRUE
  /\ \/ ~lost /\ com' = "held" /\ goto("start?") /\ UNCHANGED open_err
     \/ open_err' = TRUE /\ com' = "released" /\ goto("done")
  /\ UNCHANGED <<kind, phase, cpc, held, lost, running, started, start_signalled, ran, flags,
                 is_paused, capture>>

\* The wait for start: a thread that is to exit returns, and releases nothing.
AwaitStart ==
  /\ \/ tpc = "start?"
     \/ tpc = "wait_start" /\ start_signalled
  /\ goto(IF ~thread_exit_flag THEN "done"
          ELSE IF ~started THEN "wait_start"
          ELSE IF Output THEN "prime" ELSE "start_audio")
  /\ ran' = (thread_exit_flag /\ started)
  /\ thread_exit_flag' = TRUE /\ start_signalled' = FALSE
  /\ UNCHANGED <<kind, phase, cpc, held, device, open_complete, open_err, started, h_event,
                 pause_resume_flag, clear_buffer_flag, desired_pause_state, is_paused, capture>>

\* A stream that has failed: error_callback, and the thread ends.
Fails == lost /\ Deinit /\ UNCHANGED <<lost, running>>

\* The first lines of outstream_shared_run and outstream_raw_run: fill the
\* buffer; a shared one is asked how full it is, and must not be full.
Prime ==
  /\ tpc = "prime"
  /\ \/ goto("first_callback") /\ UNCHANGED device
     \/ ~is_raw /\ Deinit /\ UNCHANGED <<lost, running>>
  /\ UNCHANGED <<kind, phase, cpc, held, handshake, flags, is_paused, capture>>

StartAudio ==
  /\ tpc = "start_audio"
  /\ \/ ~lost /\ running' = TRUE /\ goto("wait") /\ UNCHANGED <<com, lost>>
     \/ Fails
  /\ UNCHANGED <<kind, phase, cpc, held, handshake, flags, is_paused, capture>>

\* soundio_os_cond_timed_wait under the mutex, after GetCurrentPadding if this
\* is playback; or WaitForSingleObject; and the test of thread_exit_flag.
Wait ==
  /\ tpc = "wait" /\ (is_raw => h_event)
  /\ h_event' = FALSE
  /\ \/ ~thread_exit_flag /\ Deinit /\ UNCHANGED <<lost, running>>
     \/ /\ thread_exit_flag /\ UNCHANGED device
        /\ goto(IF Input THEN "poll" ELSE IF is_raw THEN "pause?" ELSE "clear?")
     \/ Output /\ ~is_raw /\ Fails
  /\ thread_exit_flag' = TRUE
  /\ UNCHANGED <<kind, phase, cpc, held, handshake, pause_resume_flag, clear_buffer_flag,
                 desired_pause_state, is_paused, capture>>

\* A clear request: stop, reset, and have the pause state looked at again.
TakeClear ==
  /\ tpc = "clear?" /\ clear_buffer_flag' = TRUE
  /\ \/ clear_buffer_flag /\ goto("pause?") /\ UNCHANGED <<device, is_paused, pause_resume_flag>>
     \/ /\ ~clear_buffer_flag /\ ~lost
        /\ running' = FALSE /\ is_paused' = TRUE /\ pause_resume_flag' = FALSE
        /\ goto("pause?") /\ UNCHANGED <<com, lost>>
     \/ ~clear_buffer_flag /\ Fails /\ UNCHANGED <<is_paused, pause_resume_flag>>
  /\ UNCHANGED <<kind, phase, cpc, held, handshake, h_event, thread_exit_flag,
                 desired_pause_state, capture>>

\* The test of pause_resume_flag
TakePause ==
  /\ tpc = "pause?" /\ pause_resume_flag' = TRUE
  /\ goto(IF pause_resume_flag THEN "poll" ELSE "pause")
  /\ UNCHANGED <<kind, phase, cpc, held, device, handshake, h_event, thread_exit_flag,
                 clear_buffer_flag, desired_pause_state, is_paused, capture>>

\* and what is done about it.
ApplyPause ==
  /\ tpc = "pause"
  /\ \/ desired_pause_state = is_paused /\ goto("poll") /\ UNCHANGED <<device, is_paused>>
     \/ /\ desired_pause_state # is_paused /\ ~lost
        /\ running' = ~desired_pause_state /\ is_paused' = desired_pause_state
        /\ goto("poll") /\ UNCHANGED <<com, lost>>
     \/ desired_pause_state # is_paused /\ Fails /\ UNCHANGED is_paused
  /\ UNCHANGED <<kind, phase, cpc, held, handshake, flags, capture>>

\* GetCurrentPadding, unless the stream is raw; the callback, if there is room
\* or data.
Poll ==
  /\ tpc = "poll"
  /\ \/ goto("callback") /\ UNCHANGED device
     \/ ~is_raw /\ goto("wait") /\ UNCHANGED device
     \/ ~is_raw /\ Fails
  /\ UNCHANGED <<kind, phase, cpc, held, handshake, flags, is_paused, capture>>

\* The client's callback returns.  Rendering (begin_write, end_write) lends and
\* gives back a buffer at once; capturing is below.
CallbackReturns ==
  /\ \/ tpc = "first_callback" /\ goto("start_audio")
     \/ tpc = "callback" /\ goto("wait")
  /\ UNCHANGED <<kind, phase, cpc, held, device, handshake, flags, is_paused, capture>>

\* instream_begin_read_wasapi: the next packet, unless one is being read.
BeginRead(n) ==
  /\ tpc = "callback" /\ Input /\ read_frame_count = 0
  /\ \/ /\ read_buf_frames_left <= 0 /\ ~lost /\ packet = 0
        /\ packet' \in 0..MaxPacket
        /\ opened_buf_frames' = packet' /\ read_buf_frames_left' = packet'
        /\ read_frame_count' = IF n < packet' THEN n ELSE packet'
     \/ /\ read_buf_frames_left > 0
        /\ read_frame_count' = IF n < read_buf_frames_left THEN n ELSE read_buf_frames_left
        /\ UNCHANGED <<packet, opened_buf_frames, read_buf_frames_left>>
  /\ UNCHANGED <<kind, phase, cpc, tpc, held, device, handshake, flags, is_paused>>

\* Mutant: what is given back is what was read last.
EndRead_partial ==
  /\ tpc = "callback" /\ Input /\ read_frame_count > 0
  /\ read_buf_frames_left' = read_buf_frames_left - read_frame_count
  /\ read_frame_count' = 0
  /\ packet' = IF read_buf_frames_left' <= 0 /\ ~lost /\ read_frame_count = packet THEN 0 ELSE packet
  /\ UNCHANGED <<kind, phase, cpc, tpc, held, device, handshake, flags, is_paused, opened_buf_frames>>

\* instream_end_read_wasapi: the packet goes back when it was read to its end,
\* with the size it came with.
EndRead ==
  /\ tpc = "callback" /\ Input /\ read_frame_count > 0
  /\ read_buf_frames_left' = read_buf_frames_left - read_frame_count
  /\ read_frame_count' = 0
  /\ packet' = IF read_buf_frames_left' <= 0 /\ ~lost /\ opened_buf_frames = packet THEN 0 ELSE packet
  /\ UNCHANGED <<kind, phase, cpc, tpc, held, device, handshake, flags, is_paused, opened_buf_frames>>

-----------------------------------------------------------------------------
(* The client's thread. *)

\* outstream_open_wasapi, instream_open_wasapi: the thread is made, unless
\* memory, an event or the thread are not to be had.
Open ==
  /\ phase = "created"
  /\ pause_resume_flag' = (Output \/ pause_resume_flag)
  /\ clear_buffer_flag' = (Output \/ clear_buffer_flag)
  /\ \/ /\ held' = TRUE /\ thread_exit_flag' = TRUE /\ goto("open")
        /\ phase' = "opening"
     \/ phase' = "failed" /\ UNCHANGED <<held, thread_exit_flag, tpc>>
  /\ UNCHANGED <<kind, cpc, device, handshake, h_event, desired_pause_state, is_paused, capture>>

\* The wait for open_complete is over.
OpenCompletes ==
  /\ phase = "opening" /\ cpc = "idle" /\ open_complete
  /\ IF open_err THEN phase' = "failed" /\ cpc' = "ask" ELSE phase' = "open" /\ UNCHANGED cpc
  /\ UNCHANGED <<kind, tpc, held, device, handshake, flags, is_paused, capture>>

\* Signal start_cond under the mutex.
SignalStart == start_signalled' = (start_signalled \/ tpc = "wait_start")

\* outstream_start_wasapi, instream_start_wasapi
Start ==
  /\ phase = "open" /\ cpc = "idle" /\ phase' = "started"
  /\ started' = TRUE /\ SignalStart
  /\ UNCHANGED <<kind, cpc, tpc, held, device, open_complete, open_err, ran, flags, is_paused, capture>>

\* outstream_pause_wasapi, in three steps: what is wanted,
PauseStore(pause) ==
  /\ phase \in {"open", "started"} /\ cpc = "idle" /\ Output
  /\ desired_pause_state' = pause /\ cpc' = "pause_flag"
  /\ UNCHANGED <<kind, phase, tpc, held, device, handshake, h_event, thread_exit_flag,
                 pause_resume_flag, clear_buffer_flag, is_paused, capture>>

\* that it is wanted,
PauseFlag ==
  /\ cpc = "pause_flag" /\ cpc' = "pause_wake" /\ pause_resume_flag' = FALSE
  /\ UNCHANGED <<kind, phase, tpc, held, device, handshake, h_event, thread_exit_flag,
                 clear_buffer_flag, desired_pause_state, is_paused, capture>>

\* Mutant: nobody is told.
PauseWake_quietly ==
  /\ cpc = "pause_wake" /\ cpc' = "idle"
  /\ UNCHANGED <<kind, phase, tpc, held, device, handshake, flags, is_paused, capture>>

\* and a nudge.
PauseWake ==
  /\ cpc = "pause_wake" /\ cpc' = "idle" /\ h_event' = (is_raw \/ h_event)
  /\ UNCHANGED <<kind, phase, tpc, held, device, handshake, thread_exit_flag, pause_resume_flag,
                 clear_buffer_flag, desired_pause_state, is_paused, capture>>

\* instream_pause_wasapi: the client's thread calls the audio client itself.
\* It may stop it before the thread starts it; a call fails when the device is
\* lost; and when the thread has released the audio client for that reason,
\* what the call does, and says, is undefined.
PauseInput(pause) ==
  /\ phase \in {"open", "started"} /\ cpc = "idle" /\ Input
  /\ pause # is_paused
  /\ \/ ~lost /\ is_paused' = pause /\ running' = ~pause
     \/ lost /\ com = "released" /\ is_paused' = pause /\ UNCHANGED running
  /\ UNCHANGED <<kind, phase, cpc, tpc, held, com, lost, handshake, flags, capture>>

\* outstream_clear_buffer_wasapi; a raw stream refuses.
ClearBuffer ==
  /\ phase \in {"open", "started"} /\ cpc = "idle" /\ Output /\ ~is_raw
  /\ clear_buffer_flag' = FALSE
  /\ UNCHANGED <<kind, phase, cpc, tpc, held, device, handshake, h_event, thread_exit_flag,
                 pause_resume_flag, desired_pause_state, is_paused, capture>>

\* outstream_destroy_wasapi, instream_destroy_wasapi: ask the thread to end,
AskThreadToEnd ==
  /\ \/ phase \in {"open", "started"} /\ cpc = "idle"
     \/ cpc = "ask"
  /\ phase' = "ending" /\ cpc' = "wake" /\ thread_exit_flag' = FALSE
  /\ UNCHANGED <<kind, tpc, held, device, handshake, h_event, pause_resume_flag, clear_buffer_flag,
                 desired_pause_state, is_paused, capture>>

\* Mutant: a thread that waits to be started is forgotten.
WakeThread_running ==
  /\ cpc = "wake" /\ cpc' = "join" /\ h_event' = (is_raw \/ h_event)
  /\ UNCHANGED <<kind, phase, tpc, held, device, handshake, thread_exit_flag,
                 pause_resume_flag, clear_buffer_flag, desired_pause_state, is_paused, capture>>

\* wake it, whatever it waits for,
WakeThread ==
  /\ cpc = "wake" /\ cpc' = "join" /\ h_event' = (is_raw \/ h_event) /\ SignalStart
  /\ UNCHANGED <<kind, phase, tpc, held, device, open_complete, open_err, started, ran, thread_exit_flag,
                 pause_resume_flag, clear_buffer_flag, desired_pause_state, is_paused, capture>>

\* Mutant: without waiting for it,
Destroy_unjoined ==
  /\ \/ cpc = "join"
     \/ phase \in {"created", "failed"} /\ cpc = "idle"
  /\ phase' = "destroyed" /\ cpc' = "idle" /\ held' = FALSE
  /\ UNCHANGED <<kind, tpc, device, handshake, flags, is_paused, capture>>

\* and when it has ended free what they shared.
Destroy ==
  /\ \/ cpc = "join" /\ ~ThreadRuns
     \/ phase \in {"created", "failed"} /\ cpc = "idle"
  /\ phase' = "destroyed" /\ cpc' = "idle" /\ held' = FALSE
  /\ UNCHANGED <<kind, tpc, device, handshake, flags, is_paused, capture>>

-----------------------------------------------------------------------------

Thread ==
  DoOpen \/ AwaitStart \/ Prime \/ StartAudio \/ Wait \/ TakeClear \/ TakePause \/ ApplyPause \/ Poll

Reads == EndRead \/ \E n \in 1..MaxPacket : BeginRead(n)

Calls == OpenCompletes \/ PauseFlag \/ PauseWake \/ AskThreadToEnd \/ WakeThread \/ Destroy

Client ==
  Open \/ Start \/ ClearBuffer \/ \E pause \in BOOLEAN : PauseStore(pause) \/ PauseInput(pause)

Next == DeviceLost \/ DeviceEvent \/ Thread \/ CallbackReturns \/ Reads \/ Calls \/ Client

\* The thread is scheduled and timed waits end; callbacks return; a call that
\* was begun goes on.  Nothing is asked of the device.
Fairness ==
  /\ WF_vars(Thread) /\ SF_vars(CallbackReturns)
  /\ WF_vars(OpenCompletes) /\ WF_vars(PauseFlag) /\ WF_vars(PauseWake)
  /\ WF_vars(cpc = "ask" /\ AskThreadToEnd) /\ WF_vars(WakeThread) /\ WF_vars(cpc = "join" /\ Destroy)

Spec == Init /\ [][Next]_vars /\ Fairness

-----------------------------------------------------------------------------

TypeOK ==
  /\ aim \in {"output", "input"}
  /\ {is_raw, held, lost, running, open_complete, open_err, started, start_signalled, ran, h_event,
      thread_exit_flag, pause_resume_flag, clear_buffer_flag, desired_pause_state, is_paused}
       \subseteq BOOLEAN
  /\ phase \in {"created", "opening", "open", "started", "failed", "ending", "destroyed"}
  /\ cpc \in {"idle", "pause_flag", "pause_wake", "ask", "wake", "join"}
  /\ tpc \in {"none", "open", "start?", "wait_start", "prime", "first_callback", "start_audio",
              "wait", "clear?", "pause?", "pause", "poll", "callback", "done"}
  /\ com \in {"none", "held", "released"}
  /\ {packet, opened_buf_frames, read_buf_frames_left, read_frame_count} \subseteq 0..MaxPacket

\* The mutex, the conditions and the event outlive the thread that uses them;
\* and its COM objects are released once it has ended, unless it never
\* saw that it was started (wasapi.c:1551-1554 returns without releasing them).
ThreadOwnsStream ==
  /\ TypeOK
  /\ ThreadRuns => held
  /\ tpc = "done" /\ ran => com = "released"

\* A captured packet is given back whole, when all its frames were handed out
\* and not before, so that GetBuffer never asks for a second one
\* (wasapi.c:2106-2160).
PacketsAreReadWhole ==
  tpc = "callback" /\ ~lost =>
    /\ packet = (IF read_buf_frames_left > 0 THEN opened_buf_frames ELSE 0)
    /\ read_frame_count <= read_buf_frames_left

\* Open and destroy return, wherever the thread is, whatever the device does.
CallsComplete ==
  /\ phase = "opening" ~> phase # "opening"
  /\ phase = "ending" ~> phase = "destroyed"

\* A playback stream plays if and only if that was the last wish, although the
\* wish and the request are two words, a clear request stops the stream in
\* between, and a raw stream has stopped asking for frames (wasapi.c:1634-1648).
PauseTakesEffect ==
  Output /\ tpc = "wait" /\ cpc = "idle" /\ running = desired_pause_state ~>
    running # desired_pause_state \/ cpc # "idle" \/ tpc = "done"
=============================================================================
