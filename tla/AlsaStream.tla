---------------------------- MODULE AlsaStream ----------------------------
(***************************************************************************)
(* src/alsa.c: a playback or capture stream.  The client's thread opens,   *)
(* starts, pauses, clears and destroys it; a thread of its own asks the    *)
(* PCM for its state, acts on the answer, waits for room or data, and      *)
(* calls write_callback or read_callback, from which the client transfers  *)
(* frames.  A step goes up to the next access to what the other side or    *)
(* the hardware can change.                                                *)
(*                                                                         *)
(* The PCM (alsa-lib and the kernel) is external: its state, the frames in *)
(* its ring buffer, and which calls it refuses in which state.  It moves   *)
(* on by itself: it plays or captures, is suspended and wakes, is unplugged.*)
(***************************************************************************)
EXTENDS Integers, Sequences

CONSTANTS BufferFrames,  \* buffer_size_frames
          PeriodSize,    \* period_size
          MaxSuspends    \* bound: how often the system is suspended

ASSUME BufferAssumption ==
  /\ PeriodSize \in Nat \ {0}
  /\ BufferFrames \in Nat /\ BufferFrames > PeriodSize
  /\ MaxSuspends \in Nat

VARIABLES aim,                \* "output" or "input"
          access,             \* "rw" or "mmap"
          phase,              \* what the client's thread has done with the stream
          held,               \* what the stream has allocated or opened
          thread_exit_flag, clear_buffer_flag, \* set, unless there is a request
          exit_pipe,          \* poll_exit_pipe_fd holds a byte
          is_paused,
          tpc,                \* where the stream's thread is
          priming,            \* its callback was called for a PREPARED stream
          frame_count_max,    \* what its callback may still transfer
          frame_count,        \* write_frame_count, read_frame_count
          pcm, fill,          \* the state of the PCM, the frames in its buffer
          asleep,             \* a resume would answer EAGAIN
          suspended_state,    \* what the PCM was when it was suspended
          suspends,           \* how often it was
          reprepared          \* the thread prepared the PCM since the last pause

client == <<phase, held, is_paused, access>>
requests == <<thread_exit_flag, clear_buffer_flag, exit_pipe>>
transfer == <<priming, frame_count_max, frame_count>>
power == <<asleep, suspended_state, suspends>>
hardware == <<pcm, fill, power>>
vars == <<aim, client, requests, tpc, transfer, hardware, reprepared>>

Output == aim = "output"
Input == aim = "input"
ThreadRuns == tpc \notin {"none", "done", "crashed"}

Resources == {"chmap", "handle", "sample_buffer", "poll_fds", "exit_pipe"}

\* What the open functions acquire, in this order.
Acquires(acc) ==
  <<"chmap", "handle">>
    \o (IF acc = "rw" THEN <<"sample_buffer">> ELSE <<>>)
    \o <<"poll_fds">>
    \o (IF Output THEN <<"exit_pipe">> ELSE <<>>)

\* Frames the client may transfer.
Avail == IF Output THEN BufferFrames - fill ELSE fill

Init ==
  /\ aim \in {"output", "input"} /\ access = "rw"
  /\ phase = "created" /\ held = {}
  /\ thread_exit_flag = FALSE /\ clear_buffer_flag = FALSE /\ exit_pipe = FALSE
  /\ is_paused = FALSE
  /\ tpc = "none" /\ priming = FALSE /\ frame_count_max = 0 /\ frame_count = 0
  /\ pcm = "none" /\ fill = 0
  /\ asleep = FALSE /\ suspended_state = "running" /\ suspends = 0
  /\ reprepared = FALSE

-----------------------------------------------------------------------------
(* The PCM, as the code uses it. *)

\* poll: room or data for a period, or a state in which it reports POLLERR.
snd_pcm_poll ==
  pcm \in {"prepared", "running", "paused"} => Avail >= PeriodSize

\* It plays or captures a frame, and stops when the buffer runs dry or full.
Transfer ==
  /\ pcm = "running"
  /\ fill' = IF Output THEN fill - 1 ELSE fill + 1
  /\ pcm' = IF fill' = (IF Output THEN 0 ELSE BufferFrames) THEN "xrun" ELSE pcm
  /\ UNCHANGED <<aim, client, requests, tpc, transfer, power, reprepared>>

Suspend ==
  /\ pcm \in {"prepared", "running", "paused"} /\ suspends < MaxSuspends
  /\ pcm' = "suspended" /\ suspended_state' = pcm /\ asleep' = TRUE
  /\ suspends' = suspends + 1
  /\ UNCHANGED <<aim, client, requests, tpc, transfer, fill, reprepared>>

Wake ==
  /\ asleep /\ asleep' = FALSE
  /\ UNCHANGED <<aim, client, requests, tpc, transfer, pcm, fill, suspended_state,
                 suspends, reprepared>>

Unplug ==
  /\ pcm \notin {"none", "disconnected"} /\ pcm' = "disconnected"
  /\ UNCHANGED <<aim, client, requests, tpc, transfer, fill, power, reprepared>>

\* snd_pcm_prepare empties the buffer; it fails when the device has gone.
snd_pcm_prepare == pcm' = "prepared" /\ fill' = 0 /\ reprepared' = TRUE

-----------------------------------------------------------------------------
(* The thread. *)

goto(l) == tpc' = l

\* error_callback, and the thread returns.
Fails == goto("done") /\ UNCHANGED <<pcm, fill, reprepared, transfer, requests>>

\* The switch on snd_pcm_state.
Dispatch ==
  /\ tpc = "loop"
  /\ goto(CASE pcm = "setup" -> "prepare"
            [] pcm = "prepared" -> "prepared"
            [] pcm \in {"running", "paused"} -> "wait"
            [] pcm \in {"xrun", "suspended"} -> "recover"
            [] pcm = "disconnected" -> "done")
  /\ UNCHANGED <<aim, client, requests, transfer, hardware, reprepared>>

Prepare ==
  /\ tpc = "prepare"
  /\ \/ pcm = "setup" /\ snd_pcm_prepare /\ goto("loop") /\ UNCHANGED <<transfer, requests>>
     \/ pcm = "disconnected" /\ Fails
  /\ UNCHANGED <<aim, client, power>>

\* The case SND_PCM_STATE_PREPARED: playback is primed before it is started.
Prepared ==
  /\ tpc = "prepared"
  /\ \/ /\ pcm = "prepared" /\ Output /\ Avail = BufferFrames
        /\ goto("callback") /\ priming' = TRUE
        /\ frame_count_max' = Avail /\ frame_count' = 0
        /\ UNCHANGED <<pcm, fill, reprepared, requests>>
     \/ /\ pcm = "prepared" /\ ~(Output /\ Avail = BufferFrames)
        /\ goto("loop") /\ pcm' = "running"
        /\ UNCHANGED <<fill, reprepared, transfer, requests>>
     \/ pcm # "prepared" /\ Fails
  /\ UNCHANGED <<aim, client, power>>

\* outstream_wait_for_poll and instream_wait_for_poll, with the test of
\* thread_exit_flag that follows them.
WaitForPoll ==
  /\ tpc = "wait"
  /\ snd_pcm_poll \/ (Output /\ exit_pipe)
  /\ \/ ~thread_exit_flag /\ goto("done")
     \/ thread_exit_flag /\ snd_pcm_poll /\ goto("ready")
  /\ thread_exit_flag' = TRUE
  /\ UNCHANGED <<aim, client, clear_buffer_flag, exit_pipe, transfer, hardware, reprepared>>

\* A signal interrupts poll: error_callback, unless capture is to end anyway.
PollInterrupted ==
  /\ tpc = "wait" /\ Fails
  /\ UNCHANGED <<aim, client, power>>

\* The test of clear_buffer_flag; capture has none.
ClearRequested_forgotten == FALSE
ClearRequested == Output /\ ~clear_buffer_flag

\* Playback tests thread_exit_flag once more; snd_pcm_drop, after which snd_pcm_reset
\* is refused and need not work; or snd_pcm_avail_update and the callback.
Ready ==
  /\ tpc = "ready"
  /\ \/ Output /\ ~thread_exit_flag /\ goto("done")
        /\ UNCHANGED <<pcm, fill, reprepared, transfer, requests>>
     \/ /\ thread_exit_flag /\ ClearRequested /\ pcm # "disconnected"
        /\ clear_buffer_flag' = TRUE
        /\ pcm' = "setup" /\ fill' = 0 /\ goto("loop")
        /\ UNCHANGED <<reprepared, transfer, thread_exit_flag, exit_pipe>>
     \/ thread_exit_flag /\ ClearRequested /\ pcm = "disconnected" /\ Fails
     \/ /\ (Output => thread_exit_flag) /\ ~ClearRequested
        /\ \/ pcm \in {"running", "paused"} /\ Avail > 0 /\ goto("callback")
              /\ priming' = FALSE /\ frame_count_max' = Avail /\ frame_count' = 0
           \/ pcm \in {"running", "paused"} /\ Avail = 0 /\ goto("loop") /\ UNCHANGED transfer
           \/ pcm \notin {"running", "paused"} /\ goto("recover") /\ UNCHANGED transfer
        /\ UNCHANGED <<pcm, fill, reprepared, requests>>
  /\ UNCHANGED <<aim, client, power>>

\* Mutant: an underrun is reported, and the PCM left as it is.
xrun_recovery_unprepared ==
  \/ pcm = "xrun" /\ UNCHANGED <<pcm, fill, reprepared>>
  \/ pcm = "suspended" /\ ~asleep /\ pcm' = suspended_state /\ UNCHANGED <<fill, reprepared>>

\* outstream_xrun_recovery, instream_xrun_recovery: prepare after an xrun;
\* after a suspension resume once that is possible, prepare if it fails.
xrun_recovery ==
  \/ pcm = "xrun" /\ snd_pcm_prepare
  \/ /\ pcm = "suspended" /\ ~asleep
     /\ \/ pcm' = suspended_state /\ UNCHANGED <<fill, reprepared>>
        \/ snd_pcm_prepare

Recover ==
  /\ tpc = "recover"
  /\ \/ xrun_recovery /\ goto("loop") /\ UNCHANGED <<transfer, requests>>
     \/ pcm = "disconnected" /\ Fails
  /\ UNCHANGED <<aim, client, power>>

-----------------------------------------------------------------------------
(* What the client does in a callback, on the stream's thread. *)

\* Mutant: a period, whatever was asked for.
Granted_period(n) == {PeriodSize}

\* soundio_int_min(*frame_count, period_size), or what snd_pcm_mmap_begin
\* grants: as much as is there without wrapping around.
Granted(n) ==
  IF access = "rw" THEN {IF n < PeriodSize THEN n ELSE PeriodSize}
                   ELSE {k \in 1..n : k <= Avail}

Accessible == pcm \in {"prepared", "running", "paused"}

\* outstream_begin_write_alsa; an error makes the client return.
BeginWrite(n) ==
  /\ tpc = "callback" /\ Output /\ n \in 1..frame_count_max
  /\ \/ /\ access = "rw" \/ Accessible
        /\ \E k \in Granted(n) : frame_count' = k
        /\ goto("access") /\ UNCHANGED <<priming, frame_count_max>>
     \/ access = "mmap" /\ ~Accessible /\ goto("return") /\ UNCHANGED transfer
  /\ UNCHANGED <<aim, client, requests, hardware, reprepared>>

\* outstream_end_write_alsa: the frames are queued; writing starts a PREPARED
\* stream, as its start threshold is zero, and committing does not.
EndWrite ==
  /\ tpc = "access" /\ Output
  /\ \/ /\ Accessible /\ fill + frame_count <= BufferFrames
        /\ fill' = fill + frame_count
        /\ frame_count_max' = frame_count_max - frame_count /\ frame_count' = 0
        /\ pcm' = IF access = "rw" /\ pcm = "prepared" THEN "running" ELSE pcm
        /\ goto("callback") /\ UNCHANGED priming
     \/ ~Accessible /\ goto("return") /\ UNCHANGED <<pcm, fill, transfer>>
  /\ UNCHANGED <<aim, client, requests, power, reprepared>>

\* instream_begin_read_alsa, up to the access to the PCM.
BeginRead(n) ==
  /\ tpc = "callback" /\ Input /\ n \in 1..frame_count_max
  /\ frame_count' = IF access = "rw" /\ n > PeriodSize THEN PeriodSize ELSE n
  /\ goto("reading")
  /\ UNCHANGED <<aim, client, requests, hardware, reprepared, priming, frame_count_max>>

\* The access.  snd_pcm_readi takes the frames now, starts a PREPARED stream
\* and waits for data; snd_pcm_mmap_begin shows what is there.  After an error
\* the PCM is recovered, and the areas handed out hold what they held before;
\* with mmap they are never set, and what becomes of their use is undefined.
Read ==
  /\ tpc = "reading"
  /\ \/ /\ access = "rw" /\ Accessible /\ fill >= frame_count
        /\ fill' = fill - frame_count /\ goto("access")
        /\ UNCHANGED <<pcm, reprepared, frame_count>>
     \/ /\ access = "rw" /\ pcm = "prepared" /\ pcm' = "running"
        /\ UNCHANGED <<tpc, fill, reprepared, frame_count>>
     \/ access = "rw" /\ xrun_recovery /\ goto("access") /\ UNCHANGED frame_count
     \/ /\ access = "mmap" /\ Accessible
        /\ \E k \in 0..frame_count : k <= fill /\ (fill > 0 => k > 0) /\ frame_count' = k
        /\ goto("access") /\ UNCHANGED <<pcm, fill, reprepared>>
     \/ /\ access = "mmap" /\ xrun_recovery /\ UNCHANGED frame_count
        /\ goto("access") \/ goto("return") \/ goto("crashed")
     \/ pcm = "disconnected" /\ goto("return") /\ UNCHANGED <<pcm, fill, reprepared, frame_count>>
  /\ UNCHANGED <<aim, client, requests, power, priming, frame_count_max>>

\* instream_end_read_alsa: with mmap the frames are taken now, if they are there.
EndRead ==
  /\ tpc = "access" /\ Input
  /\ \/ access = "rw" /\ goto("callback") /\ UNCHANGED <<pcm, fill, reprepared>>
     \/ /\ access = "mmap" /\ Accessible /\ frame_count <= fill
        /\ fill' = fill - frame_count /\ goto("callback") /\ UNCHANGED <<pcm, reprepared>>
     \/ /\ access = "mmap" /\ Accessible /\ frame_count > fill
        /\ \/ pcm # "running" /\ snd_pcm_prepare /\ goto("callback")
           \/ pcm = "running" /\ goto("return") /\ UNCHANGED <<pcm, fill, reprepared>>
     \/ access = "mmap" /\ xrun_recovery /\ goto("callback")
     \/ access = "mmap" /\ pcm = "disconnected" /\ goto("return") /\ UNCHANGED <<pcm, fill, reprepared>>
  /\ frame_count_max' = frame_count_max - frame_count /\ frame_count' = 0
  /\ UNCHANGED <<aim, client, requests, power, priming>>

\* The callback returns; after priming the thread tests its exit flag.
CallbackReturns ==
  /\ tpc \in {"callback", "return"}
  /\ goto(IF priming /\ ~thread_exit_flag THEN "done" ELSE "loop")
  /\ thread_exit_flag' = (priming \/ thread_exit_flag)
  /\ priming' = FALSE /\ frame_count_max' = 0 /\ frame_count' = 0
  /\ UNCHANGED <<aim, client, clear_buffer_flag, exit_pipe, hardware, reprepared>>
-----------------------------------------------------------------------------
(* The client's thread. *)

Rest == <<aim, tpc, transfer, power>>

\* outstream_open_alsa, instream_open_alsa.  Setting the parameters leaves
\* the PCM prepared.  A failure, wherever, destroys what was acquired.
Open ==
  /\ phase = "created"
  /\ clear_buffer_flag' = (Output \/ clear_buffer_flag)
  /\ \E acc \in {"rw", "mmap"} :
       /\ access' = acc
       /\ \/ /\ phase' = "open" /\ pcm' = "prepared"
             /\ held' = {Acquires(acc)[i] : i \in 1..Len(Acquires(acc))}
          \/ phase' = "failed" /\ held' = {} /\ UNCHANGED pcm
  /\ UNCHANGED <<Rest, thread_exit_flag, exit_pipe, is_paused, fill, reprepared>>

\* outstream_start_alsa, instream_start_alsa.
Start ==
  /\ phase = "open" /\ phase' = "started"
  /\ thread_exit_flag' = TRUE /\ goto("loop")
  /\ UNCHANGED <<aim, held, is_paused, access, clear_buffer_flag, exit_pipe, transfer, hardware, reprepared>>

\* There is no thread to be had; capture is destroyed at once.
StartFails ==
  /\ phase = "open" /\ phase' = "failed"
  /\ thread_exit_flag' = TRUE
  /\ IF Input THEN held' = {} /\ pcm' = "none" ELSE UNCHANGED <<held, pcm>>
  /\ UNCHANGED <<Rest, is_paused, access, clear_buffer_flag, exit_pipe, fill, reprepared>>

\* Mutant: the wish is remembered before it is granted.
Pause_optimistic(pause) ==
  /\ phase \in {"open", "started"} /\ is_paused # pause
  /\ is_paused' = pause /\ reprepared' = FALSE
  /\ \/ /\ pcm = (IF pause THEN "running" ELSE "paused")
        /\ pcm' = (IF pause THEN "paused" ELSE "running")
     \/ UNCHANGED pcm
  /\ UNCHANGED <<Rest, phase, held, access, requests, fill>>

\* outstream_pause_alsa, instream_pause_alsa: nothing to do, done, or refused.
Pause(pause) ==
  /\ phase \in {"open", "started"} /\ is_paused # pause
  /\ \/ /\ pcm = (IF pause THEN "running" ELSE "paused")
        /\ pcm' = (IF pause THEN "paused" ELSE "running")
        /\ is_paused' = pause /\ reprepared' = FALSE
     \/ UNCHANGED <<pcm, is_paused, reprepared>>
  /\ UNCHANGED <<Rest, phase, held, access, requests, fill>>

\* outstream_clear_buffer_alsa.
ClearBuffer ==
  /\ phase \in {"open", "started"} /\ Output /\ clear_buffer_flag' = FALSE
  /\ UNCHANGED <<Rest, client, thread_exit_flag, exit_pipe, pcm, fill, reprepared>>

\* Mutant: playback is not woken either.
AskThreadToEnd_quietly ==
  /\ phase = "started" /\ phase' = "joining"
  /\ thread_exit_flag' = FALSE
  /\ UNCHANGED <<Rest, held, is_paused, access, clear_buffer_flag, exit_pipe, pcm, fill, reprepared>>

\* outstream_destroy_alsa, instream_destroy_alsa: ask the thread to end; only
\* a playback thread is woken.
AskThreadToEnd ==
  /\ phase = "started" /\ phase' = "joining"
  /\ thread_exit_flag' = FALSE /\ exit_pipe' = Output
  /\ UNCHANGED <<Rest, held, is_paused, access, clear_buffer_flag, pcm, fill, reprepared>>

\* Mutant: the thread is not waited for.
Destroy_unjoined ==
  /\ phase \in {"created", "open", "failed", "joining"}
  /\ phase' = "destroyed" /\ pcm' = "none"
  /\ held' = held \cap {"exit_pipe"}
  /\ UNCHANGED <<Rest, is_paused, access, requests, fill, reprepared>>

\* Once it has, or if there was none: close and free what was acquired, the
\* exit pipe apart.
Destroy ==
  /\ phase \in {"created", "open", "failed"} \/ (phase = "joining" /\ tpc = "done")
  /\ phase' = "destroyed" /\ pcm' = "none"
  /\ held' = held \cap {"exit_pipe"}
  /\ UNCHANGED <<Rest, is_paused, access, requests, fill, reprepared>>

-----------------------------------------------------------------------------

PCM == Transfer \/ Suspend \/ Wake \/ Unplug

Callback ==
  \/ \E n \in 1..BufferFrames : BeginWrite(n) \/ BeginRead(n)
  \/ EndWrite \/ Read \/ EndRead \/ CallbackReturns

Thread ==
  Dispatch \/ Prepare \/ Prepared \/ WaitForPoll \/ Ready \/ Recover \/ Callback

Client ==
  \/ Open \/ Start \/ StartFails \/ ClearBuffer \/ AskThreadToEnd \/ Destroy
  \/ \E pause \in BOOLEAN : Pause(pause)

Next == PCM \/ Thread \/ PollInterrupted \/ Client

\* The thread is scheduled, and not late for an xrun for ever; callbacks return,
\* a running PCM keeps its pace, the system wakes, a destroy that can go on does.
Fairness ==
  /\ WF_vars(Thread) /\ SF_vars(CallbackReturns)
  /\ SF_vars(pcm = "running" /\ Dispatch)
  /\ SF_vars(pcm = "running" /\ WaitForPoll)
  /\ SF_vars(pcm = "running" /\ Ready)
  /\ WF_vars(Transfer) /\ WF_vars(Wake)
  /\ WF_vars(phase = "joining" /\ Destroy)

Spec == Init /\ [][Next]_vars /\ Fairness

-----------------------------------------------------------------------------

TypeOK ==
  /\ aim \in {"output", "input"} /\ access \in {"rw", "mmap"}
  /\ phase \in {"created", "open", "started", "failed", "joining", "destroyed"}
  /\ held \subseteq Resources
  /\ {thread_exit_flag, clear_buffer_flag, exit_pipe, is_paused, priming, asleep, reprepared}
       \subseteq BOOLEAN
  /\ tpc \in {"none", "loop", "prepare", "prepared", "wait", "ready", "recover", "callback",
              "access", "reading", "return", "done", "crashed"}
  /\ frame_count_max \in 0..BufferFrames /\ frame_count \in 0..BufferFrames
  /\ pcm \in {"none", "setup", "prepared", "running", "paused", "xrun", "suspended", "disconnected"}
  /\ fill \in 0..BufferFrames
  /\ suspended_state \in {"prepared", "running", "paused"}
  /\ suspends \in 0..MaxSuspends

\* What the thread uses is there as long as the thread may use it, although
\* another thread closes and frees it (alsa.c:987-1010, 1567-1589); and a stream
\* that was destroyed has given back all but its exit pipe.
ThreadOwnsStream ==
  /\ TypeOK
  /\ ThreadRuns => held = {Acquires(access)[i] : i \in 1..Len(Acquires(access))}
  /\ phase = "destroyed" => held \subseteq {"exit_pipe"}

\* What a write callback hands over fits: into the sample buffer, which is one
\* period long (alsa.c:1390), and into the ring buffer, so that a blocking
\* snd_pcm_writei never blocks, however pauses, xruns and suspensions fall
\* between the look at the room and the write.
WritesFit ==
  tpc = "access" /\ Output =>
    /\ access = "rw" => frame_count <= PeriodSize
    /\ fill + frame_count <= BufferFrames

\* is_paused, by which pause() decides whether there is anything to do, is
\* right, unless the thread has prepared the PCM anew after a clear request, an
\* xrun or a suspension (alsa.c:1539, 1835).
PauseIsKnown ==
  /\ pcm = "paused" => is_paused
  /\ is_paused => pcm \in {"paused", "setup", "suspended", "disconnected", "none"} \/ reprepared

\* Destroying a stream ends, whatever the thread is waiting for, except when it
\* waits for a paused capture stream: nothing wakes that (alsa.c:1570-1574).
DestroyCompletes ==
  phase = "joining" ~> \/ phase = "destroyed"
                       \/ Input /\ pcm = "paused"
                       \/ tpc = "crashed"

\* No xrun, suspension or clear request is the end of a stream: its callback is
\* called again, unless it is paused or its thread ends.
KeepsCalling ==
  ThreadRuns ~> tpc \in {"callback", "done", "crashed"} \/ pcm = "paused"

\* A clear request is honoured before the stream next runs out, unless the
\* stream is paused or its thread ends.
ClearIsHonoured ==
  Output /\ ~clear_buffer_flag /\ ThreadRuns ~>
    \/ clear_buffer_flag
    \/ pcm = "prepared" /\ fill = 0
    \/ pcm = "paused" \/ ~ThreadRuns
=============================================================================
