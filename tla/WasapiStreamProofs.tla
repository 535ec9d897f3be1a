------------------------- MODULE WasapiStreamProofs -------------------------
(***************************************************************************)
(* What the two threads of a WASAPI stream share outlives the thread that  *)
(* uses it, and captured packets are read whole, whatever the device and   *)
(* the client do and however large packets are.                            *)
(***************************************************************************)
EXTENDS WasapiStream, TLAPS

\* TypeOK without the packet's frames, a variable at a time.
Flags ==
  /\ aim \in {"output", "input"}
  /\ is_raw \in BOOLEAN /\ held \in BOOLEAN /\ lost \in BOOLEAN /\ running \in BOOLEAN
  /\ open_complete \in BOOLEAN /\ open_err \in BOOLEAN /\ started \in BOOLEAN
  /\ start_signalled \in BOOLEAN /\ ran \in BOOLEAN /\ h_event \in BOOLEAN
  /\ thread_exit_flag \in BOOLEAN /\ pause_resume_flag \in BOOLEAN
  /\ clear_buffer_flag \in BOOLEAN /\ desired_pause_state \in BOOLEAN /\ is_paused \in BOOLEAN

Places ==
  /\ phase \in {"created", "opening", "open", "started", "failed", "ending", "destroyed"}
  /\ cpc \in {"idle", "pause_flag", "pause_wake", "ask", "wake", "join"}
  /\ tpc \in {"none", "open", "start?", "wait_start", "prime", "first_callback", "start_audio",
              "wait", "clear?", "pause?", "pause", "poll", "callback", "done"}
  /\ com \in {"none", "held", "released"}

\* Where the client's thread can be in which phase; there is no thread to wait
\* for in the phases in which destroy does not wait for it; and a thread
\* beyond its opening holds the COM objects until it is done.
Lifetimes ==
  /\ cpc \in {"pause_flag", "pause_wake"} => phase \in {"open", "started"}
  /\ cpc = "ask" => phase = "failed"
  /\ cpc \in {"wake", "join"} => phase = "ending"
  /\ phase = "created" \/ (phase = "failed" /\ cpc = "idle") => tpc = "none"
  /\ phase = "destroyed" => tpc \in {"none", "done"}
  /\ tpc \notin {"none", "done"} => held
  /\ tpc \notin {"none", "open", "done"} => com = "held"
  /\ tpc = "done" /\ ran => com = "released"

\* The packet's frames; a device that is lost takes nothing back.
Frames ==
  /\ packet \in 0..MaxPacket /\ opened_buf_frames \in 0..MaxPacket
  /\ read_buf_frames_left \in 0..MaxPacket /\ read_frame_count \in 0..MaxPacket
  /\ read_frame_count <= read_buf_frames_left
  /\ ~lost => packet = (IF read_buf_frames_left > 0 THEN opened_buf_frames ELSE 0)

StreamInv == Flags /\ Places /\ Lifetimes /\ Frames

-----------------------------------------------------------------------------
LEMMA Typing == Flags /\ Places /\ Frames => TypeOK
<1> SUFFICES ASSUME Flags, Places, Frames PROVE TypeOK
  OBVIOUS
<1>1. {is_raw, held, lost, running, open_complete, open_err, started, start_signalled, ran, h_event,
       thread_exit_flag, pause_resume_flag, clear_buffer_flag, desired_pause_state, is_paused}
        \subseteq BOOLEAN
  BY SMT DEF Flags
<1>2. {packet, opened_buf_frames, read_buf_frames_left, read_frame_count} \subseteq 0..MaxPacket
  BY SMT DEF Frames
<1> QED
  BY <1>1, <1>2, Zenon DEF TypeOK, Flags, Places

LEMMA InitHolds == Init => StreamInv
<1> SUFFICES ASSUME Init PROVE StreamInv
  OBVIOUS
<1>1. Flags
  BY Zenon DEF Init, Flags
<1>2. Places /\ Lifetimes
  BY Zenon DEF Init, Places, Lifetimes
<1>3. Frames
  BY PacketAssumption, SMT DEF Init, Frames
<1> QED
  BY <1>1, <1>2, <1>3, Zenon DEF StreamInv

-----------------------------------------------------------------------------
\* A step other than of a read leaves the packet's frames alone, and a lost
\* device stays lost.
LEMMA FramesKept ==
  ASSUME StreamInv, UNCHANGED capture, lost => lost'
  PROVE  Frames'
BY SMT DEF StreamInv, Frames, capture

LEMMA FramesStep == StreamInv /\ [Next]_vars => Frames'
<1> SUFFICES ASSUME StreamInv, [Next]_vars PROVE Frames'
  OBVIOUS
<1>1. ASSUME NEW n \in 1..MaxPacket, BeginRead(n) PROVE Frames'
  BY <1>1, PacketAssumption, SMT DEF BeginRead, device, StreamInv, Frames
<1>2. CASE EndRead
  BY <1>2, PacketAssumption, SMT DEF EndRead, device, StreamInv, Frames
<1>3. CASE DeviceLost \/ DeviceEvent
  BY <1>3, FramesKept DEF DeviceLost, DeviceEvent, device
<1>4. CASE Thread
  BY <1>4, FramesKept DEF Thread, DoOpen, AwaitStart, Prime, StartAudio, Wait, TakeClear,
     TakePause, ApplyPause, Poll, Fails, Deinit, device
<1>5. CASE CallbackReturns
  BY <1>5, FramesKept DEF CallbackReturns, device
<1>6. CASE Calls
  BY <1>6, FramesKept DEF Calls, OpenCompletes, PauseFlag, PauseWake, AskThreadToEnd,
     WakeThread, Destroy, device
<1>7. CASE Client
  BY <1>7, FramesKept DEF Client, Open, Start, ClearBuffer, PauseStore, PauseInput, device
<1>8. CASE UNCHANGED vars
  BY <1>8, FramesKept DEF vars, device
<1> QED
  BY <1>1, <1>2, <1>3, <1>4, <1>5, <1>6, <1>7, <1>8, Zenon DEF Next, Reads

\* The flags stay flags; one step per action.
LEMMA FlagsStep == StreamInv /\ [Next]_vars => Flags'
<1> SUFFICES ASSUME StreamInv, [Next]_vars PROVE Flags'
  OBVIOUS
<1> USE DEF StreamInv, Flags, kind, handshake, flags, device
<1>1. CASE DeviceLost
  BY <1>1 DEF DeviceLost
<1>2. CASE DeviceEvent
  BY <1>2 DEF DeviceEvent
<1>3. CASE DoOpen
  <2>1. open_complete' \in BOOLEAN /\ open_err' \in BOOLEAN
    BY <1>3, Zenon DEF DoOpen
  <2> QED
    BY <1>3, <2>1 DEF DoOpen
<1>4. CASE AwaitStart
  <2>1. /\ ran' \in BOOLEAN
        /\ thread_exit_flag' \in BOOLEAN /\ start_signalled' \in BOOLEAN
    BY <1>4, Zenon DEF AwaitStart
  <2>2. UNCHANGED <<kind, held, device, open_complete, open_err, started, h_event,
                    pause_resume_flag, clear_buffer_flag, desired_pause_state, is_paused>>
    BY <1>4, Zenon DEF AwaitStart
  <2> QED
    BY <2>1, <2>2
<1>5. CASE Prime
  BY <1>5 DEF Prime, Deinit
<1>6. CASE StartAudio
  <2>1. running' \in BOOLEAN
    BY <1>6, Zenon DEF StartAudio, Fails, Deinit
  <2> QED
    BY <1>6, <2>1 DEF StartAudio, Fails, Deinit
<1>7. CASE Wait
  <2>1. h_event' \in BOOLEAN /\ thread_exit_flag' \in BOOLEAN
    BY <1>7, Zenon DEF Wait, Fails, Deinit, Input, Output
  <2> QED
    BY <1>7, <2>1 DEF Wait, Fails, Deinit, Input, Output
<1>8. CASE TakeClear
  <2>1. /\ running' \in BOOLEAN /\ is_paused' \in BOOLEAN
        /\ pause_resume_flag' \in BOOLEAN /\ clear_buffer_flag' \in BOOLEAN
    BY <1>8, Zenon DEF TakeClear, Fails, Deinit
  <2> QED
    BY <1>8, <2>1 DEF TakeClear, Fails, Deinit
<1>9. CASE TakePause
  BY <1>9 DEF TakePause
<1>10. CASE ApplyPause
  BY <1>10 DEF ApplyPause, Fails, Deinit
<1>11. CASE Poll
  BY <1>11 DEF Poll, Fails, Deinit
<1>12. CASE CallbackReturns
  BY <1>12 DEF CallbackReturns
<1>13. ASSUME NEW n \in 1..MaxPacket, BeginRead(n) PROVE Flags'
  BY <1>13 DEF BeginRead
<1>14. CASE EndRead
  BY <1>14 DEF EndRead
<1>15. CASE OpenCompletes
  BY <1>15 DEF OpenCompletes
<1>16. CASE PauseFlag
  <2>1. pause_resume_flag' \in BOOLEAN
    BY <1>16, Zenon DEF PauseFlag
  <2> QED
    BY <1>16, <2>1 DEF PauseFlag
<1>17. CASE PauseWake
  BY <1>17 DEF PauseWake
<1>18. CASE AskThreadToEnd
  <2>1. thread_exit_flag' \in BOOLEAN
    BY <1>18, Zenon DEF AskThreadToEnd
  <2> QED
    BY <1>18, <2>1 DEF AskThreadToEnd
<1>19. CASE WakeThread
  BY <1>19 DEF WakeThread, SignalStart
<1>20. CASE Destroy
  <2>1. held' \in BOOLEAN
    BY <1>20, Zenon DEF Destroy
  <2> QED
    BY <1>20, <2>1 DEF Destroy
<1>21. CASE Open
  <2>1. /\ held' \in BOOLEAN /\ thread_exit_flag' \in BOOLEAN
        /\ pause_resume_flag' \in BOOLEAN /\ clear_buffer_flag' \in BOOLEAN
    BY <1>21, Zenon DEF Open
  <2> QED
    BY <1>21, <2>1 DEF Open
<1>22. CASE Start
  BY <1>22 DEF Start, SignalStart
<1>23. CASE ClearBuffer
  <2>1. clear_buffer_flag' \in BOOLEAN
    BY <1>23, Zenon DEF ClearBuffer
  <2> QED
    BY <1>23, <2>1 DEF ClearBuffer
<1>24. ASSUME NEW pause \in BOOLEAN, PauseStore(pause) PROVE Flags'
  BY <1>24 DEF PauseStore
<1>25. ASSUME NEW pause \in BOOLEAN, PauseInput(pause) PROVE Flags'
  BY <1>25 DEF PauseInput
<1>26. CASE UNCHANGED vars
  BY <1>26 DEF vars
<1> QED
  BY <1>1, <1>2, <1>3, <1>4, <1>5, <1>6, <1>7, <1>8, <1>9, <1>10, <1>11, <1>12, <1>13,
     <1>14, <1>15, <1>16, <1>17, <1>18, <1>19, <1>20, <1>21, <1>22, <1>23, <1>24, <1>25,
     <1>26, Zenon
     DEF Next, Thread, Reads, Calls, Client

\* Where the two threads are, and what they hold; one step per action.
LEMMA LifetimesStep == StreamInv /\ [Next]_vars => (Places /\ Lifetimes)'
<1> SUFFICES ASSUME StreamInv, [Next]_vars PROVE (Places /\ Lifetimes)'
  OBVIOUS
<1> USE DEF StreamInv, Flags, Places, Lifetimes, kind, handshake, flags, device
<1>1. CASE DeviceLost
  BY <1>1 DEF DeviceLost
<1>2. CASE DeviceEvent
  BY <1>2 DEF DeviceEvent
<1>3. CASE DoOpen
  BY <1>3 DEF DoOpen, goto
<1>4. CASE AwaitStart
  BY <1>4 DEF AwaitStart, goto, Output
<1>5. CASE Prime
  BY <1>5 DEF Prime, goto, Deinit
<1>6. CASE StartAudio
  BY <1>6 DEF StartAudio, goto, Fails, Deinit
<1>7. CASE Wait
  BY <1>7 DEF Wait, goto, Fails, Deinit, Input, Output
<1>8. CASE TakeClear
  BY <1>8 DEF TakeClear, goto, Fails, Deinit
<1>9. CASE TakePause
  BY <1>9 DEF TakePause, goto
<1>10. CASE ApplyPause
  BY <1>10 DEF ApplyPause, goto, Fails, Deinit
<1>11. CASE Poll
  BY <1>11 DEF Poll, goto, Fails, Deinit
<1>12. CASE CallbackReturns
  BY <1>12 DEF CallbackReturns, goto
<1>13. ASSUME NEW n \in 1..MaxPacket, BeginRead(n) PROVE (Places /\ Lifetimes)'
  BY <1>13 DEF BeginRead
<1>14. CASE EndRead
  BY <1>14 DEF EndRead
<1>15. CASE OpenCompletes
  BY <1>15 DEF OpenCompletes
<1>16. CASE PauseFlag
  BY <1>16 DEF PauseFlag
<1>17. CASE PauseWake
  BY <1>17 DEF PauseWake
<1>18. CASE AskThreadToEnd
  BY <1>18 DEF AskThreadToEnd
<1>19. CASE WakeThread
  BY <1>19 DEF WakeThread, SignalStart
<1>20. CASE Destroy
  BY <1>20 DEF Destroy, ThreadRuns
<1>21. CASE Open
  BY <1>21 DEF Open, goto
<1>22. CASE Start
  BY <1>22 DEF Start, SignalStart
<1>23. CASE ClearBuffer
  BY <1>23 DEF ClearBuffer
<1>24. ASSUME NEW pause \in BOOLEAN, PauseStore(pause) PROVE (Places /\ Lifetimes)'
  BY <1>24 DEF PauseStore
<1>25. ASSUME NEW pause \in BOOLEAN, PauseInput(pause) PROVE (Places /\ Lifetimes)'
  BY <1>25 DEF PauseInput
<1>26. CASE UNCHANGED vars
  BY <1>26 DEF vars
<1> QED
  BY <1>1, <1>2, <1>3, <1>4, <1>5, <1>6, <1>7, <1>8, <1>9, <1>10, <1>11, <1>12, <1>13,
     <1>14, <1>15, <1>16, <1>17, <1>18, <1>19, <1>20, <1>21, <1>22, <1>23, <1>24, <1>25,
     <1>26, Zenon
     DEF Next, Thread, Reads, Calls, Client

LEMMA StreamInvariant == Spec => []StreamInv
<1>1. StreamInv /\ [Next]_vars => StreamInv'
  BY FramesStep, FlagsStep, LifetimesStep, Zenon DEF StreamInv
<1> QED
  BY <1>1, InitHolds, PTL DEF Spec

-----------------------------------------------------------------------------
\* The mutex, the conditions and the event outlive the thread of the stream, and
\* a thread that ran has released its COM objects when it ends
\* (wasapi.c:1551-1554, 1166-1193).
THEOREM StreamOutlivesThread == Spec => []ThreadOwnsStream
<1>1. StreamInv => ThreadOwnsStream
  BY Typing, Zenon DEF StreamInv, Lifetimes, ThreadOwnsStream, ThreadRuns
<1> QED
  BY <1>1, StreamInvariant, PTL

\* A packet is given back when all its frames were handed out and not before,
\* for every size of packet and of read (wasapi.c:2106-2160).
THEOREM PacketsWhole == Spec => []PacketsAreReadWhole
<1>1. StreamInv => PacketsAreReadWhole
  BY Zenon DEF StreamInv, Frames, PacketsAreReadWhole
<1> QED
  BY <1>1, StreamInvariant, PTL
=============================================================================
