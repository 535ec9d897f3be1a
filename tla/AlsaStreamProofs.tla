-------------------------- MODULE AlsaStreamProofs --------------------------
(***************************************************************************)
(* An ALSA stream for every size of buffer and period, and any number of   *)
(* suspensions: the thread never uses what the client's thread has freed,  *)
(* what a callback writes fits, and is_paused can be relied on.            *)
(***************************************************************************)
EXTENDS AlsaStream, TLAPS, SequenceTheorems

\* TypeOK without the frames, a variable at a time.
Flags ==
  /\ thread_exit_flag \in BOOLEAN /\ clear_buffer_flag \in BOOLEAN /\ exit_pipe \in BOOLEAN
  /\ is_paused \in BOOLEAN /\ priming \in BOOLEAN /\ asleep \in BOOLEAN
  /\ reprepared \in BOOLEAN

Places ==
  /\ aim \in {"output", "input"} /\ access \in {"rw", "mmap"}
  /\ phase \in {"created", "open", "started", "failed", "joining", "destroyed"}
  /\ tpc \in {"none", "loop", "prepare", "prepared", "wait", "ready", "recover", "callback",
              "access", "reading", "return", "done", "crashed"}
  /\ pcm \in {"none", "setup", "prepared", "running", "paused", "xrun", "suspended", "disconnected"}
  /\ suspended_state \in {"prepared", "running", "paused"}

\* What a stream that was opened has acquired.
Acquired == {Acquires(access)[i] : i \in 1..Len(Acquires(access))}

\* There is no thread before the stream is started, nor after destroy, which
\* waits for it; until then all that was acquired is held, and the PCM is open.
Lifetimes ==
  /\ phase \in {"created", "open", "failed"} => tpc = "none"
  /\ phase = "destroyed" => tpc \in {"none", "done"}
  /\ phase \in {"open", "started", "joining"} => pcm # "none"
  /\ phase = "created" => pcm = "none"

Holdings ==
  /\ held \subseteq Resources
  /\ phase \in {"open", "started", "joining"} => held = Acquired
  /\ phase = "destroyed" => held \subseteq {"exit_pipe"}

\* There is room for what the callback may still write, and the buffer of a PCM
\* that runs, or will when it is resumed, is neither dry nor full.
Frames ==
  /\ frame_count_max \in 0..BufferFrames /\ frame_count \in 0..BufferFrames
  /\ fill \in 0..BufferFrames
  /\ tpc \in {"access", "reading"} => frame_count <= frame_count_max
  /\ tpc = "reading" => Input
  /\ Output /\ tpc \in {"callback", "access"} => fill + frame_count_max <= BufferFrames
  /\ Output /\ tpc = "access" => frame_count > 0 /\ (access = "rw" => frame_count <= PeriodSize)
  /\ phase = "created" => fill = 0
  /\ Output /\ (\/ pcm \in {"running", "paused"}
                \/ pcm = "suspended" /\ suspended_state # "prepared") => fill > 0
  /\ Input /\ pcm \in {"prepared", "running", "paused", "suspended"} => fill < BufferFrames

\* A suspended PCM remembers whether it was paused.
Pauses ==
  /\ PauseIsKnown
  /\ phase = "created" => ~is_paused
  /\ pcm = "suspended" =>
       /\ suspended_state = "paused" => is_paused
       /\ is_paused => suspended_state = "paused" \/ reprepared

Control == Flags /\ Places /\ Lifetimes /\ suspends \in 0..MaxSuspends
StreamInv == Control /\ Holdings /\ Frames /\ Pauses

-----------------------------------------------------------------------------
LEMMA Typing == Control /\ Holdings /\ Frames => TypeOK
<1> SUFFICES ASSUME Control, Holdings, Frames PROVE TypeOK
  OBVIOUS
<1>1. {thread_exit_flag, clear_buffer_flag, exit_pipe, is_paused, priming, asleep, reprepared}
        \subseteq BOOLEAN
  BY SMT DEF Control, Flags
<1> QED
  BY <1>1, Zenon DEF TypeOK, Control, Places, Holdings, Frames

\* All that the open functions acquire is a resource.
LEMMA AcquiresResources ==
  ASSUME NEW acc
  PROVE  /\ Acquires(acc) \in Seq(Resources)
         /\ {Acquires(acc)[i] : i \in 1..Len(Acquires(acc))} \subseteq Resources
<1> DEFINE buffer == IF acc = "rw" THEN <<"sample_buffer">> ELSE <<>>
           pipe == IF Output THEN <<"exit_pipe">> ELSE <<>>
<1>1. /\ <<"chmap", "handle">> \in Seq(Resources) /\ buffer \in Seq(Resources)
      /\ <<"poll_fds">> \in Seq(Resources) /\ pipe \in Seq(Resources)
  <2>1. <<>> \in Seq(Resources)
    BY EmptySeq
  <2>2. /\ <<"sample_buffer">> \in Seq(Resources) /\ <<"exit_pipe">> \in Seq(Resources)
        /\ <<"poll_fds">> \in Seq(Resources)
    BY SMT DEF Resources
  <2>3. <<"chmap", "handle">> \in Seq(Resources)
    BY SMT DEF Resources
  <2> QED
    BY <2>1, <2>2, <2>3, Zenon
<1> HIDE DEF buffer, pipe
<1>2. <<"chmap", "handle">> \o buffer \in Seq(Resources)
  BY <1>1, ConcatProperties
<1>3. (<<"chmap", "handle">> \o buffer) \o <<"poll_fds">> \in Seq(Resources)
  BY <1>1, <1>2, ConcatProperties
<1>4. ((<<"chmap", "handle">> \o buffer) \o <<"poll_fds">>) \o pipe \in Seq(Resources)
  BY <1>1, <1>3, ConcatProperties
<1>5. Acquires(acc) \in Seq(Resources)
  BY <1>4, Zenon DEF Acquires, buffer, pipe
<1> QED
  BY <1>5, ElementOfSeq

LEMMA InitHolds == Init => StreamInv
<1> SUFFICES ASSUME Init PROVE StreamInv
  OBVIOUS
<1>1. Flags
  BY Zenon DEF Init, Flags
<1>2. Places /\ Lifetimes /\ Holdings
  BY Zenon DEF Init, Places, Lifetimes, Holdings
<1>3. Frames /\ suspends \in 0..MaxSuspends
  BY BufferAssumption, SMT DEF Init, Frames
<1>4. Pauses
  BY Zenon DEF Init, Pauses, PauseIsKnown
<1> QED
  BY <1>1, <1>2, <1>3, <1>4, Zenon DEF StreamInv, Control

-----------------------------------------------------------------------------
\* The flags stay flags; one step per action.
LEMMA FlagsStep == StreamInv /\ [Next]_vars => Flags'
<1> SUFFICES ASSUME StreamInv, [Next]_vars PROVE Flags'
  OBVIOUS
<1> USE  DEF StreamInv, Control, Flags, client, requests, transfer, power, hardware
<1>1. CASE Transfer
  BY <1>1 DEF Transfer, Output
<1>2. CASE Suspend
  <2>1. asleep' \in BOOLEAN
    BY <1>2, Zenon DEF Suspend
  <2> QED
    BY <1>2, <2>1 DEF Suspend
<1>3. CASE Wake
  <2>1. asleep' \in BOOLEAN
    BY <1>3, Zenon DEF Wake
  <2> QED
    BY <1>3, <2>1 DEF Wake
<1>4. CASE Unplug
  BY <1>4 DEF Unplug
<1>5. CASE Dispatch
  BY <1>5 DEF Dispatch, goto
<1>6. CASE Prepare
  <2>1. reprepared' \in BOOLEAN
    BY <1>6, Zenon DEF Prepare, goto, snd_pcm_prepare, Fails
  <2> QED
    BY <1>6, <2>1 DEF Prepare, goto, snd_pcm_prepare, Fails
<1>7. CASE Prepared
  <2>1. priming' \in BOOLEAN
    BY <1>7, Zenon DEF Prepared, goto, Fails, Output
  <2> QED
    BY <1>7, <2>1 DEF Prepared, goto, Fails, Output
<1>8. CASE WaitForPoll
  <2>1. thread_exit_flag' \in BOOLEAN
    BY <1>8, Zenon DEF WaitForPoll, goto, Output
  <2> QED
    BY <1>8, <2>1 DEF WaitForPoll, goto, Output
<1>9. CASE Ready
  <2>1. clear_buffer_flag' \in BOOLEAN /\ priming' \in BOOLEAN
    BY <1>9, Zenon DEF Ready, goto, Fails, ClearRequested, Output
  <2> QED
    BY <1>9, <2>1 DEF Ready, goto, Fails, ClearRequested, Output
<1>10. CASE Recover
  <2>1. reprepared' \in BOOLEAN
    BY <1>10, Zenon DEF Recover, goto, xrun_recovery, snd_pcm_prepare, Fails
  <2> QED
    BY <1>10, <2>1 DEF Recover, goto, xrun_recovery, snd_pcm_prepare, Fails
<1>11. ASSUME NEW n \in 1..BufferFrames, BeginWrite(n) PROVE Flags'
  BY <1>11 DEF BeginWrite, goto, Granted, Output
<1>12. ASSUME NEW n \in 1..BufferFrames, BeginRead(n) PROVE Flags'
  BY <1>12 DEF BeginRead, goto, Input
<1>13. CASE EndWrite
  BY <1>13 DEF EndWrite, goto, Output
<1>14. CASE Read
  <2>1. reprepared' \in BOOLEAN
    BY <1>14, Zenon DEF Read, goto, xrun_recovery, snd_pcm_prepare
  <2> QED
    BY <1>14, <2>1 DEF Read, goto, xrun_recovery, snd_pcm_prepare
<1>15. CASE EndRead
  <2>1. reprepared' \in BOOLEAN
    BY <1>15, Zenon DEF EndRead, goto, xrun_recovery, snd_pcm_prepare, Input
  <2> QED
    BY <1>15, <2>1 DEF EndRead, goto, xrun_recovery, snd_pcm_prepare, Input
<1>16. CASE CallbackReturns
  <2>1. thread_exit_flag' \in BOOLEAN /\ priming' \in BOOLEAN
    BY <1>16, Zenon DEF CallbackReturns, goto
  <2> QED
    BY <1>16, <2>1 DEF CallbackReturns, goto
<1>17. CASE PollInterrupted
  BY <1>17 DEF PollInterrupted, goto, Fails
<1>18. CASE Open
  <2>1. clear_buffer_flag' \in BOOLEAN
    BY <1>18, Zenon DEF Open, Rest, Output
  <2> QED
    BY <1>18, <2>1 DEF Open, Rest, Output
<1>19. CASE Start
  <2>1. thread_exit_flag' \in BOOLEAN
    BY <1>19, Zenon DEF Start, goto
  <2> QED
    BY <1>19, <2>1 DEF Start, goto
<1>20. CASE StartFails
  <2>1. thread_exit_flag' \in BOOLEAN
    BY <1>20, Zenon DEF StartFails, Rest, Input
  <2> QED
    BY <1>20, <2>1 DEF StartFails, Rest, Input
<1>21. CASE ClearBuffer
  <2>1. clear_buffer_flag' \in BOOLEAN
    BY <1>21, Zenon DEF ClearBuffer, Rest, Output
  <2> QED
    BY <1>21, <2>1 DEF ClearBuffer, Rest, Output
<1>22. CASE AskThreadToEnd
  <2>1. thread_exit_flag' \in BOOLEAN /\ exit_pipe' \in BOOLEAN
    BY <1>22, Zenon DEF AskThreadToEnd, Rest, Output
  <2> QED
    BY <1>22, <2>1 DEF AskThreadToEnd, Rest, Output
<1>23. CASE Destroy
  BY <1>23 DEF Destroy, Rest
<1>24. ASSUME NEW pause \in BOOLEAN, Pause(pause) PROVE Flags'
  <2>1. is_paused' \in BOOLEAN /\ reprepared' \in BOOLEAN
    BY <1>24, Zenon DEF Pause, Rest
  <2> QED
    BY <1>24, <2>1 DEF Pause, Rest
<1>25. CASE UNCHANGED vars
  BY <1>25 DEF vars
<1> QED
  BY <1>1, <1>2, <1>3, <1>4, <1>5, <1>6, <1>7, <1>8, <1>9, <1>10, <1>11, <1>12, <1>13,
     <1>14, <1>15, <1>16, <1>17, <1>18, <1>19, <1>20, <1>21, <1>22, <1>23, <1>24, <1>25, Zenon
     DEF Next, PCM, Thread, Callback, Client

\* Where the threads and the PCM can be; one step per action.
LEMMA ControlStep ==
  StreamInv /\ [Next]_vars => (Places /\ Lifetimes /\ suspends \in 0..MaxSuspends)'
<1> SUFFICES ASSUME StreamInv, [Next]_vars
             PROVE  (Places /\ Lifetimes /\ suspends \in 0..MaxSuspends)'
  OBVIOUS
<1> USE BufferAssumption DEF StreamInv, Control, Places, Lifetimes, client, requests, transfer,
        power, hardware
<1>1. CASE Transfer
  BY <1>1 DEF Transfer, Output
<1>2. CASE Suspend
  BY <1>2 DEF Suspend
<1>3. CASE Wake
  BY <1>3 DEF Wake
<1>4. CASE Unplug
  BY <1>4 DEF Unplug
<1>5. CASE Dispatch
  BY <1>5 DEF Dispatch, goto
<1>6. CASE Prepare
  BY <1>6 DEF Prepare, goto, snd_pcm_prepare, Fails
<1>7. CASE Prepared
  BY <1>7 DEF Prepared, goto, Fails, Output
<1>8. CASE WaitForPoll
  BY <1>8 DEF WaitForPoll, goto, Output, snd_pcm_poll
<1>9. CASE Ready
  BY <1>9 DEF Ready, goto, Fails, ClearRequested, Output
<1>10. CASE Recover
  BY <1>10 DEF Recover, goto, xrun_recovery, snd_pcm_prepare, Fails
<1>11. ASSUME NEW n \in 1..BufferFrames, BeginWrite(n)
       PROVE (Places /\ Lifetimes /\ suspends \in 0..MaxSuspends)'
  BY <1>11 DEF BeginWrite, goto, Granted, Output, Accessible
<1>12. ASSUME NEW n \in 1..BufferFrames, BeginRead(n)
       PROVE (Places /\ Lifetimes /\ suspends \in 0..MaxSuspends)'
  BY <1>12 DEF BeginRead, goto, Input
<1>13. CASE EndWrite
  BY <1>13 DEF EndWrite, goto, Accessible, Output
<1>14. CASE Read
  BY <1>14 DEF Read, goto, Accessible, xrun_recovery, snd_pcm_prepare
<1>15. CASE EndRead
  BY <1>15 DEF EndRead, goto, Accessible, xrun_recovery, snd_pcm_prepare, Input
<1>16. CASE CallbackReturns
  BY <1>16 DEF CallbackReturns, goto
<1>17. CASE PollInterrupted
  BY <1>17 DEF PollInterrupted, goto, Fails
<1>18. CASE Open
  BY <1>18 DEF Open, Rest, Output
<1>19. CASE Start
  BY <1>19 DEF Start, goto
<1>20. CASE StartFails
  BY <1>20 DEF StartFails, Rest, Input
<1>21. CASE ClearBuffer
  BY <1>21 DEF ClearBuffer, Rest, Output
<1>22. CASE AskThreadToEnd
  BY <1>22 DEF AskThreadToEnd, Rest, Output
<1>23. CASE Destroy
  BY <1>23 DEF Destroy, Rest
<1>24. ASSUME NEW pause \in BOOLEAN, Pause(pause)
       PROVE (Places /\ Lifetimes /\ suspends \in 0..MaxSuspends)'
  BY <1>24 DEF Pause, Rest
<1>25. CASE UNCHANGED vars
  BY <1>25 DEF vars
<1> QED
  BY <1>1, <1>2, <1>3, <1>4, <1>5, <1>6, <1>7, <1>8, <1>9, <1>10, <1>11, <1>12, <1>13,
     <1>14, <1>15, <1>16, <1>17, <1>18, <1>19, <1>20, <1>21, <1>22, <1>23, <1>24, <1>25, Zenon
     DEF Next, PCM, Thread, Callback, Client

\* The frames; one step per action.
LEMMA FramesStep == StreamInv /\ [Next]_vars => Frames'
<1> SUFFICES ASSUME StreamInv, [Next]_vars PROVE Frames'
  OBVIOUS
<1> USE BufferAssumption DEF StreamInv, Control, Places, Lifetimes, Frames, Output, Input,
        client, requests, transfer, power, hardware
<1>1. CASE Transfer
  <2>1. UNCHANGED <<aim, access, phase, tpc, frame_count_max, frame_count, suspended_state>>
    BY <1>1, Zenon DEF Transfer
  <2>2. CASE Output
    <3>1. /\ pcm = "running" /\ fill' = fill - 1
          /\ pcm' = IF fill' = 0 THEN "xrun" ELSE "running"
      BY <1>1, <2>2, Zenon DEF Transfer
    <3> QED
      BY <2>1, <2>2, <3>1, SMT
  <2>3. CASE Input
    <3>1. /\ pcm = "running" /\ fill' = fill + 1
          /\ pcm' = IF fill' = BufferFrames THEN "xrun" ELSE "running"
      BY <1>1, <2>3, Zenon DEF Transfer
    <3> QED
      BY <2>1, <2>3, <3>1, SMT
  <2> QED
    BY <2>2, <2>3, Zenon
<1>2. CASE Suspend
  BY <1>2 DEF Suspend
<1>3. CASE Wake
  BY <1>3 DEF Wake
<1>4. CASE Unplug
  BY <1>4 DEF Unplug
<1>5. CASE Dispatch
  BY <1>5 DEF Dispatch, goto
<1>6. CASE Prepare
  BY <1>6 DEF Prepare, goto, snd_pcm_prepare, Fails
<1>7. CASE Prepared
  BY <1>7 DEF Prepared, goto, Fails, Avail, Output
<1>8. CASE WaitForPoll
  BY <1>8 DEF WaitForPoll, goto, Output, snd_pcm_poll, Avail
<1>9. CASE Ready
  BY <1>9 DEF Ready, goto, Fails, Avail, ClearRequested, Output
<1>10. CASE Recover
  BY <1>10 DEF Recover, goto, xrun_recovery, snd_pcm_prepare, Fails
<1>11. ASSUME NEW n \in 1..BufferFrames, BeginWrite(n) PROVE Frames'
  BY <1>11 DEF BeginWrite, goto, Granted, Avail, Output, Accessible
<1>12. ASSUME NEW n \in 1..BufferFrames, BeginRead(n) PROVE Frames'
  BY <1>12 DEF BeginRead, goto, Input
<1>13. CASE EndWrite
  BY <1>13 DEF EndWrite, goto, Accessible, Output
<1>14. CASE Read
  BY <1>14 DEF Read, goto, Accessible, xrun_recovery, snd_pcm_prepare
<1>15. CASE EndRead
  BY <1>15 DEF EndRead, goto, Accessible, xrun_recovery, snd_pcm_prepare, Input
<1>16. CASE CallbackReturns
  BY <1>16 DEF CallbackReturns, goto
<1>17. CASE PollInterrupted
  BY <1>17 DEF PollInterrupted, goto, Fails
<1>18. CASE Open
  BY <1>18 DEF Open, Rest, Output
<1>19. CASE Start
  BY <1>19 DEF Start, goto
<1>20. CASE StartFails
  BY <1>20 DEF StartFails, Rest, Input
<1>21. CASE ClearBuffer
  BY <1>21 DEF ClearBuffer, Rest, Output
<1>22. CASE AskThreadToEnd
  BY <1>22 DEF AskThreadToEnd, Rest, Output
<1>23. CASE Destroy
  BY <1>23 DEF Destroy, Rest
<1>24. ASSUME NEW pause \in BOOLEAN, Pause(pause) PROVE Frames'
  BY <1>24 DEF Pause, Rest
<1>25. CASE UNCHANGED vars
  BY <1>25 DEF vars
<1> QED
  BY <1>1, <1>2, <1>3, <1>4, <1>5, <1>6, <1>7, <1>8, <1>9, <1>10, <1>11, <1>12, <1>13,
     <1>14, <1>15, <1>16, <1>17, <1>18, <1>19, <1>20, <1>21, <1>22, <1>23, <1>24, <1>25, Zenon
     DEF Next, PCM, Thread, Callback, Client

\* What is_paused says; one step per action.
LEMMA PausesStep == StreamInv /\ [Next]_vars => Pauses'
<1> SUFFICES ASSUME StreamInv, [Next]_vars PROVE Pauses'
  OBVIOUS
<1> USE  DEF StreamInv, Control, Flags, Places, Lifetimes, Pauses, PauseIsKnown, client,
        requests, transfer, power, hardware
<1>1. CASE Transfer
  BY <1>1 DEF Transfer
<1>2. CASE Suspend
  BY <1>2 DEF Suspend
<1>3. CASE Wake
  BY <1>3 DEF Wake
<1>4. CASE Unplug
  BY <1>4 DEF Unplug
<1>5. CASE Dispatch
  BY <1>5 DEF Dispatch, goto
<1>6. CASE Prepare
  BY <1>6 DEF Prepare, goto, snd_pcm_prepare, Fails
<1>7. CASE Prepared
  BY <1>7 DEF Prepared, goto, Fails, Output
<1>8. CASE WaitForPoll
  BY <1>8 DEF WaitForPoll, goto, Output, snd_pcm_poll
<1>9. CASE Ready
  BY <1>9 DEF Ready, goto, Fails, ClearRequested, Output
<1>10. CASE Recover
  BY <1>10 DEF Recover, goto, xrun_recovery, snd_pcm_prepare, Fails
<1>11. ASSUME NEW n \in 1..BufferFrames, BeginWrite(n) PROVE Pauses'
  BY <1>11 DEF BeginWrite, goto, Granted, Output, Accessible
<1>12. ASSUME NEW n \in 1..BufferFrames, BeginRead(n) PROVE Pauses'
  BY <1>12 DEF BeginRead, goto, Input
<1>13. CASE EndWrite
  BY <1>13 DEF EndWrite, goto, Accessible, Output
<1>14. CASE Read
  <2>1. \/ UNCHANGED <<pcm, reprepared>>
        \/ pcm = "prepared" /\ pcm' = "running" /\ UNCHANGED reprepared
        \/ xrun_recovery
    BY <1>14, Zenon DEF Read
  <2>2. UNCHANGED <<client, suspended_state>>
    BY <1>14, Zenon DEF Read, power
  <2> QED
    BY <2>1, <2>2, Zenon DEF xrun_recovery, snd_pcm_prepare
<1>15. CASE EndRead
  BY <1>15 DEF EndRead, goto, Accessible, xrun_recovery, snd_pcm_prepare, Input
<1>16. CASE CallbackReturns
  BY <1>16 DEF CallbackReturns, goto
<1>17. CASE PollInterrupted
  BY <1>17 DEF PollInterrupted, goto, Fails
<1>18. CASE Open
  BY <1>18 DEF Open, Rest, Output
<1>19. CASE Start
  BY <1>19 DEF Start, goto
<1>20. CASE StartFails
  BY <1>20 DEF StartFails, Rest, Input
<1>21. CASE ClearBuffer
  BY <1>21 DEF ClearBuffer, Rest, Output
<1>22. CASE AskThreadToEnd
  BY <1>22 DEF AskThreadToEnd, Rest, Output
<1>23. CASE Destroy
  BY <1>23 DEF Destroy, Rest
<1>24. ASSUME NEW pause \in BOOLEAN, Pause(pause) PROVE Pauses'
  BY <1>24 DEF Pause, Rest
<1>25. CASE UNCHANGED vars
  BY <1>25 DEF vars
<1> QED
  BY <1>1, <1>2, <1>3, <1>4, <1>5, <1>6, <1>7, <1>8, <1>9, <1>10, <1>11, <1>12, <1>13,
     <1>14, <1>15, <1>16, <1>17, <1>18, <1>19, <1>20, <1>21, <1>22, <1>23, <1>24, <1>25, Zenon
     DEF Next, PCM, Thread, Callback, Client

\* What is held; only open, start's failure and destroy change it.
LEMMA HoldingsStep == StreamInv /\ [Next]_vars => Holdings'
<1> SUFFICES ASSUME StreamInv, [Next]_vars PROVE Holdings'
  OBVIOUS
<1>1. ASSUME UNCHANGED <<aim, access, held>>,
             \/ UNCHANGED phase
             \/ phase = "open" /\ phase' \in {"started", "failed"}
             \/ phase = "started" /\ phase' = "joining"
      PROVE  Holdings'
  <2>1. Acquired' = Acquired
    BY <1>1, Zenon DEF Acquired, Acquires, Output
  <2> QED
    BY <1>1, <2>1, Zenon DEF StreamInv, Holdings
<1>2. CASE Open
  <2>1. PICK acc \in {"rw", "mmap"} :
          /\ access' = acc
          /\ \/ phase' = "open" /\ held' = {Acquires(acc)[i] : i \in 1..Len(Acquires(acc))}
             \/ phase' = "failed" /\ held' = {}
    BY <1>2, Zenon DEF Open
  <2>2. aim' = aim
    BY <1>2, Zenon DEF Open, Rest
  <2>3. CASE phase' = "open"
    <3>1. Acquired' = {Acquires(acc)[i] : i \in 1..Len(Acquires(acc))}
      BY <2>1, <2>2, Zenon DEF Acquired, Acquires, Output
    <3>2. held' = Acquired' /\ held' \subseteq Resources
      BY <2>1, <2>3, <3>1, AcquiresResources, Zenon
    <3> QED
      BY <2>3, <3>2, Zenon DEF Holdings
  <2>4. CASE phase' = "failed"
    BY <2>1, <2>4, Zenon DEF Holdings
  <2> QED
    BY <2>1, <2>3, <2>4, Zenon
<1>3. CASE StartFails
  <2>1. CASE Input
    BY <1>3, <2>1, Zenon DEF StartFails, Holdings
  <2>2. CASE ~Input
    BY <1>3, <2>2, <1>1, Zenon DEF StartFails, Rest
  <2> QED
    BY <2>1, <2>2, Zenon
<1>4. CASE Destroy
  BY <1>4, Zenon DEF Destroy, StreamInv, Holdings
<1>5. CASE Start \/ AskThreadToEnd
  BY <1>5, <1>1, Zenon DEF Start, AskThreadToEnd, Rest
<1>6. CASE ClearBuffer \/ \E pause \in BOOLEAN : Pause(pause)
  BY <1>6, <1>1, Zenon DEF ClearBuffer, Pause, Rest, client
<1>7. CASE PCM
  BY <1>7, <1>1, Zenon DEF PCM, Transfer, Suspend, Wake, Unplug, client
<1>8. CASE Thread \/ PollInterrupted
  BY <1>8, <1>1, Zenon DEF Thread, Dispatch, Prepare, Prepared, WaitForPoll, Ready, Recover,
     Callback, BeginWrite, BeginRead, EndWrite, Read, EndRead, CallbackReturns, PollInterrupted,
     client
<1>9. CASE UNCHANGED vars
  BY <1>9, <1>1, Zenon DEF vars, client
<1> QED
  BY <1>2, <1>3, <1>4, <1>5, <1>6, <1>7, <1>8, <1>9, Zenon DEF Next, Client

LEMMA StreamInvariant == Spec => []StreamInv
<1>1. StreamInv /\ [Next]_vars => StreamInv'
  BY FlagsStep, ControlStep, FramesStep, PausesStep, HoldingsStep, Zenon DEF StreamInv, Control
<1> QED
  BY <1>1, InitHolds, PTL DEF Spec

-----------------------------------------------------------------------------
\* What the thread uses is there as long as the thread may use it, and a destroyed
\* stream has given back all but its exit pipe (alsa.c:987-1010, 1567-1589).
THEOREM StreamOutlivesThread == Spec => []ThreadOwnsStream
<1>1. StreamInv => ThreadOwnsStream
  <2> SUFFICES ASSUME StreamInv PROVE ThreadOwnsStream
    OBVIOUS
  <2>1. TypeOK
    BY Typing, Zenon DEF StreamInv
  <2>2. ASSUME ThreadRuns PROVE phase \in {"started", "joining"}
    BY <2>2, Zenon DEF ThreadRuns, StreamInv, Control, Places, Lifetimes
  <2> QED
    BY <2>1, <2>2, Zenon DEF StreamInv, Holdings, ThreadOwnsStream, Acquired
<1> QED
  BY <1>1, StreamInvariant, PTL

\* What a write callback hands over fits into the sample buffer and into the ring
\* buffer, for every size of either, whatever happens to the PCM between the
\* look at the room and the write (alsa.c:1390, 1164, 1501).
THEOREM WritesAlwaysFit == Spec => []WritesFit
<1>1. StreamInv => WritesFit
  BY BufferAssumption, SMT DEF StreamInv, Frames, WritesFit
<1> QED
  BY <1>1, StreamInvariant, PTL

\* is_paused is right unless the PCM was prepared anew (alsa.c:1539, 1835).
THEOREM PauseStateIsKnown == Spec => []PauseIsKnown
<1>1. StreamInv => PauseIsKnown
  BY Zenon DEF StreamInv, Pauses
<1> QED
  BY <1>1, StreamInvariant, PTL
=============================================================================
