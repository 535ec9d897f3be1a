-------------------------- MODULE PulseStreamProofs --------------------------
(***************************************************************************)
(* A PulseAudio stream, for every size of fragment and number of frames:   *)
(* unless a pause was refused the main loop's lock keeps callbacks apart,  *)
(* and every recorded frame is read once, in order.                        *)
(***************************************************************************)
EXTENDS PulseStream, TLAPS, SequenceTheorems

\* TypeOK without the frames, a variable at a time.
Flags ==
  /\ signalled \in BOOLEAN /\ corked \in BOOLEAN /\ stream_ready \in BOOLEAN
  /\ registered \in BOOLEAN /\ clear_buffer_flag \in BOOLEAN /\ leaked \in BOOLEAN
  /\ peek_buf \in BOOLEAN

Places ==
  /\ aim \in {"output", "input"}
  /\ phase \in {"created", "open", "started", "failed", "destroyed"}
  /\ cpc \in {"idle", "wait_ready", "wait_op", "write"}
  /\ mpc \in {"idle", "write", "read", "error", "aborted"}
  /\ state \in {"none", "unconnected", "creating", "ready", "failed"}
  /\ op \in {"none", "running", "done", "cancelled"}

\* Who holds the main loop's lock, and how often.  A refused pause can only take
\* the lock from a callback that reports an error, or leave a recording stream's
\* client with it.
LockIsKnown ==
  /\ owner \in {"none", "client", "main"} /\ depth \in 0..MaxDepth
  /\ owner = "none" <=> depth = 0
  /\ owner = "main" => mpc \in {"write", "read", "error"} /\ depth = 1 /\ state # "none"
  /\ mpc \in {"write", "read", "error"} /\ ~leaked => owner = "main"
  /\ mpc \in {"write", "read"} => owner = "main" /\ state = "ready"
  /\ mpc = "read" => Input
  /\ cpc = "write" => Output /\ owner = "client" /\ depth = 1
  /\ owner = "client" /\ cpc # "write" => Input /\ leaked
  /\ phase = "destroyed" => cpc = "idle" /\ state = "none"

Fragment == [frames : 1..MaxFragment, hole : BOOLEAN]

\* Where in the recording the fragments begin and end: one after the other, from
\* the last frame dropped to the last one recorded.
PositionsAre(f) ==
  /\ f[0] = dropped /\ f[Len(fragments)] = recorded
  /\ \A i \in 1..Len(fragments) : f[i] = f[i - 1] + fragments[i].frames
  /\ \A i, j \in 0..Len(fragments) : i <= j => f[i] <= f[j]

FragmentsAreQueued ==
  phase # "destroyed" => \E f \in [0..Len(fragments) -> 0..MaxFrames] : PositionsAre(f)

Counts ==
  /\ frame_count_max \in -1..MaxFrames /\ requested \in 0..MaxFrames /\ granted \in 0..MaxFrames
  /\ fragments \in Seq(Fragment)
  /\ peek_buf_index \in 0..MaxFrames /\ peek_buf_frames_left \in 0..MaxFrames
  /\ read_frame_count \in 0..MaxFrames
  /\ recorded \in 0..MaxFrames /\ delivered \in 0..MaxFrames /\ dropped \in 0..MaxFrames
  /\ dropped <= recorded /\ dropped <= delivered /\ delivered <= recorded

\* What was granted, and is not taken yet, is part of what may be transferred;
\* in a read callback all that is unread may be, and what was granted is a
\* whole hole or a part of the fragment being read.
Grants ==
  /\ granted # 0 => mpc \in {"write", "read"} \/ cpc = "write"
  /\ granted # 0 => granted <= frame_count_max
  /\ mpc = "read" => recorded - delivered <= frame_count_max
  /\ mpc = "read" /\ granted # 0 =>
       IF peek_buf THEN granted = read_frame_count /\ granted <= peek_buf_frames_left
                   ELSE fragments # <<>> /\ granted = Head(fragments).frames

Control == Flags /\ Places /\ LockIsKnown
Data == Counts /\ FragmentsAreQueued /\ Grants /\ FramesAreReadOnce
StreamInv == Control /\ Data

-----------------------------------------------------------------------------
LEMMA Typing == Control /\ Counts => TypeOK
<1> SUFFICES ASSUME Control, Counts PROVE TypeOK
  OBVIOUS
<1>1. {signalled, corked, stream_ready, registered, clear_buffer_flag, leaked, peek_buf}
        \subseteq BOOLEAN
  BY SMT DEF Control, Flags
<1>2. {peek_buf_index, peek_buf_frames_left, read_frame_count, recorded, delivered, dropped}
        \subseteq 0..MaxFrames
  BY SMT DEF Counts
<1>3. (owner = "none") = (depth = 0)
  BY Zenon DEF Control, LockIsKnown
<1> QED
  BY <1>1, <1>2, <1>3, Zenon DEF TypeOK, Control, Places, LockIsKnown, Counts, Fragment

LEMMA InitHolds == Init => StreamInv
<1> SUFFICES ASSUME Init PROVE StreamInv
  OBVIOUS
<1>1. Flags
  BY Zenon DEF Init, Flags
<1>2. Places
  BY Zenon DEF Init, Places
<1>3. LockIsKnown
  BY SizeAssumption, SMT DEF Init, LockIsKnown
<1>4. Counts /\ Grants
  <2>1. fragments \in Seq(Fragment)
    BY EmptySeq, Zenon DEF Init
  <2> QED
    BY <2>1, SizeAssumption, SMT DEF Init, Counts, Grants
<1>5. FragmentsAreQueued
  <2> DEFINE f == [i \in 0..0 |-> 0]
  <2>1. Len(fragments) = 0
    BY EmptySeq, Zenon DEF Init
  <2>2. f \in [0..0 -> 0..MaxFrames]
    BY SizeAssumption, SMT
  <2>3. PositionsAre(f)
    BY <2>1, SMT DEF PositionsAre, Init
  <2> QED
    BY <2>1, <2>2, <2>3, Zenon DEF FragmentsAreQueued
<1>6. FramesAreReadOnce
  BY SMT DEF Init, FramesAreReadOnce
<1> QED
  BY <1>1, <1>2, <1>3, <1>4, <1>5, <1>6, Zenon DEF StreamInv, Control, Data

-----------------------------------------------------------------------------
\* The flags stay flags; one step per action.
LEMMA FlagsStep == StreamInv /\ [Next]_vars => Flags'
<1> SUFFICES ASSUME StreamInv, [Next]_vars PROVE Flags'
  OBVIOUS
<1> USE DEF StreamInv, Control, Flags, lock, stream, reading, server, transfer, data, client
<1>1. CASE OpenOutput
  <2>1. /\ signalled' \in BOOLEAN /\ corked' \in BOOLEAN
        /\ stream_ready' \in BOOLEAN /\ clear_buffer_flag' \in BOOLEAN
    BY <1>1, Zenon DEF OpenOutput, Output, ClientLeaves, CanLock, LockAs, ClientWaitsAt
  <2> QED
    BY <1>1, <2>1 DEF OpenOutput, Output, ClientLeaves, CanLock, LockAs, ClientWaitsAt
<1>2. CASE OpenInput
  <2>1. stream_ready' \in BOOLEAN /\ registered' \in BOOLEAN
    BY <1>2, Zenon DEF OpenInput, Input, ClientLeaves, CanLock, LockAs
  <2> QED
    BY <1>2, <2>1 DEF OpenInput, Input, ClientLeaves, CanLock, LockAs
<1>3. CASE StartInput
  <2>1. signalled' \in BOOLEAN
    BY <1>3, Zenon DEF StartInput, Input, ClientLeaves, CanLock, LockAs, ClientWaitsAt
  <2> QED
    BY <1>3, <2>1 DEF StartInput, Input, ClientLeaves, CanLock, LockAs, ClientWaitsAt
<1>4. CASE WaitReady
  <2>1. signalled' \in BOOLEAN
    BY <1>4, Zenon DEF WaitReady, ClientLeaves, CanLock, LockAs, ClientWaitsAt
  <2> QED
    BY <1>4, <2>1 DEF WaitReady, ClientLeaves, CanLock, LockAs, ClientWaitsAt
<1>5. CASE WaitOp
  <2>1. signalled' \in BOOLEAN
    BY <1>5, Zenon DEF WaitOp, ClientLeaves, CanLock, LockAs, ClientWaitsAt, Output
  <2> QED
    BY <1>5, <2>1 DEF WaitOp, ClientLeaves, CanLock, LockAs, ClientWaitsAt, Output
<1>6. CASE StartOutput
  BY <1>6 DEF StartOutput, CanLock, LockAs, Output
<1>7. CASE StartUncorks
  <2>1. corked' \in BOOLEAN /\ registered' \in BOOLEAN
    BY <1>7, Zenon DEF StartUncorks, LockAs
  <2> QED
    BY <1>7, <2>1 DEF StartUncorks, LockAs
<1>8. ASSUME NEW pause \in BOOLEAN, Pause(pause) PROVE Flags'
  <2>1. corked' \in BOOLEAN /\ leaked' \in BOOLEAN
    BY <1>8, Zenon DEF Pause, Corks, CorkRefused, ClientLeaves, CanLock, LockAs, Output, Input
  <2> QED
    BY <1>8, <2>1 DEF Pause, Corks, CorkRefused, ClientLeaves, CanLock, LockAs, Output, Input
<1>9. ASSUME NEW pause \in BOOLEAN, PauseInCallback(pause) PROVE Flags'
  <2>1. corked' \in BOOLEAN /\ leaked' \in BOOLEAN
    BY <1>9, Zenon DEF PauseInCallback, Corks, CorkRefused, InCallback, LockAs, Output, Input
  <2> QED
    BY <1>9, <2>1 DEF PauseInCallback, Corks, CorkRefused, InCallback, LockAs, Output, Input
<1>10. CASE ClearBuffer
  <2>1. clear_buffer_flag' \in BOOLEAN
    BY <1>10, Zenon DEF ClearBuffer
  <2> QED
    BY <1>10, <2>1 DEF ClearBuffer
<1>11. CASE Destroy
  <2>1. registered' \in BOOLEAN
    BY <1>11, Zenon DEF Destroy, ClientLeaves, CanLock, LockAs
  <2> QED
    BY <1>11, <2>1 DEF Destroy, ClientLeaves, CanLock, LockAs
<1>12. CASE StreamReady
  <2>1. stream_ready' \in BOOLEAN /\ signalled' \in BOOLEAN
    BY <1>12, Zenon DEF StreamReady, Dispatches, Signal, ClientWaits
  <2> QED
    BY <1>12, <2>1 DEF StreamReady, Dispatches, Signal, ClientWaits
<1>13. CASE StreamFails
  <2>1. signalled' \in BOOLEAN
    BY <1>13, Zenon DEF StreamFails, Dispatches, Enter, LockAs, Signal, ClientWaits
  <2> QED
    BY <1>13, <2>1 DEF StreamFails, Dispatches, Enter, LockAs, Signal, ClientWaits
<1>14. CASE TimingUpdate
  BY <1>14 DEF TimingUpdate, Dispatches, Signal, ClientWaits
<1>15. CASE OtherSignal
  BY <1>15 DEF OtherSignal, Dispatches, Signal, ClientWaits
<1>16. CASE WriteCallback
  BY <1>16 DEF WriteCallback, Dispatches, Enter, LockAs, Output
<1>17. CASE ReadCallback
  BY <1>17 DEF ReadCallback, Dispatches, Enter, LockAs, Input
<1>18. CASE CallbackReturns
  BY <1>18 DEF CallbackReturns, InCallback, LockAs
<1>19. ASSUME NEW n \in 1..MaxFrames, BeginWrite(n) PROVE Flags'
  BY <1>19 DEF BeginWrite
<1>20. CASE EndWrite
  <2>1. clear_buffer_flag' \in BOOLEAN
    BY <1>20, Zenon DEF EndWrite
  <2> QED
    BY <1>20, <2>1 DEF EndWrite
<1>21. ASSUME NEW n \in 1..MaxFrames, BeginRead(n) PROVE Flags'
  <2>1. peek_buf' \in BOOLEAN
    BY <1>21, Zenon DEF BeginRead
  <2> QED
    BY <1>21, <2>1 DEF BeginRead
<1>22. CASE EndRead
  <2>1. peek_buf' \in BOOLEAN
    BY <1>22, Zenon DEF EndRead, Drop
  <2> QED
    BY <1>22, <2>1 DEF EndRead, Drop
<1>23. CASE UNCHANGED vars
  BY <1>23 DEF vars
<1> QED
  BY <1>1, <1>2, <1>3, <1>4, <1>5, <1>6, <1>7, <1>8, <1>9, <1>10, <1>11, <1>12, <1>13,
     <1>14, <1>15, <1>16, <1>17, <1>18, <1>19, <1>20, <1>21, <1>22, <1>23, Zenon
     DEF Next, Client, Wait, MainLoop, Events, Callbacks

\* Where the threads are and who holds the lock; one step per action.
LEMMA ControlStep == StreamInv /\ [Next]_vars => (Places /\ LockIsKnown)'
<1> SUFFICES ASSUME StreamInv, [Next]_vars PROVE (Places /\ LockIsKnown)'
  OBVIOUS
<1> USE SizeAssumption DEF StreamInv, Control, Flags, Places, LockIsKnown, Output, Input,
           lock, stream, reading, server, transfer, data, client
<1>1. CASE OpenOutput
  BY <1>1 DEF OpenOutput, ClientLeaves, CanLock, LockAs, ClientWaitsAt
<1>2. CASE OpenInput
  BY <1>2 DEF OpenInput, ClientLeaves, CanLock, LockAs
<1>3. CASE StartInput
  BY <1>3 DEF StartInput, ClientLeaves, CanLock, LockAs, ClientWaitsAt
<1>4. CASE WaitReady
  <2>1. owner \in {"none", "client"} /\ UNCHANGED <<owner, depth>>
    BY <1>4 DEF WaitReady, ClientLeaves, CanLock, LockAs
  <2>2. /\ cpc \in {"wait_ready", "wait_op"} /\ cpc' \in {"idle", "wait_ready", "wait_op"}
        /\ phase' \in {phase, "failed", "open", "started"}
        /\ op' \in {op, "none", "running"}
        /\ UNCHANGED <<aim, mpc, state, leaked>>
    BY <1>4, Zenon DEF WaitReady, ClientWaitsAt
  <2> QED
    BY <2>1, <2>2
<1>5. CASE WaitOp
  <2>1. owner \in {"none", "client"} /\ UNCHANGED <<owner, depth>>
    BY <1>5 DEF WaitOp, ClientLeaves, CanLock, LockAs
  <2>2. /\ cpc \in {"wait_ready", "wait_op"} /\ cpc' \in {"idle", "wait_ready", "wait_op"}
        /\ phase' \in {phase, "failed", "open", "started"}
        /\ op' \in {op, "none", "running"}
        /\ UNCHANGED <<aim, mpc, state, leaked>>
    BY <1>5, Zenon DEF WaitOp, ClientWaitsAt
  <2> QED
    BY <2>1, <2>2
<1>6. CASE StartOutput
  BY <1>6 DEF StartOutput, CanLock, LockAs
<1>7. CASE StartUncorks
  BY <1>7 DEF StartUncorks, LockAs
<1>8. ASSUME NEW pause \in BOOLEAN, Pause(pause) PROVE (Places /\ LockIsKnown)'
  BY <1>8 DEF Pause, Corks, CorkRefused, ClientLeaves, CanLock, LockAs
<1>9. ASSUME NEW pause \in BOOLEAN, PauseInCallback(pause) PROVE (Places /\ LockIsKnown)'
  BY <1>9 DEF PauseInCallback, Corks, CorkRefused, InCallback, LockAs
<1>10. CASE ClearBuffer
  BY <1>10 DEF ClearBuffer
<1>11. CASE Destroy
  BY <1>11 DEF Destroy, ClientLeaves, CanLock, LockAs
<1>12. CASE StreamReady
  BY <1>12 DEF StreamReady, Dispatches, Signal, ClientWaits
<1>13. CASE StreamFails
  BY <1>13 DEF StreamFails, Dispatches, Enter, LockAs, Signal, ClientWaits
<1>14. CASE TimingUpdate
  BY <1>14 DEF TimingUpdate, Dispatches, Signal, ClientWaits
<1>15. CASE OtherSignal
  BY <1>15 DEF OtherSignal, Dispatches, Signal, ClientWaits
<1>16. CASE WriteCallback
  BY <1>16 DEF WriteCallback, Dispatches, Enter, LockAs
<1>17. CASE ReadCallback
  BY <1>17 DEF ReadCallback, Dispatches, Enter, LockAs
<1>18. CASE CallbackReturns
  BY <1>18 DEF CallbackReturns, InCallback, LockAs
<1>19. ASSUME NEW n \in 1..MaxFrames, BeginWrite(n) PROVE (Places /\ LockIsKnown)'
  BY <1>19 DEF BeginWrite
<1>20. CASE EndWrite
  BY <1>20 DEF EndWrite
<1>21. ASSUME NEW n \in 1..MaxFrames, BeginRead(n) PROVE (Places /\ LockIsKnown)'
  BY <1>21 DEF BeginRead
<1>22. CASE EndRead
  BY <1>22 DEF EndRead, Drop
<1>23. CASE UNCHANGED vars
  BY <1>23 DEF vars
<1> QED
  BY <1>1, <1>2, <1>3, <1>4, <1>5, <1>6, <1>7, <1>8, <1>9, <1>10, <1>11, <1>12, <1>13,
     <1>14, <1>15, <1>16, <1>17, <1>18, <1>19, <1>20, <1>21, <1>22, <1>23, Zenon
     DEF Next, Client, Wait, MainLoop, Events, Callbacks

-----------------------------------------------------------------------------
\* A stream is destroyed for good.
LEMMA DestroyedForGood == StreamInv /\ [Next]_vars => (phase = "destroyed" => phase' = "destroyed")
<1> SUFFICES ASSUME StreamInv, [Next]_vars, phase = "destroyed" PROVE phase' = "destroyed"
  OBVIOUS
<1>1. cpc = "idle"
  BY Zenon DEF StreamInv, Control, LockIsKnown
<1>2. CASE Client \/ Wait
  BY <1>1, <1>2, Zenon DEF Client, Wait, OpenOutput, OpenInput, StartInput, WaitReady, WaitOp,
     StartOutput, StartUncorks, Pause, ClearBuffer, Destroy
<1>3. CASE MainLoop
  BY <1>3, Zenon DEF MainLoop, Events, StreamReady, StreamFails, TimingUpdate, OtherSignal,
     WriteCallback, ReadCallback, CallbackReturns, client
<1>4. CASE Callbacks
  BY <1>4, Zenon DEF Callbacks, BeginWrite, EndWrite, BeginRead, EndRead, PauseInCallback, client
<1>5. CASE UNCHANGED vars
  BY <1>5, Zenon DEF vars
<1> QED
  BY <1>2, <1>3, <1>4, <1>5, Zenon DEF Next

\* What the server recorded and the client read is as it was.
LEMMA RecordingKept ==
  ASSUME StreamInv, [Next]_vars, UNCHANGED <<server, reading>>
  PROVE  /\ FragmentsAreQueued' /\ FramesAreReadOnce'
         /\ Counts' <=> /\ frame_count_max' \in -1..MaxFrames
                        /\ requested' \in 0..MaxFrames /\ granted' \in 0..MaxFrames
<1>1. /\ UNCHANGED <<fragments, recorded, peek_buf, peek_buf_index, peek_buf_frames_left>>
      /\ UNCHANGED <<read_frame_count, delivered, dropped>>
  BY Zenon DEF server, reading
<1>2. phase' # "destroyed" => phase # "destroyed"
  BY DestroyedForGood, Zenon
<1>3. FragmentsAreQueued'
  BY <1>1, <1>2, Zenon DEF StreamInv, Data, FragmentsAreQueued, PositionsAre
<1>4. FramesAreReadOnce'
  BY <1>1, <1>2, Zenon DEF StreamInv, Data, FramesAreReadOnce
<1>5. Counts' <=> /\ frame_count_max' \in -1..MaxFrames
                  /\ requested' \in 0..MaxFrames /\ granted' \in 0..MaxFrames
  BY <1>1, Zenon DEF StreamInv, Data, Counts
<1> QED
  BY <1>3, <1>4, <1>5, Zenon

\* No frame is transferred, and no transfer begun or given up.
LEMMA DataKept ==
  ASSUME StreamInv, [Next]_vars, UNCHANGED <<transfer, server, reading>>,
         mpc \in {"write", "read"} \/ mpc' = "read" => mpc' = mpc,
         cpc = "write" => cpc' = "write"
  PROVE  Data'
<1>1. /\ UNCHANGED <<frame_count_max, requested, granted, fragments, recorded, peek_buf>>
      /\ UNCHANGED <<peek_buf_frames_left, read_frame_count, delivered>>
  BY Zenon DEF transfer, server, reading
<1>2. Counts'
  BY <1>1, RecordingKept, Zenon DEF StreamInv, Data, Counts
<1>3. Grants'
  BY <1>1, Zenon DEF StreamInv, Data, Grants
<1> QED
  BY <1>2, <1>3, RecordingKept, Zenon DEF Data

\* What has been read of a fragment, if it is no less than the fragment, is all of it.
LEMMA PartIsWhole ==
  ASSUME NEW m, NEW n, NEW i \in 0..m, NEW left \in 0..m, NEW whole \in 0..n,
         i + left = whole, i >= whole
  PROVE  i = whole
BY SMT

\* The fragment at the head is among the frames recorded and not dropped.
LEMMA HeadIsRecorded ==
  ASSUME StreamInv, phase # "destroyed", fragments # <<>>
  PROVE  /\ Head(fragments) = fragments[1] /\ Head(fragments) \in Fragment
         /\ Len(fragments) \in Nat \ {0}
         /\ dropped + Head(fragments).frames <= recorded
<1>1. /\ fragments \in Seq(Fragment) /\ dropped \in 0..MaxFrames /\ recorded \in 0..MaxFrames
  BY Zenon DEF StreamInv, Data, Counts
<1>2. /\ Head(fragments) = fragments[1] /\ Head(fragments) \in Fragment
      /\ Len(fragments) \in Nat \ {0}
  BY <1>1, SMT
<1>3. PICK f \in [0..Len(fragments) -> 0..MaxFrames] : PositionsAre(f)
  BY Zenon DEF StreamInv, Data, FragmentsAreQueued
<1>4. f[1] = f[0] + fragments[1].frames /\ f[1] <= f[Len(fragments)]
  BY <1>2, <1>3, SMT DEF PositionsAre
<1> QED
  BY <1>2, <1>3, <1>4, Zenon DEF PositionsAre

\* A fragment is recorded behind those that wait, and the one being read stays.
LEMMA RecordStep == StreamInv /\ ReadCallback => Data'
<1> SUFFICES ASSUME StreamInv, ReadCallback PROVE Data'
  OBVIOUS
<1> USE SizeAssumption
<1>1. PICK n \in 1..MaxFragment, hole \in BOOLEAN :
        /\ recorded + n <= MaxFrames /\ recorded' = recorded + n
        /\ fragments' = Append(fragments, [frames |-> n, hole |-> hole])
  BY Zenon DEF ReadCallback
<1> DEFINE fragment == [frames |-> n, hole |-> hole]
<1>2. /\ UNCHANGED <<requested, granted, peek_buf, peek_buf_index, peek_buf_frames_left>>
      /\ UNCHANGED <<read_frame_count, delivered, dropped, phase, cpc>>
      /\ frame_count_max' = recorded' - dropped
      /\ mpc = "idle" /\ owner = "none" /\ mpc' = "read" /\ state = "ready"
  BY Zenon DEF ReadCallback, Dispatches, Enter, client, reading
<1>3. /\ recorded \in 0..MaxFrames /\ dropped \in 0..MaxFrames /\ fragments \in Seq(Fragment)
      /\ dropped <= recorded /\ dropped <= delivered
      /\ delivered \in 0..MaxFrames
  BY Zenon DEF StreamInv, Data, Counts
<1>4. fragment \in Fragment
  BY SMT DEF Fragment
<1>5. /\ fragments' \in Seq(Fragment) /\ Len(fragments') = Len(fragments) + 1
      /\ \A i \in 1..Len(fragments) : fragments'[i] = fragments[i]
      /\ fragments'[Len(fragments) + 1] = fragment
      /\ Len(fragments) \in Nat
  BY <1>1, <1>3, <1>4, SMT
<1>6. granted = 0 /\ phase # "destroyed"
  BY <1>2, Zenon DEF StreamInv, Control, LockIsKnown, Data, Grants
<1>7. Counts'
  BY <1>1, <1>2, <1>3, <1>5, SMT DEF StreamInv, Data, Counts
<1>8. Grants'
  BY <1>1, <1>2, <1>3, <1>6, SMT DEF Grants
<1>9. FramesAreReadOnce'
  <2>1. delivered = dropped + (IF peek_buf THEN peek_buf_index ELSE 0)
    BY <1>6, Zenon DEF StreamInv, Data, FramesAreReadOnce
  <2>2. ASSUME peek_buf PROVE /\ fragments' # <<>>
                              /\ peek_buf_index + peek_buf_frames_left = Head(fragments').frames
    <3>1. fragments # <<>> /\ peek_buf_index + peek_buf_frames_left = Head(fragments).frames
      BY <1>6, <2>2, Zenon DEF StreamInv, Data, FramesAreReadOnce
    <3>2. fragments' # <<>> /\ Head(fragments') = Head(fragments)
      BY <1>3, <1>5, <3>1, SMT
    <3> QED
      BY <3>1, <3>2, Zenon
  <2> QED
    BY <1>2, <2>1, <2>2, Zenon DEF FramesAreReadOnce
<1>10. FragmentsAreQueued'
  <2>1. PICK f \in [0..Len(fragments) -> 0..MaxFrames] : PositionsAre(f)
    BY <1>6, Zenon DEF StreamInv, Data, FragmentsAreQueued
  <2> DEFINE g == [i \in 0..Len(fragments') |-> IF i <= Len(fragments) THEN f[i] ELSE recorded']
  <2>2. g \in [0..Len(fragments') -> 0..MaxFrames]
    BY <1>1, <1>3, <1>5, SMT
  <2>3. g[0] = dropped' /\ g[Len(fragments')] = recorded'
    BY <1>2, <1>5, <2>1, SMT DEF PositionsAre
  <2>4. ASSUME NEW i \in 1..Len(fragments') PROVE g[i] = g[i - 1] + fragments'[i].frames
    <3>1. CASE i = Len(fragments')
      BY <1>1, <1>3, <1>5, <2>1, <3>1, SMT DEF PositionsAre
    <3>2. CASE i # Len(fragments')
      BY <1>5, <2>1, <3>2, SMT DEF PositionsAre
    <3> QED
      BY <3>1, <3>2
  <2>5. ASSUME NEW i \in 0..Len(fragments'), NEW j \in 0..Len(fragments'), i <= j
        PROVE  g[i] <= g[j]
    <3>1. CASE j = Len(fragments')
      <4>1. i <= Len(fragments) => f[i] <= recorded
        BY <1>5, <2>1, SMT DEF PositionsAre
      <4> QED
        BY <1>1, <1>3, <1>5, <2>5, <3>1, <4>1, SMT
    <3>2. CASE j # Len(fragments')
      BY <1>5, <2>1, <2>5, <3>2, SMT DEF PositionsAre
    <3> QED
      BY <3>1, <3>2
  <2>6. \A i, j \in 0..Len(fragments') : i <= j => g[i] <= g[j]
    BY <2>5, Zenon
  <2> HIDE DEF g
  <2> QED
    BY <2>2, <2>3, <2>4, <2>6, Zenon DEF FragmentsAreQueued, PositionsAre
<1> QED
  BY <1>7, <1>8, <1>9, <1>10, Zenon DEF Data

\* Dropping the first fragment leaves the others queued.
LEMMA DropKeepsQueue ==
  ASSUME StreamInv, phase # "destroyed", fragments # <<>>, Drop, UNCHANGED recorded
  PROVE  /\ FragmentsAreQueued' /\ fragments' \in Seq(Fragment)
         /\ dropped' = dropped + Head(fragments).frames
<1> USE SizeAssumption
<1>1. /\ fragments' = Tail(fragments) /\ dropped' = dropped + Head(fragments).frames
  BY Zenon DEF Drop
<1>2. fragments \in Seq(Fragment)
  BY Zenon DEF StreamInv, Data, Counts
<1>3. /\ Head(fragments) = fragments[1] /\ Len(fragments) \in Nat \ {0}
  BY HeadIsRecorded, Zenon
<1>4. /\ fragments' \in Seq(Fragment) /\ Len(fragments') = Len(fragments) - 1
      /\ \A i \in 1..Len(fragments') : fragments'[i] = fragments[i + 1]
  BY <1>1, <1>2, <1>3, SMT
<1>5. PICK f \in [0..Len(fragments) -> 0..MaxFrames] : PositionsAre(f)
  BY Zenon DEF StreamInv, Data, FragmentsAreQueued
<1> DEFINE g == [i \in 0..Len(fragments') |-> f[i + 1]]
<1>6. g \in [0..Len(fragments') -> 0..MaxFrames]
  BY <1>3, <1>4, SMT
<1>7. g[0] = dropped' /\ g[Len(fragments')] = recorded'
  BY <1>1, <1>3, <1>4, <1>5, SMT DEF PositionsAre
<1>8. ASSUME NEW i \in 1..Len(fragments') PROVE g[i] = g[i - 1] + fragments'[i].frames
  <2>1. i + 1 \in 1..Len(fragments) /\ i \in 0..Len(fragments') /\ i - 1 \in 0..Len(fragments')
    BY <1>3, <1>4, SMT
  <2>2. f[i + 1] = f[(i + 1) - 1] + fragments[i + 1].frames
    BY <1>5, <2>1, Zenon DEF PositionsAre
  <2>3. g[i] = f[i + 1] /\ g[i - 1] = f[(i - 1) + 1]
    BY <2>1, SMT
  <2>4. (i + 1) - 1 = i /\ (i - 1) + 1 = i
    BY <2>1, SMT
  <2> QED
    BY <1>4, <2>2, <2>3, <2>4, Zenon
<1>9. \A i, j \in 0..Len(fragments') : i <= j => g[i] <= g[j]
  BY <1>3, <1>4, <1>5, SMT DEF PositionsAre
<1> HIDE DEF g
<1>10. FragmentsAreQueued'
  BY <1>6, <1>7, <1>8, <1>9, Zenon DEF FragmentsAreQueued, PositionsAre
<1> QED
  BY <1>1, <1>4, <1>10, Zenon

\* Reading on: from the fragment being read, or from the next one, or a hole.
LEMMA BeginReadStep ==
  ASSUME StreamInv, [Next]_vars, NEW n \in 1..MaxFrames, BeginRead(n)
  PROVE  Data'
<1> USE SizeAssumption
<1> DEFINE empty == IF fragments = <<>> THEN TRUE ELSE Head(fragments).hole
           left == IF peek_buf THEN peek_buf_frames_left
                   ELSE IF fragments = <<>> THEN 0 ELSE Head(fragments).frames
<1>1. /\ UNCHANGED <<fragments, recorded, dropped, delivered, frame_count_max, phase, cpc, mpc>>
      /\ mpc = "read" /\ n <= frame_count_max /\ requested' = n
  BY Zenon DEF BeginRead, client, server
<1>2. \/ /\ ~peek_buf /\ peek_buf_frames_left' = left /\ peek_buf_index' = 0
         /\ granted' = left /\ UNCHANGED <<peek_buf, read_frame_count>>
      \/ /\ empty => peek_buf
         /\ peek_buf' = TRUE /\ peek_buf_frames_left' = left
         /\ peek_buf_index' = IF peek_buf THEN peek_buf_index ELSE 0
         /\ read_frame_count' = (IF n < left THEN n ELSE left)
         /\ granted' = read_frame_count'
  BY Zenon DEF BeginRead
<1>3. phase # "destroyed"
  BY <1>1, Zenon DEF StreamInv, Control, LockIsKnown
<1>4. /\ recorded \in 0..MaxFrames /\ delivered \in 0..MaxFrames /\ dropped \in 0..MaxFrames
      /\ peek_buf_frames_left \in 0..MaxFrames /\ peek_buf_index \in 0..MaxFrames
      /\ read_frame_count \in 0..MaxFrames /\ frame_count_max \in -1..MaxFrames
      /\ recorded - delivered <= frame_count_max
  BY <1>1, Zenon DEF StreamInv, Data, Counts, Grants
<1>5. /\ delivered = dropped + (IF peek_buf THEN peek_buf_index ELSE 0)
      /\ peek_buf => /\ fragments # <<>>
                     /\ peek_buf_index + peek_buf_frames_left = Head(fragments).frames
  BY <1>3, Zenon DEF StreamInv, Data, FramesAreReadOnce
<1>6. fragments # <<>> => /\ Head(fragments).frames \in 1..MaxFragment
                          /\ dropped + Head(fragments).frames <= recorded
  BY <1>3, HeadIsRecorded, SMT DEF Fragment
<1>7. left \in 0..MaxFrames /\ (~peek_buf => left <= frame_count_max \/ left = 0)
  BY <1>4, <1>5, <1>6, SMT
<1>8. empty \/ fragments # <<>>
  BY Zenon
<1>9. ~peek_buf /\ left # 0 => fragments # <<>> /\ left = Head(fragments).frames
  BY SMT
<1>10. peek_buf => left = peek_buf_frames_left
  BY SMT
<1>11. ~peek_buf /\ ~empty => left = Head(fragments).frames
  BY <1>8, Zenon
<1> HIDE DEF left, empty
<1>12. Counts'
  BY <1>1, <1>2, <1>4, <1>7, SMT DEF StreamInv, Data, Counts
<1>13. FragmentsAreQueued'
  BY <1>1, Zenon DEF StreamInv, Data, FragmentsAreQueued, PositionsAre
<1>14. CASE ~peek_buf'
  <2>1. /\ ~peek_buf /\ granted' = left
    BY <1>2, <1>14, Zenon
  <2>2. Grants'
    BY <1>1, <1>4, <1>7, <1>9, <1>14, <2>1, SMT DEF Grants
  <2>3. FramesAreReadOnce'
    BY <1>1, <1>5, <1>14, <2>1, Zenon DEF FramesAreReadOnce
  <2> QED
    BY <1>12, <1>13, <2>2, <2>3, Zenon DEF Data
<1>15. CASE peek_buf'
  <2>1. /\ peek_buf_frames_left' = left /\ granted' = read_frame_count'
        /\ peek_buf_index' = (IF peek_buf THEN peek_buf_index ELSE 0)
        /\ read_frame_count' = (IF n < left THEN n ELSE left)
        /\ peek_buf \/ ~empty
    BY <1>2, <1>15, Zenon
  <2>2. Grants'
    BY <1>1, <1>4, <1>7, <1>15, <2>1, SMT DEF Grants
  <2>3. fragments # <<>> /\ peek_buf_index' + left = Head(fragments).frames
    BY <1>5, <1>6, <1>8, <1>10, <1>11, <2>1, SMT
  <2>4. delivered = dropped + peek_buf_index'
    BY <1>5, <2>1, Zenon
  <2>5. FramesAreReadOnce'
    BY <1>1, <1>15, <2>1, <2>3, <2>4, Zenon DEF FramesAreReadOnce
  <2> QED
    BY <1>12, <1>13, <2>2, <2>5, Zenon DEF Data
<1> QED
  BY <1>14, <1>15, Zenon

\* A fragment read to its end, or a hole, is dropped, and counts as read.
LEMMA EndReadStep ==
  ASSUME StreamInv, EndRead
  PROVE  Data'
<1> USE SizeAssumption
<1>1. /\ UNCHANGED <<recorded, read_frame_count, phase, cpc, mpc>>
      /\ mpc = "read" /\ granted > 0
      /\ delivered' = delivered + granted /\ frame_count_max' = frame_count_max - granted
      /\ requested' = 0 /\ granted' = 0
  BY Zenon DEF EndRead, client
<1>2. phase # "destroyed"
  BY <1>1, Zenon DEF StreamInv, Control, LockIsKnown
<1>3. /\ recorded \in 0..MaxFrames /\ delivered \in 0..MaxFrames /\ dropped \in 0..MaxFrames
      /\ peek_buf_frames_left \in 0..MaxFrames /\ peek_buf_index \in 0..MaxFrames
      /\ read_frame_count \in 0..MaxFrames /\ frame_count_max \in -1..MaxFrames
      /\ granted \in 0..MaxFrames /\ fragments \in Seq(Fragment)
  BY Zenon DEF StreamInv, Data, Counts
<1>4. granted # 0
  BY <1>1, <1>3, SMT
<1>5. /\ recorded - delivered <= frame_count_max /\ granted <= frame_count_max
      /\ IF peek_buf THEN granted = read_frame_count /\ granted <= peek_buf_frames_left
                     ELSE fragments # <<>> /\ granted = Head(fragments).frames
  BY <1>1, <1>4, Zenon DEF StreamInv, Data, Grants
<1>6. /\ delivered = dropped + (IF peek_buf THEN peek_buf_index ELSE 0)
      /\ peek_buf => /\ fragments # <<>>
                     /\ peek_buf_index + peek_buf_frames_left = Head(fragments).frames
  BY <1>2, Zenon DEF StreamInv, Data, FramesAreReadOnce
<1>7. /\ fragments # <<>> /\ Head(fragments).frames \in 1..MaxFragment
      /\ dropped + Head(fragments).frames <= recorded
  <2>1. fragments # <<>>
    BY <1>5, <1>6, Zenon
  <2> QED
    BY <1>2, <2>1, HeadIsRecorded, SMT DEF Fragment
<1>8. delivered' \in 0..MaxFrames /\ delivered' <= recorded /\ frame_count_max' \in -1..MaxFrames
  BY <1>1, <1>3, <1>5, <1>6, <1>7, SMT
<1>9. Grants'
  BY <1>1, <1>3, <1>5, SMT DEF Grants
<1>10. CASE ~peek_buf
  <2>1. /\ Drop /\ UNCHANGED <<peek_buf, peek_buf_index, peek_buf_frames_left>>
    BY <1>10, Zenon DEF EndRead
  <2>2. /\ FragmentsAreQueued' /\ fragments' \in Seq(Fragment)
        /\ dropped' = dropped + Head(fragments).frames
    BY <1>1, <1>2, <1>7, <2>1, DropKeepsQueue, Zenon
  <2>3. delivered' = dropped' + 0
    BY <1>1, <1>3, <1>5, <1>6, <1>7, <1>8, <1>10, <2>2, SMT
  <2>4. FramesAreReadOnce'
    BY <1>10, <2>1, <2>3, Zenon DEF FramesAreReadOnce
  <2>5. Counts'
    BY <1>1, <1>3, <1>7, <1>8, <2>1, <2>2, <2>3, SMT DEF Counts
  <2> QED
    BY <1>9, <2>2, <2>4, <2>5, Zenon DEF Data
<1>11. CASE peek_buf
  <2>1. /\ peek_buf_index' = peek_buf_index + read_frame_count
        /\ peek_buf_frames_left' = peek_buf_frames_left - read_frame_count
        /\ IF peek_buf_index' >= Head(fragments).frames
             THEN Drop /\ peek_buf' = FALSE
             ELSE UNCHANGED <<fragments, dropped, peek_buf>>
    BY <1>11, Zenon DEF EndRead
  <2>2. /\ peek_buf_index' + peek_buf_frames_left' = Head(fragments).frames
        /\ peek_buf_index' \in 0..MaxFrames /\ peek_buf_frames_left' \in 0..MaxFrames
        /\ delivered' = dropped + peek_buf_index'
    BY <1>1, <1>3, <1>5, <1>6, <1>7, <1>8, <1>11, <2>1, SMT
  <2>3. CASE peek_buf_index' >= Head(fragments).frames
    <3>1. Drop /\ ~peek_buf'
      BY <2>1, <2>3, Zenon
    <3>2. /\ FragmentsAreQueued' /\ fragments' \in Seq(Fragment)
          /\ dropped' = dropped + Head(fragments).frames
      BY <1>1, <1>2, <1>7, <3>1, DropKeepsQueue, Zenon
    <3>3. delivered' = dropped'
      <4>1. Head(fragments).frames \in 0..MaxFragment
        BY <1>7, SizeAssumption, SMT
      <4>2. peek_buf_index' = Head(fragments).frames
        BY <2>2, <2>3, <4>1, PartIsWhole, Zenon
      <4> QED
        BY <2>2, <3>2, <4>2, Zenon
    <3>4. dropped' \in 0..MaxFrames /\ dropped' + 0 = dropped'
      <4>1. dropped' \in 0..MaxFrames
        BY <1>8, <3>3, Zenon
      <4>2. \A k \in 0..MaxFrames : k + 0 = k
        BY SMT
      <4> QED
        BY <4>1, <4>2, Zenon
    <3>5. FramesAreReadOnce'
      BY <3>1, <3>3, <3>4, Zenon DEF FramesAreReadOnce
    <3>6. Counts'
      <4>1. requested' \in 0..MaxFrames /\ granted' \in 0..MaxFrames
        BY <1>1, SizeAssumption, SMT
      <4>2. dropped' <= recorded' /\ dropped' <= delivered' /\ delivered' <= recorded'
        <5>1. delivered' <= recorded' /\ dropped' <= recorded'
          BY <1>1, <1>8, <3>3, Zenon
        <5>2. \A k \in 0..MaxFrames : k <= k
          BY SMT
        <5> QED
          BY <3>3, <3>4, <5>1, <5>2, Zenon
      <4> QED
        BY <1>1, <1>3, <1>8, <2>2, <3>2, <3>4, <4>1, <4>2, Zenon DEF Counts
    <3> QED
      BY <1>9, <3>2, <3>5, <3>6, Zenon DEF Data
  <2>4. CASE ~(peek_buf_index' >= Head(fragments).frames)
    <3>1. UNCHANGED <<fragments, dropped, peek_buf>>
      BY <2>1, <2>4, Zenon
    <3>2. FragmentsAreQueued'
      BY <1>1, <3>1, Zenon DEF StreamInv, Data, FragmentsAreQueued, PositionsAre
    <3>3. FramesAreReadOnce'
      BY <1>7, <1>11, <2>2, <3>1, Zenon DEF FramesAreReadOnce
    <3>4. Counts'
      BY <1>1, <1>3, <1>8, <2>2, <3>1, SMT DEF StreamInv, Data, Counts
    <3> QED
      BY <1>9, <3>2, <3>3, <3>4, Zenon DEF Data
  <2> QED
    BY <2>3, <2>4, Zenon
<1> QED
  BY <1>10, <1>11, Zenon

\* The frames; one step per action, or per kind of action that transfers none.
LEMMA DataStep == StreamInv /\ [Next]_vars => Data'
<1> SUFFICES ASSUME StreamInv, [Next]_vars PROVE Data'
  OBVIOUS
<1> USE SizeAssumption
<1>1. /\ mpc \in {"write", "read"} => owner = "main" /\ state = "ready"
      /\ cpc = "write" => owner = "client"
      /\ granted # 0 => mpc \in {"write", "read"} \/ cpc = "write"
  BY Zenon DEF StreamInv, Control, LockIsKnown, Data, Grants
<1>2. /\ frame_count_max \in -1..MaxFrames /\ requested \in 0..MaxFrames
      /\ granted \in 0..MaxFrames /\ (granted # 0 => granted <= frame_count_max)
  BY Zenon DEF StreamInv, Data, Counts, Grants
<1>3. CASE OpenOutput \/ OpenInput \/ StartInput \/ WaitReady \/ WaitOp \/ ClearBuffer
           \/ \E pause \in BOOLEAN : Pause(pause)
  BY <1>3, DataKept, Zenon DEF OpenOutput, OpenInput, StartInput, WaitReady, WaitOp, ClearBuffer,
     Pause, data
<1>4. CASE StreamReady \/ TimingUpdate \/ OtherSignal
  BY <1>4, DataKept, Zenon DEF StreamReady, TimingUpdate, OtherSignal, client
<1>5. CASE StreamFails
  BY <1>5, DataKept, Zenon DEF StreamFails, Dispatches, Enter, client
<1>6. ASSUME NEW pause \in BOOLEAN, PauseInCallback(pause) PROVE Data'
  BY <1>6, <1>1, DataKept, Zenon DEF PauseInCallback, data
<1>7. CASE StartOutput
  <2>1. mpc \notin {"write", "read"} /\ granted = 0
    BY <1>7, <1>1, Zenon DEF StartOutput, CanLock
  <2>2. UNCHANGED <<server, reading, requested, granted, mpc>>
    BY <1>7, Zenon DEF StartOutput
  <2>3. frame_count_max' \in -1..MaxFrames
    BY <1>7, SMT DEF StartOutput
  <2>4. Grants'
    BY <2>1, <2>2, Zenon DEF Grants
  <2>5. requested' \in 0..MaxFrames /\ granted' \in 0..MaxFrames /\ UNCHANGED <<server, reading>>
    BY <1>2, <2>2, Zenon
  <2> QED
    BY <2>3, <2>4, <2>5, RecordingKept, Zenon DEF Data
<1>8. CASE StartUncorks \/ CallbackReturns
  <2>1. /\ UNCHANGED <<server, reading>> /\ mpc' # "read"
        /\ frame_count_max' = 0 /\ requested' = 0 /\ granted' = 0
    BY <1>8, <1>1, Zenon DEF StartUncorks, CallbackReturns
  <2>2. Grants'
    BY <2>1, SMT DEF Grants
  <2>3. 0 \in -1..MaxFrames /\ 0 \in 0..MaxFrames
    BY SMT
  <2> QED
    BY <2>1, <2>2, <2>3, RecordingKept, Zenon DEF Data
<1>9. CASE WriteCallback
  <2>1. /\ UNCHANGED <<server, reading, requested, granted>> /\ mpc' = "write"
        /\ mpc = "idle" /\ owner = "none" /\ frame_count_max' \in 0..MaxFrames
    BY <1>9, Zenon DEF WriteCallback, Dispatches, Enter
  <2>2. granted = 0
    BY <1>1, <2>1, Zenon
  <2>3. Grants'
    BY <2>1, <2>2, Zenon DEF Grants
  <2>4. frame_count_max' \in -1..MaxFrames
    BY <2>1, SMT
  <2>5. requested' \in 0..MaxFrames /\ granted' \in 0..MaxFrames /\ UNCHANGED <<server, reading>>
    BY <1>2, <2>1, Zenon
  <2> QED
    BY <2>3, <2>4, <2>5, RecordingKept, Zenon DEF Data
<1>10. ASSUME NEW n \in 1..MaxFrames, BeginWrite(n) PROVE Data'
  <2>1. /\ UNCHANGED <<server, reading, frame_count_max, mpc, cpc>>
        /\ Writes /\ n <= frame_count_max /\ requested' = n /\ granted' \in 1..n
    BY <1>10, Zenon DEF BeginWrite, client
  <2>2. mpc # "read"
    BY <1>1, <2>1, Zenon DEF Writes
  <2>3. /\ requested' \in 0..MaxFrames /\ granted' \in 0..MaxFrames
        /\ granted' <= frame_count_max'
    BY <1>2, <2>1, SMT
  <2>4. Grants'
    BY <2>1, <2>2, <2>3, Zenon DEF Grants, Writes
  <2> QED
    BY <1>2, <2>1, <2>3, <2>4, RecordingKept, Zenon DEF Data
<1>11. CASE EndWrite
  <2>1. /\ UNCHANGED <<server, reading, mpc, cpc>> /\ Writes /\ granted > 0
        /\ frame_count_max' = frame_count_max - granted /\ requested' = 0 /\ granted' = 0
    BY <1>11, Zenon DEF EndWrite
  <2>2. mpc # "read"
    BY <1>1, <2>1, Zenon DEF Writes
  <2>3. Grants'
    BY <2>1, <2>2, SMT DEF Grants
  <2>4. granted <= frame_count_max /\ 0 \in 0..MaxFrames
    BY <1>2, <2>1, SMT
  <2>5. frame_count_max' \in -1..MaxFrames
    BY <1>2, <2>1, <2>4, SMT
  <2> QED
    BY <2>1, <2>3, <2>4, <2>5, RecordingKept, Zenon DEF Data
<1>12. CASE Destroy
  <2>1. /\ UNCHANGED <<transfer, recorded, reading, cpc, mpc>> /\ phase' = "destroyed"
        /\ fragments' = <<>> /\ (state = "none" \/ owner \in {"none", "client"})
    BY <1>12, Zenon DEF Destroy, ClientLeaves, CanLock
  <2>2. mpc # "read"
    BY <1>1, <2>1, Zenon
  <2>3. fragments' \in Seq(Fragment)
    BY <2>1, EmptySeq, Zenon
  <2>4. Counts'
    BY <2>1, <2>3, Zenon DEF transfer, reading, StreamInv, Data, Counts
  <2>5. Grants'
    BY <2>1, <2>2, Zenon DEF transfer, reading, StreamInv, Data, Grants
  <2> QED
    BY <2>1, <2>4, <2>5, Zenon DEF Data, FragmentsAreQueued, FramesAreReadOnce
<1>13. CASE UNCHANGED vars
  BY <1>13, DataKept, Zenon DEF vars
<1> QED
  BY <1>3, <1>4, <1>5, <1>6, <1>7, <1>8, <1>9, <1>10, <1>11, <1>12, <1>13, RecordStep, EndReadStep,
     BeginReadStep, Zenon DEF Next, Client, Wait, MainLoop, Events, Callbacks

LEMMA StreamInvariant == Spec => []StreamInv
<1>1. StreamInv /\ [Next]_vars => StreamInv'
  BY FlagsStep, ControlStep, DataStep, Zenon DEF StreamInv, Control
<1> QED
  BY <1>1, InitHolds, PTL DEF Spec

-----------------------------------------------------------------------------
\* As long as no pause was refused, a callback of the main loop runs on a stream
\* that was not destroyed, with the lock held, never while start runs the same
\* callback, and the client's thread leaves no call with the lock
\* (pulseaudio.c:739-745, 610-628).
THEOREM LockKeepsCallbacksApart == Spec => []CallbacksAreExclusive
<1>1. StreamInv => CallbacksAreExclusive
  <2> SUFFICES ASSUME StreamInv PROVE CallbacksAreExclusive
    OBVIOUS
  <2>1. TypeOK
    BY Typing, Zenon DEF StreamInv, Data
  <2> QED
    BY <2>1, Zenon DEF StreamInv, Control, LockIsKnown, CallbacksAreExclusive, InCallback
<1> QED
  BY <1>1, StreamInvariant, PTL

\* Every recorded frame is handed to the client once and in order, for every way to
\* split the recording into fragments, holes and reads (pulseaudio.c:968-1027).
THEOREM EveryFrameIsReadOnce == Spec => []FramesAreReadOnce
<1>1. StreamInv => FramesAreReadOnce
  BY Zenon DEF StreamInv, Data
<1> QED
  BY <1>1, StreamInvariant, PTL
=============================================================================
