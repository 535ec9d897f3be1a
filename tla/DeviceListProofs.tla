------------------------- MODULE DeviceListProofs -------------------------
(***************************************************************************)
(* The backends that learn of devices from another thread forget no change *)
(* and show only whole lists: PulseAudio's main loop, ALSA's and WASAPI's  *)
(* device threads.                                                         *)
(*                                                                         *)
(* PulseAudio's specification is extended and the other two instantiated   *)
(* beside it, under the names Alsa and Wasapi.  Each theorem is about one  *)
(* of the three; a variable that two of them call by the same name plays   *)
(* one part in the one's theorem and another in the other's.               *)
(***************************************************************************)
EXTENDS PulseEvents, SequenceTheorems, TLAPS

CONSTANTS Files, EarlyDelete, Endpoints

VARIABLES present, settled, changes, events, pipe, abort_flag, have_devices_flag, shutdown_err,
          pending_files, dpc, revents, got_rescan_event, devices_info,
          active, default, registered, stale, rd, scan_signalled

Alsa == INSTANCE AlsaDevices
Wasapi == INSTANCE WasapiDevices

-----------------------------------------------------------------------------
(* PulseAudio.                                                             *)

PulseFlags ==
  /\ notice \in BOOLEAN /\ cancelled \in BOOLEAN /\ ready_flag \in BOOLEAN
  /\ emitted_shutdown_cb \in BOOLEAN /\ device_scan_queued \in BOOLEAN
  /\ device_query_err \in BOOLEAN /\ signalled \in BOOLEAN /\ nudged \in BOOLEAN

\* The context connects during init and not again, with a scan queued; a scan is
\* begun only while there is no error, so that an error during it comes of a
\* context that failed.
PulsePlaces ==
  /\ context \in {"none", "connecting", "ready", "failed"}
  /\ connection_err \in {"none", "BackendDisconnected", "InitAudioBackend", "NoMem", "Interrupted"}
  /\ cpc \in {"off", "init", "idle", "flush", "between", "wait", "scan", "shutdown", "change"}
  /\ call \in {"none", "flush_events", "wait_events 1", "wait_events 2"}
  /\ cpc = "off" => context = "none" /\ ready_flag = FALSE
  /\ context = "connecting" => cpc = "init" /\ ready_flag = FALSE
  /\ cpc = "init" => device_scan_queued = TRUE
  /\ (cpc = "scan" /\ context = "ready") => connection_err = "none"

\* The scan has seen as many versions as it has replies, nothing stays in
\* ready_devices_info, and the client has a whole list or none.
PulseLists ==
  /\ devices \in 0..MaxChanges
  /\ replies \in 0..3
  /\ current_devices_info \in Seq(0..MaxChanges) /\ Len(current_devices_info) = replies
  /\ ready_devices_info = <<>>
  /\ \/ safe_devices_info = <<>>
     \/ safe_devices_info \in Seq(0..MaxChanges) /\ Len(safe_devices_info) = 3
  /\ disconnects \in Nat

PulseSeen ==
  (Connected /\ context = "ready" /\ connection_err = "none") =>
    \/ notice = TRUE \/ device_scan_queued = TRUE
    \/ cpc # "scan" /\ safe_devices_info = Fresh
    \/ cpc = "scan" /\ \A i \in 1..Len(current_devices_info) : current_devices_info[i] = devices

PulseInv == PulseFlags /\ PulsePlaces /\ PulseLists /\ PulseSeen

\* The first reply finds a list with nothing in it.
LEMMA EmptyList ==
  ASSUME NEW S, NEW s, s = <<>>
  PROVE  s \in Seq(S) /\ Len(s) = 0 /\ \A x : \A i \in 1..Len(s) : s[i] = x
OBVIOUS

\* A list of one version only stays so when that version is put behind it.
LEMMA AppendSame ==
  ASSUME NEW S, NEW s \in Seq(S), NEW x \in S, \A i \in 1..Len(s) : s[i] = x
  PROVE  \A i \in 1..Len(Append(s, x)) : Append(s, x)[i] = x
OBVIOUS

\* Three replies of one version are that version's list.
LEMMA ThreeSame ==
  ASSUME NEW S, NEW s \in Seq(S), NEW x \in S, Len(s) = 3, \A i \in 1..Len(s) : s[i] = x
  PROVE  s = <<x, x, x>>
<1>1. <<x, x, x>> \in Seq(S) /\ Len(<<x, x, x>>) = 3
  OBVIOUS
<1>2. \A i \in 1..3 : s[i] = <<x, x, x>>[i]
  OBVIOUS
<1> QED
  BY <1>1, <1>2, SeqEqual

\* What is handed on under the lock, when nothing waits in ready_devices_info.
LEMMA PulsePublishes ==
  ASSUME NEW err, NEW ready, Publish(err, ready)
  PROVE  /\ connection_err' = err /\ cpc' # "scan"
         /\ ready = <<>> => ready_devices_info' = <<>> /\ UNCHANGED safe_devices_info
         /\ (err = "none" /\ ready # <<>>) =>
              ready_devices_info' = <<>> /\ safe_devices_info' = ready
BY DEF Publish, Return, NoInfo

\* A flush begins a scan, fails to, or hands on what there is.
LEMMA PulseFlushes ==
  ASSUME ready_devices_info = <<>>, FlushNow \/ FlushWoken
  PROVE  /\ cpc \in {"flush", "wait"}
         /\ UNCHANGED <<context, devices, notice, ready_flag, disconnects, safe_devices_info>>
         /\ ready_devices_info' = <<>>
         /\ \/ /\ replies' = 0 /\ current_devices_info' = <<>>
               /\ \/ cpc' = "scan" /\ connection_err' = "none"
                  \/ cpc' # "scan" /\ connection_err' = "NoMem"
            \/ /\ cpc' # "scan"
               /\ UNCHANGED <<replies, current_devices_info, device_scan_queued, connection_err>>
<1>1. cpc \in {"flush", "wait"} /\ UNCHANGED <<context, devices, notice, ready_flag, disconnects>>
  BY DEF FlushNow, FlushWoken, server
<1>2. FlushBody
  BY DEF FlushNow, FlushWoken
<1>3. CASE device_scan_queued /\ connection_err = "none"
  <2>1. BeginScan
    BY <1>2, <1>3 DEF FlushBody
  <2>2. replies' = 0 /\ current_devices_info' = <<>>
    BY <2>1 DEF BeginScan, NoInfo
  <2>3. CASE cpc' = "scan" /\ UNCHANGED <<connection_err, infos>>
    BY <1>1, <1>3, <2>2, <2>3 DEF infos
  <2>4. CASE Publish("NoMem", ready_devices_info)
    BY <1>1, <2>2, <2>4, PulsePublishes
  <2> QED
    BY <2>1, <2>3, <2>4 DEF BeginScan
<1>4. CASE ~(device_scan_queued /\ connection_err = "none")
  <2>1. /\ Publish(connection_err, ready_devices_info)
        /\ UNCHANGED <<scan, device_scan_queued>>
    BY <1>2, <1>4 DEF FlushBody
  <2> QED
    BY <1>1, <2>1, PulsePublishes DEF scan
<1> QED
  BY <1>3, <1>4

\* The end of a scan: it goes on, fails, or has all replies and is handed on.
LEMMA PulseScans ==
  ASSUME PulseLists, ScanWoken
  PROVE  /\ cpc = "scan" /\ ready_devices_info' = <<>>
         /\ UNCHANGED <<context, devices, notice, ready_flag, disconnects, replies,
                        current_devices_info, device_scan_queued>>
         /\ \/ UNCHANGED <<cpc, connection_err, safe_devices_info>>
            \/ /\ cpc' # "scan" /\ connection_err' \in {"Interrupted", "NoMem"}
               /\ UNCHANGED safe_devices_info
            \/ /\ cpc' # "scan" /\ connection_err' = "none" /\ replies = 3
               /\ safe_devices_info' = current_devices_info
<1>1. /\ cpc = "scan"
      /\ UNCHANGED <<context, devices, notice, ready_flag, disconnects, replies,
                     current_devices_info, device_scan_queued>>
  BY DEF ScanWoken, server, scan
<1>2. ready_devices_info = <<>>
  BY DEF PulseLists
<1>3. CASE cancelled
  BY <1>1, <1>2, <1>3, PulsePublishes DEF ScanWoken
<1>4. CASE ~cancelled /\ replies < 3
  BY <1>1, <1>2, <1>4 DEF ScanWoken, infos
<1>5. CASE ~cancelled /\ ~(replies < 3) /\ device_query_err
  BY <1>1, <1>2, <1>5, PulsePublishes DEF ScanWoken
<1>6. CASE ~cancelled /\ ~(replies < 3) /\ ~device_query_err
  <2>1. replies = 3 /\ current_devices_info # <<>>
    BY <1>6 DEF PulseLists
  <2>2. Publish("none", current_devices_info)
    BY <1>6 DEF ScanWoken
  <2> QED
    BY <1>1, <2>1, <2>2, PulsePublishes
<1> QED
  BY <1>3, <1>4, <1>5, <1>6

\* Every callback and every call leaves the flags Boolean.
LEMMA PulseFlagsStep == PulseFlags /\ [Next]_vars => PulseFlags'
<1> SUFFICES ASSUME PulseFlags, [Next]_vars PROVE PulseFlags'
  OBVIOUS
<1> USE DEF PulseFlags
<1>1. CASE ContextReady
  BY <1>1, Zenon DEF ContextReady, Signal, scan, infos
<1>2. CASE ContextFailed
  BY <1>2, Zenon DEF ContextFailed, Signal, infos
<1>3. CASE DevicesChange
  BY <1>3, Zenon DEF DevicesChange, scan, status, infos,
                      client
<1>4. CASE SubscribeCallback
  BY <1>4, Zenon DEF SubscribeCallback, Signal, scan, infos
<1>5. ASSUME NEW out_of_memory \in BOOLEAN, QueryReply(out_of_memory)
      PROVE  PulseFlags'
  BY <1>5, Zenon DEF QueryReply, Signal, server, status,
                      infos
<1>6. CASE Connect
  BY <1>6, Zenon DEF Connect, scan, infos
<1>7. CASE InitDone
  BY <1>7, Zenon DEF InitDone, TearDown, NoInfo, server,
                      scan, status, infos
<1>8. CASE Disconnect
  BY <1>8, Zenon DEF Disconnect, TearDown, NoInfo
<1>9. ASSUME NEW kind \in {"flush_events", "wait_events 1"}, Call(kind)
      PROVE  PulseFlags'
  BY <1>9, Zenon DEF Call, server, scan, status, infos
<1>10. CASE FlushNow \/ FlushWoken
  BY <1>10, Zenon DEF FlushNow, FlushWoken, FlushBody, BeginScan,
                       Publish, Return, NoInfo, server, scan,
                       infos
<1>11. CASE FlushWaits
  BY <1>11, Zenon DEF FlushWaits, server, scan, status, infos
<1>12. CASE ScanWoken
  BY <1>12, Zenon DEF ScanWoken, Publish, Return, NoInfo,
                       server, scan, infos
<1>13. CASE OnBackendDisconnect
  BY <1>13, Zenon DEF OnBackendDisconnect, Return, server, scan,
                       status, infos
<1>14. CASE OnDevicesChange
  BY <1>14, Zenon DEF OnDevicesChange, Return, server, scan,
                       status, infos
<1>15. CASE Wakeup
  BY <1>15, Zenon DEF Wakeup, Signal, InWaitEvents, Connected,
                       server, scan, status, infos
<1>16. CASE ForceDeviceScan
  BY <1>16, Zenon DEF ForceDeviceScan, Signal, Connected, server,
                       scan, infos
<1>17. CASE UNCHANGED vars
  BY <1>17, Zenon DEF vars, server, scan, status, infos,
                       client
<1> QED
  BY <1>1, <1>2, <1>3, <1>4, <1>5, <1>6, <1>7, <1>8, <1>9, <1>10, <1>11, <1>12,
     <1>13, <1>14, <1>15, <1>16, <1>17, Zenon
     DEF Next, MainLoopStep, ClientStep

\* One step per callback or call.
LEMMA PulsePlacesStep == PulseFlags /\ PulsePlaces /\ [Next]_vars => PulsePlaces'
<1> SUFFICES ASSUME PulseFlags, PulsePlaces, [Next]_vars PROVE PulsePlaces'
  OBVIOUS
<1> USE DEF PulseFlags, PulsePlaces
<1>1. CASE ContextReady
  BY <1>1 DEF ContextReady, Signal, scan, infos
<1>2. CASE ContextFailed
  <2>1. /\ context' = "failed" /\ UNCHANGED <<cpc, call, device_scan_queued>>
        /\ connection_err' \in {"BackendDisconnected", "InitAudioBackend"}
        /\ context \in {"connecting", "ready"} /\ ready_flag' = TRUE
    BY <1>2, Zenon DEF ContextFailed
  <2> QED
    BY <2>1
<1>3. CASE DevicesChange
  BY <1>3 DEF DevicesChange, scan, status, infos, client
<1>4. CASE SubscribeCallback
  BY <1>4 DEF SubscribeCallback, Signal, scan, infos
<1>5. ASSUME NEW out_of_memory \in BOOLEAN, QueryReply(out_of_memory)
      PROVE  PulsePlaces'
  BY <1>5 DEF QueryReply, Signal, server, status, infos
<1>6. CASE Connect
  BY <1>6 DEF Connect, scan, infos
<1>7. CASE InitDone
  BY <1>7 DEF InitDone, TearDown, NoInfo, server, scan,
               status, infos
<1>8. CASE Disconnect
  BY <1>8 DEF Disconnect, TearDown, NoInfo
<1>9. ASSUME NEW kind \in {"flush_events", "wait_events 1"}, Call(kind)
      PROVE  PulsePlaces'
  BY <1>9 DEF Call, server, scan, status, infos
<1>10. CASE FlushNow \/ FlushWoken
  BY <1>10 DEF FlushNow, FlushWoken, FlushBody, BeginScan,
                Publish, Return, NoInfo, server, scan,
                infos
<1>11. CASE FlushWaits
  BY <1>11 DEF FlushWaits, server, scan, status, infos
<1>12. CASE ScanWoken
  BY <1>12 DEF ScanWoken, Publish, Return, NoInfo, server,
                scan, infos
<1>13. CASE OnBackendDisconnect
  BY <1>13 DEF OnBackendDisconnect, Return, server, scan,
                status, infos
<1>14. CASE OnDevicesChange
  BY <1>14 DEF OnDevicesChange, Return, server, scan, status,
                infos
<1>15. CASE Wakeup
  BY <1>15 DEF Wakeup, Signal, InWaitEvents, Connected,
                server, scan, status, infos
<1>16. CASE ForceDeviceScan
  BY <1>16 DEF ForceDeviceScan, Signal, Connected, server,
                scan, infos
<1>17. CASE UNCHANGED vars
  BY <1>17 DEF vars, server, scan, status, infos,
                client
<1> QED
  BY <1>1, <1>2, <1>3, <1>4, <1>5, <1>6, <1>7, <1>8, <1>9, <1>10, <1>11, <1>12,
     <1>13, <1>14, <1>15, <1>16, <1>17, Zenon
     DEF Next, MainLoopStep, ClientStep

\* Lists grow by a reply at a time, and are handed on when they are whole.
LEMMA PulseListsStep ==
  ASSUME PulseLists, [Next]_vars
  PROVE  PulseLists'
<1> USE ChangesAssumption DEF PulseLists
<1>1. CASE ContextReady
  BY <1>1 DEF ContextReady, Signal, scan, infos
<1>2. CASE ContextFailed
  BY <1>2 DEF ContextFailed, Signal, infos
<1>3. CASE DevicesChange
  BY <1>3 DEF DevicesChange, scan, status, infos, client
<1>4. CASE SubscribeCallback
  BY <1>4 DEF SubscribeCallback, Signal, scan, infos
<1>5. ASSUME NEW out_of_memory \in BOOLEAN, QueryReply(out_of_memory)
      PROVE  PulseLists'
  BY <1>5 DEF QueryReply, Signal, server, status, infos
<1>6. CASE Connect
  BY <1>6 DEF Connect, scan, infos
<1>7. CASE InitDone
  <2>1. CASE TearDown
    BY <2>1 DEF TearDown, NoInfo
  <2>2. CASE UNCHANGED <<server, scan, infos, disconnects>>
    BY <2>2 DEF server, scan, infos
  <2> QED
    BY <1>7, <2>1, <2>2, Zenon DEF InitDone
<1>8. CASE Disconnect
  BY <1>8 DEF Disconnect, TearDown, NoInfo
<1>9. ASSUME NEW kind \in {"flush_events", "wait_events 1"}, Call(kind)
      PROVE  PulseLists'
  BY <1>9 DEF Call, server, scan, status, infos
<1>10. CASE FlushNow \/ FlushWoken
  <2>1. /\ UNCHANGED <<devices, disconnects, safe_devices_info>> /\ ready_devices_info' = <<>>
        /\ \/ replies' = 0 /\ current_devices_info' = <<>>
           \/ UNCHANGED <<replies, current_devices_info>>
    BY <1>10, PulseFlushes, Zenon
  <2>2. devices' \in 0..MaxChanges /\ disconnects' \in Nat
    BY <2>1
  <2>3. /\ replies' \in 0..3 /\ current_devices_info' \in Seq(0..MaxChanges)
        /\ Len(current_devices_info') = replies'
    <3>1. CASE replies' = 0 /\ current_devices_info' = <<>>
      BY <3>1, EmptyList, SMT
    <3>2. CASE UNCHANGED <<replies, current_devices_info>>
      BY <3>2
    <3> QED
      BY <2>1, <3>1, <3>2
  <2>4. \/ safe_devices_info' = <<>>
        \/ safe_devices_info' \in Seq(0..MaxChanges) /\ Len(safe_devices_info') = 3
    BY <2>1
  <2> QED
    BY <2>1, <2>2, <2>3, <2>4, Zenon
<1>11. CASE FlushWaits
  BY <1>11 DEF FlushWaits, server, scan, status, infos
<1>12. CASE ScanWoken
  BY <1>12, PulseScans
<1>13. CASE OnBackendDisconnect
  <2>1. disconnects' \in Nat
    BY <1>13 DEF OnBackendDisconnect
  <2>2. UNCHANGED <<server, scan, infos>>
    BY <1>13, Zenon DEF OnBackendDisconnect
  <2> QED
    BY <2>1, <2>2 DEF server, scan, infos
<1>14. CASE OnDevicesChange
  BY <1>14 DEF OnDevicesChange, Return, server, scan, status,
                infos
<1>15. CASE Wakeup
  BY <1>15 DEF Wakeup, Signal, InWaitEvents, Connected,
                server, scan, status, infos
<1>16. CASE ForceDeviceScan
  BY <1>16 DEF ForceDeviceScan, Signal, Connected, server,
                scan, infos
<1>17. CASE UNCHANGED vars
  BY <1>17 DEF vars, server, scan, status, infos,
                client
<1> QED
  BY <1>1, <1>2, <1>3, <1>4, <1>5, <1>6, <1>7, <1>8, <1>9, <1>10, <1>11, <1>12,
     <1>13, <1>14, <1>15, <1>16, <1>17, Zenon
     DEF Next, MainLoopStep, ClientStep

\* What the client has not been shown is on its way, queued, or not yet missed.
LEMMA PulseSeenStep ==
  ASSUME PulseInv, [Next]_vars
  PROVE  PulseSeen'
<1> USE DEF PulseInv, PulseFlags, PulsePlaces, PulseLists, PulseSeen, Connected, Fresh
<1>1. CASE ContextReady
  BY <1>1 DEF ContextReady, Signal, scan, infos
<1>2. CASE ContextFailed
  BY <1>2 DEF ContextFailed, Signal, infos
<1>3. CASE DevicesChange
  BY <1>3 DEF DevicesChange, scan, status, infos, client
<1>4. CASE SubscribeCallback
  BY <1>4 DEF SubscribeCallback, Signal, scan, infos
<1>5. ASSUME NEW out_of_memory \in BOOLEAN, QueryReply(out_of_memory)
      PROVE  PulseSeen'
  <2>1. /\ cpc = "scan" /\ current_devices_info' = Append(current_devices_info, devices)
        /\ UNCHANGED <<cpc, context, devices, notice, connection_err, device_scan_queued>>
    BY <1>5 DEF QueryReply, server, status
  <2>2. (\A i \in 1..Len(current_devices_info) : current_devices_info[i] = devices) =>
          \A i \in 1..Len(current_devices_info') : current_devices_info'[i] = devices
    <3>1. current_devices_info \in Seq(0..MaxChanges) /\ devices \in 0..MaxChanges
      OBVIOUS
    <3>2. ASSUME \A i \in 1..Len(current_devices_info) : current_devices_info[i] = devices
          PROVE  \A i \in 1..Len(Append(current_devices_info, devices)) :
                   Append(current_devices_info, devices)[i] = devices
      <4> HIDE DEF PulseInv, PulseFlags, PulsePlaces, PulseLists, PulseSeen
      <4> QED
        BY <3>1, <3>2, AppendSame
    <3> QED
      BY <2>1, <3>2, Zenon
  <2> QED
    BY <2>1, <2>2
<1>6. CASE Connect
  BY <1>6 DEF Connect, scan, infos
<1>7. CASE InitDone
  BY <1>7 DEF InitDone, TearDown, NoInfo, server, scan,
               status, infos
<1>8. CASE Disconnect
  BY <1>8 DEF Disconnect, TearDown, NoInfo
<1>9. ASSUME NEW kind \in {"flush_events", "wait_events 1"}, Call(kind)
      PROVE  PulseSeen'
  BY <1>9 DEF Call, server, scan, status, infos
<1>10. CASE FlushNow \/ FlushWoken
  <2>1. UNCHANGED <<context, devices, notice, safe_devices_info>>
    BY <1>10, PulseFlushes, Zenon
  <2>2. CASE cpc' = "scan" /\ current_devices_info' = <<>>
    BY <2>2, EmptyList
  <2>3. CASE connection_err' = "NoMem"
    BY <2>3
  <2>4. CASE cpc' # "scan" /\ UNCHANGED <<device_scan_queued, connection_err>>
    <3>1. cpc \in {"flush", "wait"}
      BY <1>10, PulseFlushes, Zenon
    <3> QED
      BY <2>1, <2>4, <3>1
  <2> QED
    BY <1>10, <2>2, <2>3, <2>4, PulseFlushes, Zenon
<1>11. CASE FlushWaits
  BY <1>11 DEF FlushWaits, server, scan, status, infos
<1>12. CASE ScanWoken
  <2>1. CASE UNCHANGED <<cpc, connection_err, safe_devices_info>>
    BY <1>12, <2>1, PulseScans
  <2>2. CASE connection_err' \in {"Interrupted", "NoMem"}
    BY <2>2
  <2>3. CASE cpc' # "scan" /\ replies = 3 /\ safe_devices_info' = current_devices_info
    <3>1. (\A i \in 1..Len(current_devices_info) : current_devices_info[i] = devices) =>
            current_devices_info = <<devices, devices, devices>>
      <4>1. /\ devices \in 0..MaxChanges /\ current_devices_info \in Seq(0..MaxChanges)
            /\ Len(current_devices_info) = 3
        BY <2>3, Zenon DEF PulseLists
      <4> QED
        BY ONLY <4>1, ThreeSame, Zenon
    <3> QED
      BY <1>12, <2>3, <3>1, PulseScans
  <2> QED
    BY <1>12, <2>1, <2>2, <2>3, PulseScans
<1>13. CASE OnBackendDisconnect
  BY <1>13 DEF OnBackendDisconnect, Return, server, scan,
                status, infos
<1>14. CASE OnDevicesChange
  BY <1>14 DEF OnDevicesChange, Return, server, scan, status,
                infos
<1>15. CASE Wakeup
  BY <1>15 DEF Wakeup, Signal, InWaitEvents, Connected,
                server, scan, status, infos
<1>16. CASE ForceDeviceScan
  BY <1>16 DEF ForceDeviceScan, Signal, Connected, server,
                scan, infos
<1>17. CASE UNCHANGED vars
  BY <1>17 DEF vars, server, scan, status, infos,
                client
<1> QED
  BY <1>1, <1>2, <1>3, <1>4, <1>5, <1>6, <1>7, <1>8, <1>9, <1>10, <1>11, <1>12,
     <1>13, <1>14, <1>15, <1>16, <1>17, Zenon
     DEF Next, MainLoopStep, ClientStep

\* The invariant is the connection's from its beginning.
LEMMA PulseInvariant == Spec => []PulseInv
<1>1. Init => PulseInv
  <2> SUFFICES ASSUME Init PROVE PulseInv
    OBVIOUS
  <2>1. PulseFlags
    BY Zenon DEF Init, PulseFlags
  <2>2. PulsePlaces
    BY DEF Init, PulsePlaces
  <2>3. PulseLists
    BY ChangesAssumption DEF Init, PulseLists, NoInfo
  <2>4. PulseSeen
    BY DEF Init, PulseSeen, Connected
  <2> QED
    BY <2>1, <2>2, <2>3, <2>4 DEF PulseInv
<1>2. PulseInv /\ [Next]_vars => PulseInv'
  BY PulseFlagsStep, PulsePlacesStep, PulseListsStep, PulseSeenStep DEF PulseInv
<1> QED
  BY <1>1, <1>2, PTL DEF Spec

\* While the connection stands, whatever the client has not been shown, and the
\* scan under way has missed, is on its way or queued (pulseaudio.c:21, 462-464).
THEOREM PulseForgetsNoChange == Spec => []NoLostScan
<1>1. PulseInv => NoLostScan
  <2> SUFFICES ASSUME PulseInv PROVE NoLostScan
    OBVIOUS
  <2>1. {notice, cancelled, ready_flag, emitted_shutdown_cb, device_scan_queued,
         device_query_err, signalled, nudged} \subseteq BOOLEAN
    BY DEF PulseInv, PulseFlags
  <2>2. \A info \in {current_devices_info, ready_devices_info, safe_devices_info} :
          Len(info) \in 0..3 /\ \A i \in 1..Len(info) : info[i] \in 0..MaxChanges
    <3>1. Len(current_devices_info) \in 0..3
          /\ \A i \in 1..Len(current_devices_info) : current_devices_info[i] \in 0..MaxChanges
      BY ChangesAssumption DEF PulseInv, PulseLists
    <3>2. Len(safe_devices_info) \in 0..3
          /\ \A i \in 1..Len(safe_devices_info) : safe_devices_info[i] \in 0..MaxChanges
      BY ChangesAssumption DEF PulseInv, PulseLists
    <3>3. Len(ready_devices_info) \in 0..3
          /\ \A i \in 1..Len(ready_devices_info) : ready_devices_info[i] \in 0..MaxChanges
      BY DEF PulseInv, PulseLists
    <3> QED
      BY <3>1, <3>2, <3>3, Zenon
  <2>3. TypeOK
    BY <2>1, <2>2, Zenon DEF PulseInv, PulsePlaces, PulseLists, TypeOK
  <2>4. (Connected /\ context = "ready" /\ connection_err = "none") =>
          \/ notice \/ device_scan_queued
          \/ cpc # "scan" /\ safe_devices_info = Fresh
          \/ /\ cpc = "scan"
             /\ \A i \in 1..Len(current_devices_info) : current_devices_info[i] = devices
    BY Zenon DEF PulseInv, PulseSeen
  <2> QED
    BY <2>3, <2>4, Zenon DEF NoLostScan
<1> QED
  BY <1>1, PulseInvariant, PTL

\* What the client is shown is a whole scan, however a scan is cut short
\* (pulseaudio.c:394-406, 440-442).
THEOREM PulseShowsWholeScans == Spec => []ShownScansAreComplete
<1>1. PulseInv => ShownScansAreComplete
  BY DEF PulseInv, PulseLists, ShownScansAreComplete, Fresh, NoInfo
<1> QED
  BY <1>1, PulseInvariant, PTL

-----------------------------------------------------------------------------
(* What the client of PulseAudio sees.                                     *)

\* An error is reported once, and a scan is begun only if none was.
PulseReports ==
  /\ disconnects \in {0, 1}
  /\ disconnects # 0 => emitted_shutdown_cb
  /\ emitted_shutdown_cb => connection_err # "none" /\ cpc # "scan"
  /\ cpc = "shutdown" => emitted_shutdown_cb /\ disconnects = 0

\* The versions the scan under way has seen.
Scanned == {current_devices_info[i] : i \in 1..Len(current_devices_info)}

\* Versions only grow, so a scan under way is of nothing older than the list.
PulseScansAreLater ==
  /\ devices \in Nat
  /\ Shown \subseteq 0..devices
  /\ cpc = "scan" => /\ Scanned \subseteq 0..devices
                     /\ \A old \in Shown, new \in Scanned : old <= new

\* What is handed on under the lock, whatever there was before.
LEMMA PulseReportsOnce ==
  ASSUME NEW err, NEW ready, Publish(err, ready), PulseReports, UNCHANGED disconnects,
         emitted_shutdown_cb => err # "none"
  PROVE  PulseReports'
BY Zenon DEF Publish, Return, PulseReports

LEMMA PulseReportsStep == PulseReports /\ [Next]_vars => PulseReports'
<1> SUFFICES ASSUME PulseReports, [Next]_vars PROVE PulseReports'
  OBVIOUS
<1>1. ASSUME UNCHANGED <<disconnects, emitted_shutdown_cb>>,
             connection_err' # "none" \/ UNCHANGED connection_err,
             UNCHANGED cpc \/ cpc' \notin {"scan", "shutdown"}
      PROVE  PulseReports'
  BY <1>1, Zenon DEF PulseReports
<1>2. CASE ContextReady \/ DevicesChange \/ SubscribeCallback \/ Wakeup \/ ForceDeviceScan
  BY <1>1, <1>2, Zenon DEF ContextReady, DevicesChange, SubscribeCallback, Wakeup, ForceDeviceScan,
     status, client
<1>3. CASE ContextFailed
  <2>1. /\ UNCHANGED <<disconnects, emitted_shutdown_cb, cpc>>
        /\ connection_err' \in {"BackendDisconnected", "InitAudioBackend"}
    BY <1>3, Zenon DEF ContextFailed
  <2> QED
    BY <1>1, <2>1, Zenon
<1>4. ASSUME NEW out_of_memory, QueryReply(out_of_memory) PROVE PulseReports'
  BY <1>1, <1>4, Zenon DEF QueryReply, status
<1>5. CASE TearDown
  BY <1>5, Zenon DEF TearDown, PulseReports
<1>6. CASE InitDone \/ Disconnect
  BY <1>1, <1>5, <1>6, Zenon DEF InitDone, Disconnect, status
<1>7. CASE FlushNow \/ FlushWoken
  <2>1. FlushBody /\ UNCHANGED disconnects
    BY <1>7, Zenon DEF FlushNow, FlushWoken
  <2>2. CASE device_scan_queued /\ connection_err = "none"
    <3>1. BeginScan
      BY <2>1, <2>2, Zenon DEF FlushBody
    <3>2. CASE cpc' = "scan" /\ UNCHANGED <<connection_err, emitted_shutdown_cb>>
      BY <2>1, <2>2, <3>2, Zenon DEF PulseReports
    <3>3. CASE Publish("NoMem", ready_devices_info)
      BY <2>1, <3>3, PulseReportsOnce
    <3> QED
      BY <3>1, <3>2, <3>3, Zenon DEF BeginScan
  <2>3. CASE ~(device_scan_queued /\ connection_err = "none")
    <3>1. Publish(connection_err, ready_devices_info)
      BY <2>1, <2>3, Zenon DEF FlushBody
    <3>2. emitted_shutdown_cb => connection_err # "none"
      BY Zenon DEF PulseReports
    <3> QED
      BY <2>1, <3>1, <3>2, PulseReportsOnce
  <2> QED
    BY <2>2, <2>3
<1>8. CASE ScanWoken
  <2>1. cpc = "scan" /\ ~emitted_shutdown_cb /\ UNCHANGED disconnects
    BY <1>8, Zenon DEF ScanWoken, PulseReports
  <2>2. \/ \E err, ready : Publish(err, ready)
        \/ UNCHANGED <<cpc, connection_err, emitted_shutdown_cb>>
    BY <1>8, Zenon DEF ScanWoken
  <2> QED
    BY <1>1, <2>1, <2>2, PulseReportsOnce, Zenon
<1>9. CASE OnBackendDisconnect
  <2>1. /\ cpc = "shutdown" /\ cpc' \in {"between", "idle"} /\ disconnects' = disconnects + 1
        /\ UNCHANGED <<connection_err, emitted_shutdown_cb>>
    BY <1>9, Zenon DEF OnBackendDisconnect, Return, status
  <2>2. disconnects' = 1
    BY <2>1 DEF PulseReports
  <2> QED
    BY <2>1, <2>2, Zenon DEF PulseReports
<1>10. CASE OnDevicesChange \/ FlushWaits
  <2>1. /\ UNCHANGED <<disconnects, connection_err, emitted_shutdown_cb>>
        /\ cpc' \in {"between", "idle", "wait"}
    BY <1>10, Zenon DEF OnDevicesChange, FlushWaits, Return, status
  <2> QED
    BY <1>1, <2>1, Zenon
<1>11. ASSUME NEW kind, Call(kind) PROVE PulseReports'
  BY <1>1, <1>11, Zenon DEF Call, status
<1>12. CASE Connect \/ UNCHANGED vars
  BY <1>1, <1>12, Zenon DEF Connect, vars, status, client
<1> QED
  BY <1>2, <1>3, <1>4, <1>6, <1>7, <1>8, <1>9, <1>10, <1>11, <1>12, Zenon
     DEF Next, MainLoopStep, ClientStep

\* The versions of a list with one more reply.
LEMMA AppendRange ==
  ASSUME NEW S, NEW s \in Seq(S), NEW x \in S
  PROVE  {Append(s, x)[i] : i \in 1..Len(Append(s, x))} = {s[i] : i \in 1..Len(s)} \union {x}
<1>1. /\ Len(Append(s, x)) = Len(s) + 1 /\ Len(s) \in Nat
      /\ \A i \in 1..Len(s) : Append(s, x)[i] = s[i]
      /\ Append(s, x)[Len(s) + 1] = x
  OBVIOUS
<1> DEFINE t == Append(s, x)
           n == Len(s)
<1>2. Len(t) = n + 1 /\ n \in Nat /\ t[n + 1] = x /\ \A i \in 1..n : t[i] = s[i]
  BY <1>1
<1> HIDE DEF t, n
<1>3. {t[i] : i \in 1..(n + 1)} = {s[i] : i \in 1..n} \union {x}
  BY <1>2
<1> QED
  BY <1>2, <1>3 DEF t, n

LEMMA PulseScansAreLaterStep ==
  ASSUME PulseLists, PulseScansAreLater, [Next]_vars
  PROVE  PulseScansAreLater'
<1>e. ASSUME NEW l, l = <<>> PROVE {l[i] : i \in 1..Len(l)} = {}
  BY <1>e
<1>1. ASSUME UNCHANGED <<devices, safe_devices_info>>,
             cpc' # "scan" \/ UNCHANGED <<cpc, current_devices_info>>
      PROVE  PulseScansAreLater'
  <2>1. UNCHANGED Shown /\ (cpc' = "scan" => cpc = "scan" /\ UNCHANGED Scanned)
    BY <1>1 DEF Shown, Scanned
  <2> QED
    BY <1>1, <2>1, Zenon DEF PulseScansAreLater
<1>2. CASE ContextReady \/ ContextFailed \/ SubscribeCallback \/ Wakeup \/ ForceDeviceScan
  BY <1>1, <1>2, Zenon DEF ContextReady, ContextFailed, SubscribeCallback, Wakeup, ForceDeviceScan,
     server, scan, infos
<1>3. CASE DevicesChange
  <2>1. devices' = devices + 1 /\ UNCHANGED <<safe_devices_info, cpc, current_devices_info>>
    BY <1>3, Zenon DEF DevicesChange, scan, infos, client
  <2>2. UNCHANGED <<Shown, Scanned>>
    BY <2>1 DEF Shown, Scanned
  <2> QED
    BY <2>1, <2>2 DEF PulseScansAreLater
<1>4. ASSUME NEW out_of_memory, QueryReply(out_of_memory) PROVE PulseScansAreLater'
  <2>1. /\ cpc = "scan" /\ UNCHANGED <<cpc, devices, safe_devices_info>>
        /\ current_devices_info' = Append(current_devices_info, devices)
    BY <1>4, Zenon DEF QueryReply, server, infos
  <2>2. Scanned' = Scanned \union {devices}
    <3>1. current_devices_info \in Seq(0..MaxChanges) /\ devices \in 0..MaxChanges
      BY DEF PulseLists
    <3> QED
      BY <2>1, <3>1, AppendRange DEF Scanned
  <2>3. UNCHANGED Shown
    BY <2>1 DEF Shown
  <2> QED
    BY <2>1, <2>2, <2>3 DEF PulseScansAreLater
<1>5. CASE TearDown
  <2>1. UNCHANGED devices /\ safe_devices_info' = <<>> /\ cpc' = "off"
    BY <1>5, Zenon DEF TearDown, NoInfo
  <2>2. Shown' = {}
    <3>1. Shown' = {<<>>[i] : i \in 1..Len(<<>>)}
      BY <2>1 DEF Shown
    <3> QED
      BY <1>e, <3>1, Zenon
  <2> QED
    BY <2>1, <2>2 DEF PulseScansAreLater
<1>6. CASE InitDone \/ Disconnect
  <2>1. TearDown \/ (cpc' = "idle" /\ UNCHANGED <<devices, safe_devices_info>>)
    BY <1>6, Zenon DEF InitDone, Disconnect, server, infos
  <2> QED
    BY <1>1, <1>5, <2>1, Zenon
<1>7. CASE FlushNow \/ FlushWoken
  <2>1. UNCHANGED <<devices, safe_devices_info>> /\ (cpc' = "scan" => current_devices_info' = <<>>)
    BY <1>7, PulseFlushes, Zenon DEF PulseLists
  <2>2. UNCHANGED Shown
    BY <2>1 DEF Shown
  <2>3. cpc' = "scan" => Scanned' = {}
    BY <1>e, <2>1, Zenon DEF Scanned
  <2> QED
    BY <2>1, <2>2, <2>3 DEF PulseScansAreLater
<1>8. CASE ScanWoken
  <2>1. /\ cpc = "scan" /\ UNCHANGED <<devices, current_devices_info>>
        /\ \/ UNCHANGED safe_devices_info
           \/ cpc' # "scan" /\ safe_devices_info' = current_devices_info
    BY <1>8, PulseScans, Zenon
  <2>2. CASE UNCHANGED safe_devices_info
    BY <1>1, <2>1, <2>2, Zenon
  <2>3. CASE cpc' # "scan" /\ safe_devices_info' = current_devices_info
    <3>1. Shown' = Scanned
      BY <2>3 DEF Shown, Scanned
    <3> QED
      BY <2>1, <2>3, <3>1 DEF PulseScansAreLater
  <2> QED
    BY <2>1, <2>2, <2>3
<1>9. CASE OnBackendDisconnect \/ OnDevicesChange \/ FlushWaits
  <2>1. UNCHANGED <<devices, safe_devices_info>> /\ cpc' \in {"between", "idle", "wait"}
    BY <1>9, Zenon DEF OnBackendDisconnect, OnDevicesChange, FlushWaits, Return, server, infos
  <2> QED
    BY <1>1, <2>1, Zenon
<1>10. ASSUME NEW kind, Call(kind) PROVE PulseScansAreLater'
  BY <1>1, <1>10, Zenon DEF Call, server, infos
<1>11. CASE Connect \/ UNCHANGED vars
  BY <1>1, <1>11, Zenon DEF Connect, vars, server, scan, infos, client
<1> QED
  BY <1>2, <1>3, <1>4, <1>6, <1>7, <1>8, <1>9, <1>10, <1>11, Zenon
     DEF Next, MainLoopStep, ClientStep

\* A step that leaves the devices, the list and the reports alone is a call that
\* begins, goes on or returns.
LEMMA PulseCallsGoOn ==
  ASSUME UNCHANGED <<devices, safe_devices_info, disconnects>>,
         \/ UNCHANGED cpc
         \/ cpc' \notin {"off", "idle"}
         \/ cpc \notin {"off", "idle"} /\ cpc' # "off"
  PROVE  [Events!EventsNext]_(Events!eventVars)
<1>1. UNCHANGED Shown
  BY DEF Shown
<1>2. \/ UNCHANGED Place
      \/ Place' = "call"
      \/ Place = "call" /\ Place' \in {"call", "idle"}
  BY DEF Place
<1> QED
  BY <1>1, <1>2, Zenon DEF Events!EventsNext, Events!eventVars, Events!Begin, Events!Return,
     Events!InCall

\* Nothing but a connection's end leaves for "off".
LEMMA PulsePublishStays ==
  ASSUME NEW err, NEW ready, Publish(err, ready)
  PROVE  cpc' \in {"shutdown", "change", "between", "idle"}
BY Zenon DEF Publish, Return

LEMMA PulseSteps ==
  ASSUME PulseLists, PulseReports, PulseScansAreLater, [Next]_vars
  PROVE  [Events!EventsNext]_(Events!eventVars)
<1>1. CASE DevicesChange
  <2>1. devices' = devices + 1 /\ UNCHANGED <<cpc, safe_devices_info, disconnects>>
    BY <1>1, Zenon DEF DevicesChange, infos, client
  <2>2. UNCHANGED <<Place, Shown>>
    BY <2>1 DEF Place, Shown
  <2> QED
    BY <2>1, <2>2, Zenon DEF Events!EventsNext, Events!Change
<1>2. CASE ScanWoken
  <2>1. /\ cpc = "scan" /\ UNCHANGED <<devices, current_devices_info, disconnects>>
        /\ UNCHANGED safe_devices_info \/ safe_devices_info' = current_devices_info
    BY <1>2, PulseScans, Zenon
  <2>2. cpc' \in {"scan", "shutdown", "change", "between", "idle"}
    BY <1>2, PulsePublishStays, Zenon DEF ScanWoken
  <2>3. CASE UNCHANGED safe_devices_info
    BY <2>1, <2>2, <2>3, PulseCallsGoOn, Zenon
  <2>4. CASE safe_devices_info' = current_devices_info
    <3>1. Shown' = Scanned
      BY <2>4 DEF Shown, Scanned
    <3>2. Place = "call" /\ Place' \in {"call", "idle"}
      BY <2>1, <2>2 DEF Place
    <3>3. disconnects = 0
      BY <2>1, Zenon DEF PulseReports
    <3>4. Shown' \in SUBSET (0..devices) /\ \A old \in Shown, new \in Shown' : old <= new
      BY <2>1, <3>1, Zenon DEF PulseScansAreLater
    <3>5. Events!Show(Shown')
      BY <2>1, <3>2, <3>3, <3>4, Zenon DEF Events!Show, Events!InCall
    <3> QED
      BY <3>4, <3>5, Zenon DEF Events!EventsNext
  <2> QED
    BY <2>1, <2>3, <2>4
<1>3. CASE OnBackendDisconnect
  <2>1. /\ cpc = "shutdown" /\ cpc' \in {"between", "idle"}
        /\ UNCHANGED <<devices, safe_devices_info>> /\ disconnects' = disconnects + 1
    BY <1>3, Zenon DEF OnBackendDisconnect, Return, server, infos
  <2>2. disconnects = 0
    BY <2>1, Zenon DEF PulseReports
  <2>3. disconnects' = 1
    BY <2>1, <2>2
  <2>4. Place = "call" /\ Place' \in {"call", "idle"} /\ UNCHANGED Shown
    BY <2>1 DEF Place, Shown
  <2> QED
    BY <2>1, <2>2, <2>3, <2>4, Zenon DEF Events!EventsNext, Events!Report, Events!InCall
<1>4. CASE TearDown /\ cpc \in {"init", "idle"}
  <2>1. /\ cpc' = "off" /\ UNCHANGED devices
        /\ safe_devices_info' = <<>> /\ disconnects' = 0
    BY <1>4, Zenon DEF TearDown, NoInfo
  <2>2. Place # "off" /\ Place' = "off"
    BY <1>4, <2>1 DEF Place
  <2>3. Shown' = {}
    BY <2>1 DEF Shown
  <2> QED
    BY <2>1, <2>2, <2>3, Zenon DEF Events!EventsNext, Events!Disconnect
<1>5. CASE InitDone \/ Disconnect
  <2>1. \/ TearDown /\ cpc \in {"init", "idle"}
        \/ /\ cpc = "init" /\ cpc' = "idle"
           /\ UNCHANGED <<devices, safe_devices_info, disconnects>>
    BY <1>5, Zenon DEF InitDone, Disconnect, server, infos
  <2> QED
    BY <1>4, <2>1, PulseCallsGoOn, Zenon
<1>6. CASE FlushNow \/ FlushWoken
  <2>1. cpc \in {"flush", "wait"} /\ UNCHANGED <<devices, disconnects, safe_devices_info>>
    BY <1>6, PulseFlushes, Zenon DEF PulseLists
  <2>2. cpc' \in {"scan", "shutdown", "change", "between", "idle"}
    BY <1>6, PulsePublishStays, Zenon DEF FlushNow, FlushWoken, FlushBody, BeginScan
  <2> QED
    BY <2>1, <2>2, PulseCallsGoOn, Zenon
<1>7. CASE ContextReady \/ ContextFailed \/ SubscribeCallback \/ Wakeup \/ ForceDeviceScan
  BY <1>7, PulseCallsGoOn, Zenon
     DEF ContextReady, ContextFailed, SubscribeCallback, Wakeup, ForceDeviceScan, server, infos
<1>8. ASSUME NEW out_of_memory, QueryReply(out_of_memory)
      PROVE  [Events!EventsNext]_(Events!eventVars)
  BY <1>8, PulseCallsGoOn, Zenon DEF QueryReply, server, infos
<1>9. CASE OnDevicesChange \/ FlushWaits
  <2>1. /\ UNCHANGED <<devices, safe_devices_info, disconnects>>
        /\ cpc \in {"change", "between"} /\ cpc' \in {"between", "idle", "wait"}
    BY <1>9, Zenon DEF OnDevicesChange, FlushWaits, Return, server, infos
  <2> QED
    BY <2>1, PulseCallsGoOn, Zenon
<1>10. ASSUME NEW kind, Call(kind) PROVE [Events!EventsNext]_(Events!eventVars)
  <2>1. UNCHANGED <<devices, safe_devices_info, disconnects>> /\ cpc' = "flush"
    BY <1>10, Zenon DEF Call, server, infos
  <2> QED
    BY <2>1, PulseCallsGoOn, Zenon
<1>11. CASE Connect
  <2>1. UNCHANGED <<devices, safe_devices_info, disconnects>> /\ cpc' = "init"
    BY <1>11, Zenon DEF Connect, infos
  <2> QED
    BY <2>1, PulseCallsGoOn, Zenon
<1>12. CASE UNCHANGED vars
  BY <1>12, PulseCallsGoOn, Zenon DEF vars, server, infos, client
<1> QED
  BY <1>1, <1>2, <1>3, <1>5, <1>6, <1>7, <1>8, <1>9, <1>10, <1>11, <1>12, Zenon
     DEF Next, MainLoopStep, ClientStep

\* What the client of a PulseAudio connection sees is what DeviceEvents promises:
\* lists in the order of the versions, in its own calls only, and none after the
\* one report of an error (pulseaudio.c:380-484).
THEOREM PulseShowsInOrder == Spec => ShowsInOrder
<1>1. Init => PulseReports /\ PulseScansAreLater /\ Events!EventsInit
  <2> SUFFICES ASSUME Init PROVE PulseReports /\ PulseScansAreLater /\ Events!EventsInit
    OBVIOUS
  <2>1. PulseReports
    BY Zenon DEF Init, PulseReports
  <2>2. Place = "off" /\ Shown = {}
    BY DEF Init, Place, Shown, NoInfo
  <2>3. PulseScansAreLater
    BY <2>2 DEF Init, PulseScansAreLater
  <2> QED
    BY <2>1, <2>2, <2>3, Zenon DEF Init, Events!EventsInit
<1>2. PulseInv => PulseLists
  BY DEF PulseInv
<1> QED
  BY <1>1, <1>2, PulseInvariant, PulseReportsStep, PulseScansAreLaterStep, PulseSteps, PTL
     DEF Spec, ShowsInOrder, Events!EventsSpec

-----------------------------------------------------------------------------
(* ALSA.                                                                   *)

AlsaFlags ==
  /\ pipe \in BOOLEAN /\ abort_flag \in BOOLEAN /\ have_devices_flag \in BOOLEAN
  /\ shutdown_err \in BOOLEAN /\ emitted_shutdown_cb \in BOOLEAN
  /\ got_rescan_event \in BOOLEAN /\ signalled \in BOOLEAN

\* There is a thread while there is a connection.
AlsaPlaces ==
  /\ dpc \in {"none", "poll", "test", "inotify", "scan", "publish", "done"}
  /\ cpc \in {"off", "idle", "flush", "between", "wait", "shutdown", "change", "waking", "joining"}
  /\ call \in {"none", "flush_events", "wait_events 1", "wait_events 2"}
  /\ cpc = "off" => dpc = "none"

AlsaEvents == {"IN_CREATE", "IN_CLOSE_WRITE", "IN_DELETE"} \X Files

AlsaKernel ==
  /\ present \in SUBSET Files /\ settled \in SUBSET Files /\ settled \subseteq present
  /\ changes \in 0..MaxChanges
  /\ events \in Seq(AlsaEvents)
  /\ pending_files \in [Files -> Nat]
  /\ revents \subseteq {"inotify", "pipe", "EINTR", "ENOMEM"}

\* What is to be published has been found.
AlsaLists ==
  /\ devices_info \in (SUBSET Files) \union {Alsa!NoInfo}
  /\ ready_devices_info \in (SUBSET Files) \union {Alsa!NoInfo}
  /\ safe_devices_info \in (SUBSET Files) \union {Alsa!NoInfo}
  /\ dpc = "publish" => devices_info # Alsa!NoInfo

\* Events that say of a change; that a file was closed does not.
AlsaToldOf == \E i \in 1..Len(events) : events[i][1] # "IN_CLOSE_WRITE"

\* Files are awaited; this one is the last of them.
AlsaAwaits(p) == \E f \in Files : p[f] # 0
AlsaAwaitsOnly(p, f) == p[f] = 1 /\ \A g \in Files \ {f} : p[g] = 0

\* A request for a scan that is about to be published is no request any more.
AlsaSeen ==
  Alsa!Watching =>
    \/ Alsa!Newest = present
    \/ AlsaToldOf
    \/ pipe = TRUE \/ dpc = "scan" \/ (dpc # "publish" /\ got_rescan_event = TRUE)
    \/ AlsaAwaits(pending_files)

AlsaInv == AlsaFlags /\ AlsaPlaces /\ AlsaKernel /\ AlsaLists /\ AlsaSeen

\* A change is still told of when an event is put behind it.
LEMMA ToldOfAppend ==
  ASSUME NEW S, NEW s \in Seq(S), NEW x \in S
  PROVE  /\ Append(s, x) \in Seq(S) /\ Append(s, x) # <<>>
         /\ (\E i \in 1..Len(s) : s[i][1] # "IN_CLOSE_WRITE") =>
              \E i \in 1..Len(Append(s, x)) : Append(s, x)[i][1] # "IN_CLOSE_WRITE"
         /\ x[1] # "IN_CLOSE_WRITE" =>
              \E i \in 1..Len(Append(s, x)) : Append(s, x)[i][1] # "IN_CLOSE_WRITE"
<1>1. Append(s, x) \in Seq(S) /\ Len(Append(s, x)) = Len(s) + 1 /\ Append(s, x)[Len(s) + 1] = x
  OBVIOUS
<1>2. \A i \in 1..Len(s) : Append(s, x)[i] = s[i] /\ i \in 1..Len(Append(s, x))
  OBVIOUS
<1>3. Len(s) + 1 \in 1..Len(Append(s, x)) /\ Append(s, x) # <<>>
  BY <1>1
<1> QED
  BY <1>1, <1>2, <1>3, Zenon

\* It is still told of when the event that a file was closed is read.
LEMMA ToldOfTail ==
  ASSUME NEW S, NEW s \in Seq(S), s # <<>>
  PROVE  /\ Head(s) \in S /\ Tail(s) \in Seq(S)
         /\ (Head(s)[1] = "IN_CLOSE_WRITE" /\ \E i \in 1..Len(s) : s[i][1] # "IN_CLOSE_WRITE") =>
              \E i \in 1..Len(Tail(s)) : Tail(s)[i][1] # "IN_CLOSE_WRITE"
<1>1. Head(s) \in S /\ Tail(s) \in Seq(S) /\ Head(s) = s[1]
  OBVIOUS
<1>2. ASSUME Head(s)[1] = "IN_CLOSE_WRITE", NEW i \in 1..Len(s), s[i][1] # "IN_CLOSE_WRITE"
      PROVE  \E j \in 1..Len(Tail(s)) : Tail(s)[j][1] # "IN_CLOSE_WRITE"
  <2>1. i # 1
    BY <1>1, <1>2
  <2>2. i - 1 \in 1..Len(Tail(s)) /\ Tail(s)[i - 1] = s[i]
    BY <2>1
  <2> QED
    BY <1>2, <2>2
<1> QED
  BY <1>1, <1>2

\* A file that is noted is awaited.
LEMMA NotedIsAwaited ==
  ASSUME NEW p \in [Files -> Nat], NEW f \in Files, NEW q, q = [p EXCEPT ![f] = @ + 1]
  PROVE  q \in [Files -> Nat] /\ AlsaAwaits(q)
<1>1. q \in [Files -> Nat] /\ q[f] = p[f] + 1
  OBVIOUS
<1>2. q[f] # 0
  BY <1>1
<1> QED
  BY <1>1, <1>2 DEF AlsaAwaits

\* When a file is closed others are still awaited, unless it was the last.
LEMMA ClosedOrAwaited ==
  ASSUME NEW p \in [Files -> Nat], NEW f \in Files, NEW q,
         q = [p EXCEPT ![f] = IF @ > 0 THEN @ - 1 ELSE 0]
  PROVE  /\ q \in [Files -> Nat]
         /\ AlsaAwaits(p) => AlsaAwaits(q) \/ AlsaAwaitsOnly(p, f)
<1>1. q \in [Files -> Nat]
  OBVIOUS
<1>2. ASSUME NEW g \in Files \ {f}, p[g] # 0 PROVE q[g] # 0
  BY <1>2
<1>3. p[f] \in Nat /\ ((p[f] # 0 /\ p[f] # 1) => q[f] # 0)
  OBVIOUS
<1> QED
  BY <1>1, <1>2, <1>3 DEF AlsaAwaits, AlsaAwaitsOnly

\* While there is a connection, what happens in /dev/snd is told of.
LEMMA AlsaNotifies ==
  ASSUME MaxChanges \in Nat, AlsaKernel,
         NEW kind \in {"IN_CREATE", "IN_CLOSE_WRITE", "IN_DELETE"}, NEW f \in Files,
         Alsa!Notify(kind, f)
  PROVE  /\ events' \in Seq(AlsaEvents) /\ changes' \in 0..MaxChanges
         /\ UNCHANGED <<pipe, ready_devices_info, safe_devices_info, pending_files, dpc, revents,
                        got_rescan_event, devices_info, cpc>>
         /\ AlsaToldOf => AlsaToldOf'
         /\ (Alsa!Connected /\ kind # "IN_CLOSE_WRITE") => AlsaToldOf'
<1> DEFINE e == <<kind, f>>
<1>1. e \in AlsaEvents /\ e[1] = kind
  BY DEF AlsaEvents
<1>2. changes' \in 0..MaxChanges
  BY DEF AlsaKernel, Alsa!Notify
<1>3. UNCHANGED <<pipe, ready_devices_info, safe_devices_info, pending_files, dpc, revents,
                  got_rescan_event, devices_info, cpc>>
  BY DEF Alsa!Notify, Alsa!infos, Alsa!thread
<1>4. events' = IF Alsa!Connected THEN Append(events, e) ELSE events
  BY Zenon DEF Alsa!Notify
<1>5. events \in Seq(AlsaEvents)
  BY DEF AlsaKernel
<1> HIDE DEF e
<1>6. CASE Alsa!Connected
  <2>1. events' = Append(events, e)
    BY <1>4, <1>6, Zenon
  <2>2. /\ Append(events, e) \in Seq(AlsaEvents)
        /\ AlsaToldOf =>
             \E i \in 1..Len(Append(events, e)) : Append(events, e)[i][1] # "IN_CLOSE_WRITE"
        /\ kind # "IN_CLOSE_WRITE" =>
             \E i \in 1..Len(Append(events, e)) : Append(events, e)[i][1] # "IN_CLOSE_WRITE"
    BY <1>1, <1>5, ToldOfAppend, Zenon DEF AlsaToldOf
  <2>3. /\ events' \in Seq(AlsaEvents)
        /\ AlsaToldOf => AlsaToldOf'
        /\ kind # "IN_CLOSE_WRITE" => AlsaToldOf'
    BY <2>1, <2>2, Zenon DEF AlsaToldOf
  <2> QED
    BY <1>2, <1>3, <2>3, Zenon
<1>7. CASE ~Alsa!Connected
  BY <1>2, <1>3, <1>4, <1>5, <1>7, Zenon DEF AlsaToldOf
<1> QED
  BY <1>6, <1>7

\* What reading an event about a file comes to: the file is awaited or the thread
\* ends, the file is no longer awaited, or it is gone.
AlsaReadOf(f) ==
  \/ dpc' = dpc /\ pending_files' = [pending_files EXCEPT ![f] = @ + 1]
  \/ dpc' = "done" /\ UNCHANGED pending_files
  \/ Head(events)[1] = "IN_CLOSE_WRITE" /\ dpc' = dpc /\ Alsa!CloseFile(f)
  \/ dpc' = dpc /\ Alsa!DeleteFile(f)

\* An event is read, and it is about one of the files.
LEMMA AlsaReads ==
  ASSUME AlsaKernel, Alsa!ReadEvent
  PROVE  /\ events # <<>> /\ events' = Tail(events) /\ dpc = "inotify"
         /\ Head(events) \in AlsaEvents /\ events' \in Seq(AlsaEvents)
         /\ UNCHANGED <<present, settled, changes, pipe, revents, devices_info, ready_devices_info,
                        safe_devices_info, cpc, call>>
         /\ dpc' \in {"inotify", "done"} /\ \E f \in Files : AlsaReadOf(f)
<1>1. /\ events # <<>> /\ events' = Tail(events) /\ dpc = "inotify"
      /\ UNCHANGED <<present, settled, changes, pipe, revents, devices_info, ready_devices_info,
                     safe_devices_info, cpc, call>>
  BY DEF Alsa!ReadEvent, Alsa!infos
<1>2. Head(events) \in AlsaEvents /\ Tail(events) \in Seq(AlsaEvents)
  BY <1>1, ToldOfTail DEF AlsaKernel
<1>3. Head(events)[2] \in Files
  BY <1>2 DEF AlsaEvents
<1>4. \/ Head(events)[1] = "IN_CREATE" /\ Alsa!AwaitFile(Head(events)[2])
      \/ Head(events)[1] = "IN_CLOSE_WRITE" /\ Alsa!CloseFile(Head(events)[2])
      \/ Head(events)[1] = "IN_DELETE" /\ Alsa!DeleteFile(Head(events)[2])
  BY Zenon DEF Alsa!ReadEvent
<1>5. CASE Head(events)[1] = "IN_CREATE" /\ Alsa!AwaitFile(Head(events)[2])
  <2>1. dpc' \in {"inotify", "done"}
    BY <1>1, <1>5, Zenon DEF Alsa!AwaitFile, Alsa!Shutdown
  <2> QED
    BY <1>1, <1>2, <1>3, <1>5, <2>1, Zenon DEF AlsaReadOf, Alsa!AwaitFile, Alsa!Shutdown
<1>6. CASE Head(events)[1] = "IN_CLOSE_WRITE" /\ Alsa!CloseFile(Head(events)[2])
  <2>1. dpc' = dpc
    BY <1>6, Zenon DEF Alsa!CloseFile
  <2> QED
    BY <1>1, <1>2, <1>3, <1>6, <2>1, Zenon DEF AlsaReadOf
<1>7. CASE Head(events)[1] = "IN_DELETE" /\ Alsa!DeleteFile(Head(events)[2])
  <2>1. dpc' = dpc
    BY <1>7, Zenon DEF Alsa!DeleteFile
  <2> QED
    BY <1>1, <1>2, <1>3, <1>7, <2>1, Zenon DEF AlsaReadOf
<1> QED
  BY <1>4, <1>5, <1>6, <1>7, Zenon

\* Both threads leave the flags Boolean.
LEMMA AlsaFlagsStep == AlsaFlags /\ [Alsa!Next]_(Alsa!vars) => AlsaFlags'
<1> SUFFICES ASSUME AlsaFlags, [Alsa!Next]_(Alsa!vars) PROVE AlsaFlags'
  OBVIOUS
<1> USE DEF AlsaFlags
<1>1. ASSUME NEW f \in Files, Alsa!FileCreated(f)
      PROVE  AlsaFlags'
  BY <1>1, Zenon DEF Alsa!FileCreated, Alsa!Notify, Alsa!status, Alsa!infos, Alsa!thread
<1>2. ASSUME NEW f \in Files, Alsa!FileClosed(f)
      PROVE  AlsaFlags'
  BY <1>2, Zenon DEF Alsa!FileClosed, Alsa!Notify, Alsa!status, Alsa!infos, Alsa!thread
<1>3. ASSUME NEW f \in Files, Alsa!FileDeleted(f)
      PROVE  AlsaFlags'
  BY <1>3, Zenon DEF Alsa!FileDeleted, Alsa!Notify, Alsa!status, Alsa!infos, Alsa!thread
<1>4. CASE Alsa!PollReady
  BY <1>4, Zenon DEF Alsa!PollReady, Alsa!kernel, Alsa!status, Alsa!infos
<1>5. ASSUME NEW errno \in {"EINTR", "ENOMEM"}, Alsa!PollFails(errno)
      PROVE  AlsaFlags'
  BY <1>5, Zenon DEF Alsa!PollFails, Alsa!kernel, Alsa!status, Alsa!infos
<1>6. CASE Alsa!TestAbort
  BY <1>6, Zenon DEF Alsa!TestAbort, Alsa!Shutdown, Alsa!Signal, Alsa!kernel, Alsa!infos
<1>7. CASE Alsa!ReadEvent
  BY <1>7, Zenon DEF Alsa!ReadEvent, Alsa!AwaitFile, Alsa!CloseFile, Alsa!DeleteFile,
                     Alsa!Shutdown, Alsa!Signal, Alsa!NonePending, Alsa!infos
<1>8. CASE Alsa!ReadPipe
  BY <1>8, Zenon DEF Alsa!ReadPipe, Alsa!kernel, Alsa!status, Alsa!infos
<1>9. CASE Alsa!Scan
  BY <1>9, Zenon DEF Alsa!Scan, Alsa!Shutdown, Alsa!Signal, Alsa!kernel, Alsa!infos
<1>10. CASE Alsa!PublishScan
  BY <1>10, Zenon DEF Alsa!PublishScan, Alsa!Signal, Alsa!NoInfo, Alsa!kernel
<1>11. CASE Alsa!Connect
  BY <1>11, Zenon DEF Alsa!Connect, Alsa!kernel, Alsa!status, Alsa!infos
<1>12. ASSUME NEW kind \in {"flush_events", "wait_events 1"}, Alsa!Call(kind)
       PROVE  AlsaFlags'
  BY <1>12, Zenon DEF Alsa!Call, Alsa!kernel, Alsa!status, Alsa!infos, Alsa!thread
<1>13. CASE Alsa!Flush
  BY <1>13, Zenon DEF Alsa!Flush, Alsa!FlushBody, Alsa!MayFlush, Alsa!Return, Alsa!NoInfo,
                      Alsa!kernel, Alsa!infos, Alsa!thread
<1>14. CASE Alsa!Woken
  BY <1>14, Zenon DEF Alsa!Woken, Alsa!FlushBody, Alsa!MayFlush, Alsa!Return, Alsa!NoInfo,
                      Alsa!kernel, Alsa!infos, Alsa!thread
<1>15. CASE Alsa!OnBackendDisconnect
  BY <1>15, Zenon DEF Alsa!OnBackendDisconnect, Alsa!Return, Alsa!kernel, Alsa!status,
                      Alsa!infos, Alsa!thread
<1>16. CASE Alsa!OnDevicesChange
  BY <1>16, Zenon DEF Alsa!OnDevicesChange, Alsa!Return, Alsa!kernel, Alsa!status, Alsa!infos,
                      Alsa!thread
<1>17. CASE Alsa!AbortThread
  BY <1>17, Zenon DEF Alsa!AbortThread, Alsa!kernel, Alsa!status, Alsa!infos, Alsa!thread
<1>18. CASE Alsa!WakeThread
  BY <1>18, Zenon DEF Alsa!WakeThread, Alsa!kernel, Alsa!status, Alsa!infos, Alsa!thread
<1>19. CASE Alsa!Join
  BY <1>19, Zenon DEF Alsa!Join, Alsa!NoInfo
<1>20. CASE Alsa!Wakeup
  BY <1>20, Zenon DEF Alsa!Wakeup, Alsa!Signal, Alsa!kernel, Alsa!status, Alsa!infos,
                      Alsa!thread
<1>21. CASE Alsa!ForceDeviceScan
  BY <1>21, Zenon DEF Alsa!ForceDeviceScan, Alsa!kernel, Alsa!status, Alsa!infos, Alsa!thread
<1>22. CASE UNCHANGED Alsa!vars
  BY <1>22, Zenon DEF Alsa!vars, Alsa!kernel, Alsa!status, Alsa!infos, Alsa!thread
<1> QED
  BY <1>1, <1>2, <1>3, <1>4, <1>5, <1>6, <1>7, <1>8, <1>9, <1>10, <1>11, <1>12, <1>13,
     <1>14, <1>15, <1>16, <1>17, <1>18, <1>19, <1>20, <1>21, <1>22, Zenon
     DEF Alsa!Next, Alsa!KernelStep, Alsa!ThreadStep, Alsa!ClientStep

\* One step per step of a thread.
LEMMA AlsaPlacesStep == AlsaKernel /\ AlsaPlaces /\ [Alsa!Next]_(Alsa!vars) => AlsaPlaces'
<1> SUFFICES ASSUME AlsaKernel, AlsaPlaces, [Alsa!Next]_(Alsa!vars) PROVE AlsaPlaces'
  OBVIOUS
<1> USE DEF AlsaPlaces
<1>1. ASSUME NEW f \in Files, Alsa!FileCreated(f)
      PROVE  AlsaPlaces'
  BY <1>1 DEF Alsa!FileCreated, Alsa!Notify, Alsa!status, Alsa!infos, Alsa!thread
<1>2. ASSUME NEW f \in Files, Alsa!FileClosed(f)
      PROVE  AlsaPlaces'
  BY <1>2 DEF Alsa!FileClosed, Alsa!Notify, Alsa!status, Alsa!infos, Alsa!thread
<1>3. ASSUME NEW f \in Files, Alsa!FileDeleted(f)
      PROVE  AlsaPlaces'
  BY <1>3 DEF Alsa!FileDeleted, Alsa!Notify, Alsa!status, Alsa!infos, Alsa!thread
<1>4. CASE Alsa!PollReady
  BY <1>4 DEF Alsa!PollReady, Alsa!kernel, Alsa!status, Alsa!infos
<1>5. ASSUME NEW errno \in {"EINTR", "ENOMEM"}, Alsa!PollFails(errno)
      PROVE  AlsaPlaces'
  BY <1>5 DEF Alsa!PollFails, Alsa!kernel, Alsa!status, Alsa!infos
<1>6. CASE Alsa!TestAbort
  BY <1>6 DEF Alsa!TestAbort, Alsa!Shutdown, Alsa!Signal, Alsa!kernel, Alsa!infos
<1>7. CASE Alsa!ReadEvent
  BY <1>7, AlsaReads
<1>8. CASE Alsa!ReadPipe
  BY <1>8 DEF Alsa!ReadPipe, Alsa!kernel, Alsa!status, Alsa!infos
<1>9. CASE Alsa!Scan
  BY <1>9 DEF Alsa!Scan, Alsa!Shutdown, Alsa!Signal, Alsa!kernel, Alsa!infos
<1>10. CASE Alsa!PublishScan
  BY <1>10 DEF Alsa!PublishScan, Alsa!Signal, Alsa!NoInfo, Alsa!kernel
<1>11. CASE Alsa!Connect
  BY <1>11 DEF Alsa!Connect, Alsa!kernel, Alsa!status, Alsa!infos
<1>12. ASSUME NEW kind \in {"flush_events", "wait_events 1"}, Alsa!Call(kind)
       PROVE  AlsaPlaces'
  BY <1>12 DEF Alsa!Call, Alsa!kernel, Alsa!status, Alsa!infos, Alsa!thread
<1>13. CASE Alsa!Flush
  BY <1>13 DEF Alsa!Flush, Alsa!FlushBody, Alsa!MayFlush, Alsa!Return, Alsa!NoInfo, Alsa!kernel,
               Alsa!infos, Alsa!thread
<1>14. CASE Alsa!Woken
  BY <1>14 DEF Alsa!Woken, Alsa!FlushBody, Alsa!MayFlush, Alsa!Return, Alsa!NoInfo, Alsa!kernel,
               Alsa!infos, Alsa!thread
<1>15. CASE Alsa!OnBackendDisconnect
  BY <1>15 DEF Alsa!OnBackendDisconnect, Alsa!Return, Alsa!kernel, Alsa!status, Alsa!infos,
               Alsa!thread
<1>16. CASE Alsa!OnDevicesChange
  BY <1>16 DEF Alsa!OnDevicesChange, Alsa!Return, Alsa!kernel, Alsa!status, Alsa!infos,
               Alsa!thread
<1>17. CASE Alsa!AbortThread
  BY <1>17 DEF Alsa!AbortThread, Alsa!kernel, Alsa!status, Alsa!infos, Alsa!thread
<1>18. CASE Alsa!WakeThread
  BY <1>18 DEF Alsa!WakeThread, Alsa!kernel, Alsa!status, Alsa!infos, Alsa!thread
<1>19. CASE Alsa!Join
  BY <1>19 DEF Alsa!Join, Alsa!NoInfo
<1>20. CASE Alsa!Wakeup
  BY <1>20 DEF Alsa!Wakeup, Alsa!Signal, Alsa!kernel, Alsa!status, Alsa!infos, Alsa!thread
<1>21. CASE Alsa!ForceDeviceScan
  BY <1>21 DEF Alsa!ForceDeviceScan, Alsa!kernel, Alsa!status, Alsa!infos, Alsa!thread
<1>22. CASE UNCHANGED Alsa!vars
  BY <1>22 DEF Alsa!vars, Alsa!kernel, Alsa!status, Alsa!infos, Alsa!thread
<1> QED
  BY <1>1, <1>2, <1>3, <1>4, <1>5, <1>6, <1>7, <1>8, <1>9, <1>10, <1>11, <1>12, <1>13,
     <1>14, <1>15, <1>16, <1>17, <1>18, <1>19, <1>20, <1>21, <1>22, Zenon
     DEF Alsa!Next, Alsa!KernelStep, Alsa!ThreadStep, Alsa!ClientStep

\* Events are put behind and read from the front; files are counted.
LEMMA AlsaKernelStep ==
  ASSUME MaxChanges \in Nat, AlsaKernel, [Alsa!Next]_(Alsa!vars)
  PROVE  AlsaKernel'
<1> USE DEF AlsaKernel
<1>1. ASSUME NEW f \in Files, Alsa!FileCreated(f)
      PROVE  AlsaKernel'
  <2>1. Alsa!Notify("IN_CREATE", f)
    BY <1>1 DEF Alsa!FileCreated
  <2>2. /\ events' \in Seq(AlsaEvents) /\ changes' \in 0..MaxChanges
        /\ UNCHANGED <<pending_files, revents>>
    BY <2>1, AlsaNotifies
  <2>3. present' \in SUBSET Files /\ settled' \in SUBSET Files /\ settled' \subseteq present'
    BY <1>1 DEF Alsa!FileCreated
  <2> QED
    BY <2>2, <2>3
<1>2. ASSUME NEW f \in Files, Alsa!FileClosed(f)
      PROVE  AlsaKernel'
  <2>1. Alsa!Notify("IN_CLOSE_WRITE", f)
    BY <1>2 DEF Alsa!FileClosed
  <2>2. /\ events' \in Seq(AlsaEvents) /\ changes' \in 0..MaxChanges
        /\ UNCHANGED <<pending_files, revents>>
    BY <2>1, AlsaNotifies
  <2>3. present' \in SUBSET Files /\ settled' \in SUBSET Files /\ settled' \subseteq present'
    BY <1>2 DEF Alsa!FileClosed
  <2> QED
    BY <2>2, <2>3
<1>3. ASSUME NEW f \in Files, Alsa!FileDeleted(f)
      PROVE  AlsaKernel'
  <2>1. Alsa!Notify("IN_DELETE", f)
    BY <1>3 DEF Alsa!FileDeleted
  <2>2. /\ events' \in Seq(AlsaEvents) /\ changes' \in 0..MaxChanges
        /\ UNCHANGED <<pending_files, revents>>
    BY <2>1, AlsaNotifies
  <2>3. present' \in SUBSET Files /\ settled' \in SUBSET Files /\ settled' \subseteq present'
    BY <1>3 DEF Alsa!FileDeleted
  <2> QED
    BY <2>2, <2>3
<1>4. CASE Alsa!PollReady
  BY <1>4 DEF Alsa!PollReady, Alsa!kernel, Alsa!status, Alsa!infos
<1>5. ASSUME NEW errno \in {"EINTR", "ENOMEM"}, Alsa!PollFails(errno)
      PROVE  AlsaKernel'
  BY <1>5 DEF Alsa!PollFails, Alsa!kernel, Alsa!status, Alsa!infos
<1>6. CASE Alsa!TestAbort
  BY <1>6 DEF Alsa!TestAbort, Alsa!Shutdown, Alsa!Signal, Alsa!kernel, Alsa!infos
<1>7. CASE Alsa!ReadEvent
  <2>1. events' \in Seq(AlsaEvents) /\ UNCHANGED <<present, settled, changes, revents>>
    BY <1>7, AlsaReads
  <2>2. PICK f \in Files : AlsaReadOf(f)
    BY <1>7, AlsaReads
  <2>3. \/ pending_files' = [pending_files EXCEPT ![f] = @ + 1]
        \/ UNCHANGED pending_files
        \/ pending_files' = [pending_files EXCEPT ![f] = IF @ > 0 THEN @ - 1 ELSE 0]
    BY <2>2, Zenon DEF AlsaReadOf, Alsa!CloseFile, Alsa!DeleteFile
  <2>4. pending_files \in [Files -> Nat]
    OBVIOUS
  <2>5. pending_files' \in [Files -> Nat]
    BY <2>3, <2>4, NotedIsAwaited, ClosedOrAwaited, Zenon
  <2> QED
    BY <2>1, <2>5
<1>8. CASE Alsa!ReadPipe
  BY <1>8 DEF Alsa!ReadPipe, Alsa!kernel, Alsa!status, Alsa!infos
<1>9. CASE Alsa!Scan
  BY <1>9 DEF Alsa!Scan, Alsa!Shutdown, Alsa!Signal, Alsa!kernel, Alsa!infos
<1>10. CASE Alsa!PublishScan
  BY <1>10 DEF Alsa!PublishScan, Alsa!Signal, Alsa!NoInfo, Alsa!kernel
<1>11. CASE Alsa!Connect
  BY <1>11 DEF Alsa!Connect, Alsa!kernel, Alsa!status, Alsa!infos
<1>12. ASSUME NEW kind \in {"flush_events", "wait_events 1"}, Alsa!Call(kind)
       PROVE  AlsaKernel'
  BY <1>12 DEF Alsa!Call, Alsa!kernel, Alsa!status, Alsa!infos, Alsa!thread
<1>13. CASE Alsa!Flush
  BY <1>13 DEF Alsa!Flush, Alsa!FlushBody, Alsa!MayFlush, Alsa!Return, Alsa!NoInfo, Alsa!kernel,
               Alsa!infos, Alsa!thread
<1>14. CASE Alsa!Woken
  BY <1>14 DEF Alsa!Woken, Alsa!FlushBody, Alsa!MayFlush, Alsa!Return, Alsa!NoInfo, Alsa!kernel,
               Alsa!infos, Alsa!thread
<1>15. CASE Alsa!OnBackendDisconnect
  BY <1>15 DEF Alsa!OnBackendDisconnect, Alsa!Return, Alsa!kernel, Alsa!status, Alsa!infos,
               Alsa!thread
<1>16. CASE Alsa!OnDevicesChange
  BY <1>16 DEF Alsa!OnDevicesChange, Alsa!Return, Alsa!kernel, Alsa!status, Alsa!infos,
               Alsa!thread
<1>17. CASE Alsa!AbortThread
  BY <1>17 DEF Alsa!AbortThread, Alsa!kernel, Alsa!status, Alsa!infos, Alsa!thread
<1>18. CASE Alsa!WakeThread
  BY <1>18 DEF Alsa!WakeThread, Alsa!kernel, Alsa!status, Alsa!infos, Alsa!thread
<1>19. CASE Alsa!Join
  BY <1>19 DEF Alsa!Join, Alsa!NoInfo
<1>20. CASE Alsa!Wakeup
  BY <1>20 DEF Alsa!Wakeup, Alsa!Signal, Alsa!kernel, Alsa!status, Alsa!infos, Alsa!thread
<1>21. CASE Alsa!ForceDeviceScan
  BY <1>21 DEF Alsa!ForceDeviceScan, Alsa!kernel, Alsa!status, Alsa!infos, Alsa!thread
<1>22. CASE UNCHANGED Alsa!vars
  BY <1>22 DEF Alsa!vars, Alsa!kernel, Alsa!status, Alsa!infos, Alsa!thread
<1> QED
  BY <1>1, <1>2, <1>3, <1>4, <1>5, <1>6, <1>7, <1>8, <1>9, <1>10, <1>11, <1>12, <1>13,
     <1>14, <1>15, <1>16, <1>17, <1>18, <1>19, <1>20, <1>21, <1>22, Zenon
     DEF Alsa!Next, Alsa!KernelStep, Alsa!ThreadStep, Alsa!ClientStep

\* What is published has been found.
LEMMA AlsaListsStep ==
  ASSUME "NULL" \notin Files, AlsaKernel, AlsaPlaces, AlsaLists, [Alsa!Next]_(Alsa!vars)
  PROVE  AlsaLists'
<1> USE DEF AlsaLists, Alsa!NoInfo
<1>1. ASSUME NEW f \in Files, Alsa!FileCreated(f)
      PROVE  AlsaLists'
  BY <1>1 DEF Alsa!FileCreated, Alsa!Notify, Alsa!status, Alsa!infos, Alsa!thread
<1>2. ASSUME NEW f \in Files, Alsa!FileClosed(f)
      PROVE  AlsaLists'
  BY <1>2 DEF Alsa!FileClosed, Alsa!Notify, Alsa!status, Alsa!infos, Alsa!thread
<1>3. ASSUME NEW f \in Files, Alsa!FileDeleted(f)
      PROVE  AlsaLists'
  BY <1>3 DEF Alsa!FileDeleted, Alsa!Notify, Alsa!status, Alsa!infos, Alsa!thread
<1>4. CASE Alsa!PollReady
  BY <1>4 DEF Alsa!PollReady, Alsa!kernel, Alsa!status, Alsa!infos
<1>5. ASSUME NEW errno \in {"EINTR", "ENOMEM"}, Alsa!PollFails(errno)
      PROVE  AlsaLists'
  BY <1>5 DEF Alsa!PollFails, Alsa!kernel, Alsa!status, Alsa!infos
<1>6. CASE Alsa!TestAbort
  BY <1>6 DEF Alsa!TestAbort, Alsa!Shutdown, Alsa!Signal, Alsa!kernel, Alsa!infos
<1>7. CASE Alsa!ReadEvent
  BY <1>7, AlsaReads
<1>8. CASE Alsa!ReadPipe
  BY <1>8 DEF Alsa!ReadPipe, Alsa!kernel, Alsa!status, Alsa!infos
<1>9. CASE Alsa!Scan
  <2>1. present \in SUBSET Files /\ present # {"NULL"}
    BY DEF AlsaKernel
  <2> QED
    BY <1>9, <2>1 DEF Alsa!Scan, Alsa!Shutdown, Alsa!infos
<1>10. CASE Alsa!PublishScan
  BY <1>10 DEF Alsa!PublishScan, Alsa!Signal, Alsa!NoInfo, Alsa!kernel
<1>11. CASE Alsa!Connect
  BY <1>11 DEF Alsa!Connect, Alsa!kernel, Alsa!status, Alsa!infos
<1>12. ASSUME NEW kind \in {"flush_events", "wait_events 1"}, Alsa!Call(kind)
       PROVE  AlsaLists'
  BY <1>12 DEF Alsa!Call, Alsa!kernel, Alsa!status, Alsa!infos, Alsa!thread
<1>13. CASE Alsa!Flush
  BY <1>13 DEF Alsa!Flush, Alsa!FlushBody, Alsa!MayFlush, Alsa!Return, Alsa!NoInfo, Alsa!kernel,
               Alsa!infos, Alsa!thread
<1>14. CASE Alsa!Woken
  BY <1>14 DEF Alsa!Woken, Alsa!FlushBody, Alsa!MayFlush, Alsa!Return, Alsa!NoInfo, Alsa!kernel,
               Alsa!infos, Alsa!thread
<1>15. CASE Alsa!OnBackendDisconnect
  BY <1>15 DEF Alsa!OnBackendDisconnect, Alsa!Return, Alsa!kernel, Alsa!status, Alsa!infos,
               Alsa!thread
<1>16. CASE Alsa!OnDevicesChange
  BY <1>16 DEF Alsa!OnDevicesChange, Alsa!Return, Alsa!kernel, Alsa!status, Alsa!infos,
               Alsa!thread
<1>17. CASE Alsa!AbortThread
  BY <1>17 DEF Alsa!AbortThread, Alsa!kernel, Alsa!status, Alsa!infos, Alsa!thread
<1>18. CASE Alsa!WakeThread
  BY <1>18 DEF Alsa!WakeThread, Alsa!kernel, Alsa!status, Alsa!infos, Alsa!thread
<1>19. CASE Alsa!Join
  BY <1>19 DEF Alsa!Join, Alsa!NoInfo
<1>20. CASE Alsa!Wakeup
  BY <1>20 DEF Alsa!Wakeup, Alsa!Signal, Alsa!kernel, Alsa!status, Alsa!infos, Alsa!thread
<1>21. CASE Alsa!ForceDeviceScan
  BY <1>21 DEF Alsa!ForceDeviceScan, Alsa!kernel, Alsa!status, Alsa!infos, Alsa!thread
<1>22. CASE UNCHANGED Alsa!vars
  BY <1>22 DEF Alsa!vars, Alsa!kernel, Alsa!status, Alsa!infos, Alsa!thread
<1> QED
  BY <1>1, <1>2, <1>3, <1>4, <1>5, <1>6, <1>7, <1>8, <1>9, <1>10, <1>11, <1>12, <1>13,
     <1>14, <1>15, <1>16, <1>17, <1>18, <1>19, <1>20, <1>21, <1>22, Zenon
     DEF Alsa!Next, Alsa!KernelStep, Alsa!ThreadStep, Alsa!ClientStep

\* A difference between the devices there are and the newest list is told of,
\* awaited or asked for.
LEMMA AlsaSeenStep ==
  ASSUME "NULL" \notin Files, MaxChanges \in Nat, AlsaInv, [Alsa!Next]_(Alsa!vars)
  PROVE  AlsaSeen'
<1> USE DEF AlsaInv, AlsaFlags, AlsaPlaces, AlsaKernel, AlsaLists, AlsaSeen, AlsaToldOf,
           AlsaAwaits, Alsa!Watching, Alsa!Newest
<1>1. ASSUME NEW f \in Files, Alsa!FileCreated(f)
      PROVE  AlsaSeen'
  <2>1. Alsa!Notify("IN_CREATE", f)
    BY <1>1 DEF Alsa!FileCreated
  <2>2. Alsa!Watching' => AlsaToldOf'
    BY <2>1, AlsaNotifies DEF Alsa!Connected
  <2> QED
    BY <2>2
<1>2. ASSUME NEW f \in Files, Alsa!FileClosed(f)
      PROVE  AlsaSeen'
  <2>1. Alsa!Notify("IN_CLOSE_WRITE", f)
    BY <1>2 DEF Alsa!FileClosed
  <2>2. UNCHANGED present
    BY <1>2 DEF Alsa!FileClosed
  <2> QED
    BY <2>1, <2>2, AlsaNotifies
<1>3. ASSUME NEW f \in Files, Alsa!FileDeleted(f)
      PROVE  AlsaSeen'
  <2>1. Alsa!Notify("IN_DELETE", f)
    BY <1>3 DEF Alsa!FileDeleted
  <2>2. Alsa!Watching' => AlsaToldOf'
    BY <2>1, AlsaNotifies DEF Alsa!Connected
  <2> QED
    BY <2>2
<1>4. CASE Alsa!PollReady
  BY <1>4 DEF Alsa!PollReady, Alsa!kernel, Alsa!status, Alsa!infos
<1>5. ASSUME NEW errno \in {"EINTR", "ENOMEM"}, Alsa!PollFails(errno)
      PROVE  AlsaSeen'
  BY <1>5 DEF Alsa!PollFails, Alsa!kernel, Alsa!status, Alsa!infos
<1>6. CASE Alsa!TestAbort
  BY <1>6 DEF Alsa!TestAbort, Alsa!Shutdown, Alsa!Signal, Alsa!kernel, Alsa!infos
<1>7. CASE Alsa!ReadEvent
  <2> HIDE DEF AlsaToldOf, AlsaAwaits
  <2>1. /\ UNCHANGED <<present, pipe, devices_info, ready_devices_info, safe_devices_info>>
        /\ events # <<>> /\ events' = Tail(events) /\ dpc = "inotify"
    BY <1>7, AlsaReads
  <2>2. PICK f \in Files : AlsaReadOf(f)
    BY <1>7, AlsaReads
  <2>3. CASE pending_files' = [pending_files EXCEPT ![f] = @ + 1]
    <3>1. pending_files \in [Files -> Nat]
      OBVIOUS
    <3>2. AlsaAwaits(pending_files')
      BY <2>3, <3>1, NotedIsAwaited, Zenon
    <3> QED
      BY <3>2
  <2>4. CASE dpc' = "done"
    BY <2>4
  <2>5. CASE Head(events)[1] = "IN_CLOSE_WRITE" /\ dpc' = dpc /\ Alsa!CloseFile(f)
    <3>1. AlsaToldOf => AlsaToldOf'
      BY <2>1, <2>5, ToldOfTail, Zenon DEF AlsaToldOf
    <3>2. /\ pending_files' = [pending_files EXCEPT ![f] = IF @ > 0 THEN @ - 1 ELSE 0]
          /\ got_rescan_event = TRUE => got_rescan_event' = TRUE
          /\ AlsaAwaitsOnly(pending_files, f) => got_rescan_event' = TRUE
      <4>1. got_rescan_event' = (got_rescan_event \/ AlsaAwaitsOnly(pending_files, f))
        BY <2>5, Zenon DEF Alsa!CloseFile, AlsaAwaitsOnly
      <4>2. pending_files' = [pending_files EXCEPT ![f] = IF @ > 0 THEN @ - 1 ELSE 0]
        BY <2>5 DEF Alsa!CloseFile
      <4>3. got_rescan_event = TRUE => got_rescan_event' = TRUE
        BY <4>1, Zenon
      <4>4. AlsaAwaitsOnly(pending_files, f) => got_rescan_event' = TRUE
        BY <4>1, Zenon
      <4> QED
        BY <4>2, <4>3, <4>4, Zenon
    <3>3. AlsaAwaits(pending_files) => AlsaAwaits(pending_files') \/ got_rescan_event' = TRUE
      <4>1. pending_files \in [Files -> Nat]
        OBVIOUS
      <4>2. pending_files' = [pending_files EXCEPT ![f] = IF @ > 0 THEN @ - 1 ELSE 0]
        BY <3>2, Zenon
      <4> QED
        BY <3>2, <4>1, <4>2, ClosedOrAwaited, Zenon
    <3> QED
      BY <2>1, <2>5, <3>1, <3>2, <3>3
  <2>6. CASE dpc' = dpc /\ Alsa!DeleteFile(f)
    <3>1. (\A g \in Files : pending_files[g] = 0) => got_rescan_event' = TRUE
      BY <2>6, Zenon DEF Alsa!DeleteFile, Alsa!NonePending
    <3>2. UNCHANGED pending_files
      BY <2>6, Zenon DEF Alsa!DeleteFile
    <3> QED
      BY <2>1, <2>6, <3>1, <3>2 DEF AlsaAwaits
  <2> QED
    BY <2>2, <2>3, <2>4, <2>5, <2>6, Zenon DEF AlsaReadOf
<1>8. CASE Alsa!ReadPipe
  BY <1>8 DEF Alsa!ReadPipe, Alsa!kernel, Alsa!status, Alsa!infos
<1>9. CASE Alsa!Scan
  <2>1. present # Alsa!NoInfo
    BY DEF Alsa!NoInfo
  <2>2. CASE dpc' = "done"
    BY <2>2
  <2>3. CASE devices_info' = present
    <3>1. UNCHANGED present
      BY <1>9 DEF Alsa!Scan, Alsa!kernel
    <3> QED
      BY <2>1, <2>3, <3>1
  <2> QED
    BY <1>9, <2>2, <2>3, Zenon DEF Alsa!Scan, Alsa!Shutdown
<1>10. CASE Alsa!PublishScan
  BY <1>10 DEF Alsa!PublishScan, Alsa!Signal, Alsa!NoInfo, Alsa!kernel
<1>11. CASE Alsa!Connect
  BY <1>11 DEF Alsa!Connect, Alsa!kernel, Alsa!status, Alsa!infos
<1>12. ASSUME NEW kind \in {"flush_events", "wait_events 1"}, Alsa!Call(kind)
       PROVE  AlsaSeen'
  BY <1>12 DEF Alsa!Call, Alsa!kernel, Alsa!status, Alsa!infos, Alsa!thread
<1>13. CASE Alsa!Flush
  BY <1>13 DEF Alsa!Flush, Alsa!FlushBody, Alsa!MayFlush, Alsa!Return, Alsa!NoInfo, Alsa!kernel,
               Alsa!infos, Alsa!thread
<1>14. CASE Alsa!Woken
  BY <1>14 DEF Alsa!Woken, Alsa!FlushBody, Alsa!MayFlush, Alsa!Return, Alsa!NoInfo, Alsa!kernel,
               Alsa!infos, Alsa!thread
<1>15. CASE Alsa!OnBackendDisconnect
  BY <1>15 DEF Alsa!OnBackendDisconnect, Alsa!Return, Alsa!kernel, Alsa!status, Alsa!infos,
               Alsa!thread
<1>16. CASE Alsa!OnDevicesChange
  BY <1>16 DEF Alsa!OnDevicesChange, Alsa!Return, Alsa!kernel, Alsa!status, Alsa!infos,
               Alsa!thread
<1>17. CASE Alsa!AbortThread
  BY <1>17 DEF Alsa!AbortThread, Alsa!kernel, Alsa!status, Alsa!infos, Alsa!thread
<1>18. CASE Alsa!WakeThread
  BY <1>18 DEF Alsa!WakeThread, Alsa!kernel, Alsa!status, Alsa!infos, Alsa!thread
<1>19. CASE Alsa!Join
  BY <1>19 DEF Alsa!Join, Alsa!NoInfo
<1>20. CASE Alsa!Wakeup
  BY <1>20 DEF Alsa!Wakeup, Alsa!Signal, Alsa!kernel, Alsa!status, Alsa!infos, Alsa!thread
<1>21. CASE Alsa!ForceDeviceScan
  BY <1>21 DEF Alsa!ForceDeviceScan, Alsa!kernel, Alsa!status, Alsa!infos, Alsa!thread
<1>22. CASE UNCHANGED Alsa!vars
  BY <1>22 DEF Alsa!vars, Alsa!kernel, Alsa!status, Alsa!infos, Alsa!thread
<1> QED
  BY <1>1, <1>2, <1>3, <1>4, <1>5, <1>6, <1>7, <1>8, <1>9, <1>10, <1>11, <1>12, <1>13,
     <1>14, <1>15, <1>16, <1>17, <1>18, <1>19, <1>20, <1>21, <1>22, Zenon
     DEF Alsa!Next, Alsa!KernelStep, Alsa!ThreadStep, Alsa!ClientStep

\* The invariant is the backend's from its beginning.
LEMMA AlsaInvariant == (MaxChanges \in Nat /\ "NULL" \notin Files) => (Alsa!Spec => []AlsaInv)
<1> SUFFICES ASSUME MaxChanges \in Nat, "NULL" \notin Files PROVE Alsa!Spec => []AlsaInv
  OBVIOUS
<1>1. Alsa!Init => AlsaInv
  <2> SUFFICES ASSUME Alsa!Init PROVE AlsaInv
    OBVIOUS
  <2>1. AlsaFlags
    BY Zenon DEF Alsa!Init, AlsaFlags
  <2>2. AlsaPlaces
    BY DEF Alsa!Init, AlsaPlaces
  <2>3. AlsaKernel
    BY DEF Alsa!Init, AlsaKernel
  <2>4. AlsaLists
    BY DEF Alsa!Init, AlsaLists
  <2>5. AlsaSeen
    BY DEF Alsa!Init, AlsaSeen, Alsa!Watching
  <2> QED
    BY <2>1, <2>2, <2>3, <2>4, <2>5 DEF AlsaInv
<1>2. AlsaInv /\ [Alsa!Next]_(Alsa!vars) => AlsaInv'
  BY AlsaFlagsStep, AlsaPlacesStep, AlsaKernelStep, AlsaListsStep, AlsaSeenStep DEF AlsaInv
<1> QED
  BY <1>1, <1>2, PTL DEF Alsa!Spec

\* While the thread watches, a difference between the devices there are and the
\* newest list is never forgotten (alsa.c:830-926).
THEOREM AlsaForgetsNoChange ==
  (MaxChanges \in Nat /\ "NULL" \notin Files) => (Alsa!Spec => []Alsa!NoLostChange)
<1> SUFFICES ASSUME MaxChanges \in Nat, "NULL" \notin Files PROVE Alsa!Spec => []Alsa!NoLostChange
  OBVIOUS
<1>1. AlsaInv => Alsa!NoLostChange
  <2> SUFFICES ASSUME AlsaInv PROVE Alsa!NoLostChange
    OBVIOUS
  <2>1. {pipe, abort_flag, have_devices_flag, shutdown_err, emitted_shutdown_cb, got_rescan_event,
         signalled} \subseteq BOOLEAN
    BY DEF AlsaInv, AlsaFlags
  <2>2. {ready_devices_info, safe_devices_info, devices_info}
          \subseteq (SUBSET Files) \union {Alsa!NoInfo}
    BY DEF AlsaInv, AlsaLists
  <2>3. Alsa!TypeOK
    BY <2>1, <2>2, Zenon DEF AlsaInv, AlsaPlaces, AlsaKernel, AlsaEvents, Alsa!TypeOK
  <2>4. AlsaToldOf => events # <<>>
    BY DEF AlsaInv, AlsaKernel, AlsaToldOf
  <2>5. AlsaAwaits(pending_files) => ~Alsa!NonePending
    BY Zenon DEF AlsaAwaits, Alsa!NonePending
  <2> QED
    BY <2>3, <2>4, <2>5, Zenon DEF AlsaInv, AlsaSeen, Alsa!NoLostChange
<1> QED
  BY <1>1, AlsaInvariant, PTL

-----------------------------------------------------------------------------
(* WASAPI.                                                                 *)

WasapiFlags ==
  /\ notice \in BOOLEAN /\ registered \in BOOLEAN /\ stale \in BOOLEAN
  /\ device_scan_queued \in BOOLEAN /\ abort_flag \in BOOLEAN /\ have_devices_flag \in BOOLEAN
  /\ shutdown_err \in BOOLEAN /\ emitted_shutdown_cb \in BOOLEAN
  /\ scan_signalled \in BOOLEAN /\ signalled \in BOOLEAN

\* There is a thread while there is a connection; it leaves nothing registered
\* but what a failure made stale; and Windows notifies only who is registered.
WasapiPlaces ==
  /\ dpc \in {"none", "start", "loop", "wait", "defaults", "enumerate", "item", "done"}
  /\ cpc \in {"off", "idle", "flush", "between", "wait", "callback", "joining", "crashed"}
  /\ call \in {"none", "flush_events", "wait_events 1", "wait_events 2"}
  /\ cpc \in {"off", "crashed"} <=> dpc = "none"
  /\ registered = TRUE => dpc \notin {"none", "done"}
  /\ notice = TRUE => registered = TRUE \/ stale = TRUE
  /\ cpc = "crashed" => stale = TRUE

WasapiWindows ==
  /\ active \in SUBSET Endpoints /\ default \in active \union {Wasapi!None}
  /\ changes \in 0..MaxChanges

\* The index is the wanted endpoint's shared device, if that is listed.
WasapiShown ==
  {info \in Wasapi!Infos :
     LET i == info.default_output_index
         d == <<info.wanted, "shared">>
     IN  IF \E k \in 1..Len(info.devices) : info.devices[k] = d
         THEN i + 1 \in 1..Len(info.devices) /\ info.devices[i + 1] = d
         ELSE i = -1}

\* It is so at every step of a scan, and a scan begins with nothing.
WasapiLists ==
  /\ ready_devices_info \in WasapiShown /\ safe_devices_info \in WasapiShown
  /\ rd \in [info : Wasapi!Infos, collection : SUBSET Endpoints] /\ rd.info \in WasapiShown
  /\ dpc \notin {"enumerate", "item"} => rd = Wasapi!NoScan

WasapiInv == WasapiFlags /\ WasapiPlaces /\ WasapiWindows /\ WasapiLists

\* A scan that has listed nothing yet has no default device.
LEMMA WasapiEmpty ==
  ASSUME MaxChanges \in Nat, NEW w \in Endpoints \union {Wasapi!None}, NEW n \in -1..MaxChanges
  PROVE  [devices |-> <<>>, default_output_index |-> -1, wanted |-> w, of |-> n] \in WasapiShown
<1> DEFINE info == [devices |-> <<>>, default_output_index |-> -1, wanted |-> w, of |-> n]
<1>1. <<>> \in Seq(Wasapi!Devices) /\ -1 \in Int
  OBVIOUS
<1>2. info \in Wasapi!Infos
  BY <1>1, Zenon DEF Wasapi!Infos
<1>3. info.devices = <<>> /\ info.default_output_index = -1
  OBVIOUS
<1>4. Len(info.devices) = 0
  BY <1>3
<1> HIDE DEF info
<1>5. ~\E k \in 1..Len(info.devices) : info.devices[k] = <<info.wanted, "shared">>
  BY <1>4
<1>6. info \in WasapiShown
  BY <1>2, <1>3, <1>5 DEF WasapiShown
<1> QED
  BY <1>6 DEF info

\* Nothing is to be shown when there is no scan.
LEMMA WasapiNoScan ==
  ASSUME MaxChanges \in Nat
  PROVE  /\ Wasapi!NoInfo \in WasapiShown /\ Wasapi!NoScan.info \in WasapiShown
         /\ Wasapi!NoScan \in [info : Wasapi!Infos, collection : SUBSET Endpoints]
<1>1. Wasapi!NoInfo \in WasapiShown
  <2>1. -1 \in -1..MaxChanges
    OBVIOUS
  <2> QED
    BY <2>1, WasapiEmpty DEF Wasapi!NoInfo
<1> QED
  BY <1>1 DEF Wasapi!NoScan, WasapiShown

\* A scan begins with the endpoint that is to be the default.
LEMMA WasapiBegins ==
  ASSUME MaxChanges \in Nat, NEW w \in Endpoints \union {Wasapi!None}, NEW n \in 0..MaxChanges,
         NEW r, r = [Wasapi!NoScan EXCEPT !.info.wanted = w, !.info.of = n]
  PROVE  /\ r.info \in WasapiShown
         /\ r \in [info : Wasapi!Infos, collection : SUBSET Endpoints]
<1> DEFINE fresh == [devices |-> <<>>, default_output_index |-> -1, wanted |-> w, of |-> n]
<1>1. r = [info |-> fresh, collection |-> {}]
  BY DEF Wasapi!NoScan, Wasapi!NoInfo
<1>2. fresh \in WasapiShown
  BY WasapiEmpty
<1> HIDE DEF fresh
<1>3. fresh \in Wasapi!Infos
  BY <1>2 DEF WasapiShown
<1>4. [info |-> fresh, collection |-> {}].info = fresh
  BY ONLY TRUE
<1>5. [info |-> fresh, collection |-> {}] \in [info : Wasapi!Infos, collection : SUBSET Endpoints]
  BY ONLY <1>3
<1> QED
  BY ONLY <1>1, <1>2, <1>4, <1>5, Zenon

\* Two devices are put behind a list: its index stays right.
LEMMA WasapiListed ==
  ASSUME NEW info \in WasapiShown, NEW e \in Endpoints
  PROVE  Wasapi!ListDevice(info, e) \in WasapiShown
<1> DEFINE s == info.devices
           p == << <<e, "shared">>, <<e, "raw">> >>
           d == <<info.wanted, "shared">>
           i == info.default_output_index
           new == Wasapi!ListDevice(info, e)
           j == IF e = info.wanted THEN Len(s) ELSE i
<1>1. info \in Wasapi!Infos
  BY DEF WasapiShown
<1>2. s \in Seq(Wasapi!Devices) /\ i \in Int /\ info.wanted \in Endpoints \union {Wasapi!None}
  BY <1>1 DEF Wasapi!Infos
<1>3. p \in Seq(Wasapi!Devices) /\ Len(p) = 2 /\ p[1] = <<e, "shared">> /\ p[2] = <<e, "raw">>
  BY DEF Wasapi!Devices
<1>4. IF \E k \in 1..Len(s) : s[k] = d
      THEN i + 1 \in 1..Len(s) /\ s[i + 1] = d
      ELSE i = -1
  BY Zenon DEF WasapiShown
<1>5. new = [info EXCEPT !.default_output_index = j, !.devices = s \o p]
  BY Zenon DEF Wasapi!ListDevice
<1>6. /\ new.devices = s \o p /\ new.default_output_index = j
      /\ new.wanted = info.wanted /\ new.of = info.of
  <2>1. DOMAIN info = {"devices", "default_output_index", "wanted", "of"}
    BY <1>1 DEF Wasapi!Infos
  <2> HIDE DEF new, j, s, p
  <2> QED
    BY <1>5, <2>1
<1>7. Len(s) \in Nat /\ j \in Int
  BY <1>2
<1> HIDE DEF s, p, d, i, new, j
<1>8. /\ s \o p \in Seq(Wasapi!Devices) /\ Len(s \o p) = Len(s) + 2
      /\ \A k \in 1..Len(s) : (s \o p)[k] = s[k]
      /\ (s \o p)[Len(s) + 1] = p[1] /\ (s \o p)[Len(s) + 2] = p[2]
  <2>1. /\ s \o p \in Seq(Wasapi!Devices) /\ Len(s \o p) = Len(s) + Len(p)
        /\ \A k \in 1..(Len(s) + Len(p)) :
             (s \o p)[k] = IF k <= Len(s) THEN s[k] ELSE p[k - Len(s)]
    BY <1>2, <1>3, ConcatProperties, Zenon
  <2>2. Len(s) + Len(p) = Len(s) + 2
    BY <1>3, Zenon
  <2>3. Len(s) + 1 \in 1..(Len(s) + 2) /\ Len(s) + 2 \in 1..(Len(s) + 2)
        /\ (Len(s) + 1) - Len(s) = 1 /\ (Len(s) + 2) - Len(s) = 2
        /\ ~(Len(s) + 1 <= Len(s)) /\ ~(Len(s) + 2 <= Len(s))
    BY <1>7
  <2>4. \A k \in 1..Len(s) : k \in 1..(Len(s) + 2) /\ k <= Len(s)
    BY <1>7
  <2> QED
    BY <2>1, <2>2, <2>3, <2>4, Zenon
<1>9. p[2] # d
  BY <1>3 DEF d
<1>10. IF \E k \in 1..Len(s \o p) : (s \o p)[k] = d
      THEN j + 1 \in 1..Len(s \o p) /\ (s \o p)[j + 1] = d
      ELSE j = -1
  <2>1. CASE e = info.wanted
    <3>1. j = Len(s) /\ p[1] = d
      BY <1>3, <2>1 DEF j, d
    <3>2. j + 1 \in 1..Len(s \o p) /\ (s \o p)[j + 1] = d
      BY <1>7, <1>8, <3>1
    <3> QED
      BY <3>2, Zenon
  <2>2. CASE e # info.wanted
    <3>1. j = i /\ p[1] # d
      BY <1>3, <2>2 DEF j, d
    <3>2. CASE \E k \in 1..Len(s) : s[k] = d
      <4>1. i + 1 \in 1..Len(s) /\ s[i + 1] = d
        BY <1>4, <3>2, Zenon
      <4>2. j + 1 \in 1..Len(s \o p) /\ (s \o p)[j + 1] = d
        BY <1>7, <1>8, <3>1, <4>1
      <4> QED
        BY <4>2, Zenon
    <3>3. CASE ~\E k \in 1..Len(s) : s[k] = d
      <4>1. j = -1
        BY <1>4, <3>1, <3>3, Zenon
      <4>2. ASSUME NEW k \in 1..Len(s \o p) PROVE (s \o p)[k] # d
        <5>1. k \in 1..Len(s) \/ k = Len(s) + 1 \/ k = Len(s) + 2
          BY <1>7, <1>8
        <5> QED
          BY <1>8, <1>9, <3>1, <3>3, <5>1, Zenon
      <4> QED
        BY <4>1, <4>2, Zenon
    <3> QED
      BY <3>2, <3>3
  <2> QED
    BY <2>1, <2>2
<1>11. new \in Wasapi!Infos
  BY <1>1, <1>5, <1>7, <1>8 DEF Wasapi!Infos
<1>12. new \in WasapiShown
  BY <1>6, <1>10, <1>11, Zenon DEF WasapiShown, d
<1> QED
  BY <1>12 DEF new

\* What a flush does with the lists.
LEMMA WasapiFlushes ==
  ASSUME Wasapi!Flush \/ Wasapi!Woken
  PROVE  /\ UNCHANGED <<rd, dpc>>
         /\ ready_devices_info' \in {ready_devices_info, Wasapi!NoInfo}
         /\ safe_devices_info' \in {ready_devices_info, safe_devices_info}
BY DEF Wasapi!Flush, Wasapi!Woken, Wasapi!FlushBody, Wasapi!infos, Wasapi!thread

\* Every thread leaves the flags Boolean.
LEMMA WasapiFlagsStep == WasapiFlags /\ [Wasapi!Next]_(Wasapi!vars) => WasapiFlags'
<1> SUFFICES ASSUME WasapiFlags, [Wasapi!Next]_(Wasapi!vars) PROVE WasapiFlags'
  OBVIOUS
<1> USE DEF WasapiFlags
<1>1. CASE Wasapi!EndpointsChange
  BY <1>1, Zenon DEF Wasapi!EndpointsChange, Wasapi!Registered, Wasapi!clients, Wasapi!request,
                     Wasapi!status, Wasapi!infos, Wasapi!thread, Wasapi!client
<1>2. CASE Wasapi!Notification
  BY <1>2, Zenon DEF Wasapi!Notification, Wasapi!QueueScan, Wasapi!SignalScan,
                     Wasapi!Registered, Wasapi!clients, Wasapi!status, Wasapi!infos,
                     Wasapi!client
<1>3. CASE Wasapi!StrayNotification
  BY <1>3, Zenon DEF Wasapi!StrayNotification, Wasapi!Registered, Wasapi!windows,
                     Wasapi!clients, Wasapi!request, Wasapi!status, Wasapi!infos, Wasapi!thread
<1>4. CASE Wasapi!Register
  BY <1>4, Zenon DEF Wasapi!Register, Wasapi!Shutdown, Wasapi!Signal, Wasapi!windows,
                     Wasapi!request, Wasapi!infos
<1>5. CASE Wasapi!Loop
  BY <1>5, Zenon DEF Wasapi!Loop, Wasapi!windows, Wasapi!clients, Wasapi!status, Wasapi!infos,
                     Wasapi!client
<1>6. CASE Wasapi!EndThread
  BY <1>6, Zenon DEF Wasapi!EndThread, Wasapi!request, Wasapi!status, Wasapi!infos,
                     Wasapi!client
<1>7. CASE Wasapi!GetDefault
  BY <1>7, Zenon DEF Wasapi!GetDefault, Wasapi!GoesOn, Wasapi!Shutdown, Wasapi!Signal,
                     Wasapi!windows, Wasapi!clients, Wasapi!request, Wasapi!infos
<1>8. CASE Wasapi!EnumAudioEndpoints
  BY <1>8, Zenon DEF Wasapi!EnumAudioEndpoints, Wasapi!GoesOn, Wasapi!Shutdown, Wasapi!Signal,
                     Wasapi!windows, Wasapi!clients, Wasapi!request, Wasapi!infos
<1>9. CASE Wasapi!ProbeEndpoint
  BY <1>9, Zenon DEF Wasapi!ProbeEndpoint, Wasapi!GoesOn, Wasapi!Shutdown, Wasapi!Signal,
                     Wasapi!windows, Wasapi!clients, Wasapi!request, Wasapi!infos
<1>10. CASE Wasapi!PublishScan
  BY <1>10, Zenon DEF Wasapi!PublishScan, Wasapi!Signal, Wasapi!windows, Wasapi!clients,
                      Wasapi!request
<1>11. CASE Wasapi!Connect
  BY <1>11, Zenon DEF Wasapi!Connect, Wasapi!windows, Wasapi!clients, Wasapi!status,
                      Wasapi!infos
<1>12. ASSUME NEW kind \in {"flush_events", "wait_events 1"}, Wasapi!Call(kind)
       PROVE  WasapiFlags'
  BY <1>12, Zenon DEF Wasapi!Call, Wasapi!windows, Wasapi!clients, Wasapi!request,
                      Wasapi!status, Wasapi!infos, Wasapi!thread
<1>13. CASE Wasapi!Flush
  BY <1>13, Zenon DEF Wasapi!Flush, Wasapi!FlushBody, Wasapi!MayFlush, Wasapi!Return,
                      Wasapi!windows, Wasapi!clients, Wasapi!request, Wasapi!infos,
                      Wasapi!thread
<1>14. CASE Wasapi!Woken
  BY <1>14, Zenon DEF Wasapi!Woken, Wasapi!FlushBody, Wasapi!MayFlush, Wasapi!Return,
                      Wasapi!windows, Wasapi!clients, Wasapi!request, Wasapi!infos,
                      Wasapi!thread
<1>15. CASE Wasapi!CallbackReturns
  BY <1>15, Zenon DEF Wasapi!CallbackReturns, Wasapi!Return, Wasapi!windows, Wasapi!clients,
                      Wasapi!request, Wasapi!status, Wasapi!infos, Wasapi!thread
<1>16. CASE Wasapi!AbortThread
  BY <1>16, Zenon DEF Wasapi!AbortThread, Wasapi!SignalScan, Wasapi!windows, Wasapi!clients,
                      Wasapi!status, Wasapi!infos
<1>17. CASE Wasapi!Join
  BY <1>17, Zenon DEF Wasapi!Join, Wasapi!windows, Wasapi!clients
<1>18. CASE Wasapi!Wakeup
  BY <1>18, Zenon DEF Wasapi!Wakeup, Wasapi!Signal, Wasapi!windows, Wasapi!clients,
                      Wasapi!request, Wasapi!status, Wasapi!infos, Wasapi!thread
<1>19. CASE Wasapi!ForceDeviceScan
  BY <1>19, Zenon DEF Wasapi!ForceDeviceScan, Wasapi!QueueScan, Wasapi!SignalScan,
                      Wasapi!windows, Wasapi!clients, Wasapi!status, Wasapi!infos, Wasapi!client
<1>20. CASE UNCHANGED Wasapi!vars
  BY <1>20, Zenon DEF Wasapi!vars, Wasapi!windows, Wasapi!clients, Wasapi!request,
                      Wasapi!status, Wasapi!infos, Wasapi!thread, Wasapi!client
<1> QED
  BY <1>1, <1>2, <1>3, <1>4, <1>5, <1>6, <1>7, <1>8, <1>9, <1>10, <1>11, <1>12, <1>13,
     <1>14, <1>15, <1>16, <1>17, <1>18, <1>19, <1>20, Zenon
     DEF Wasapi!Next, Wasapi!ScanStep, Wasapi!ClientStep

\* One step per step of a thread.
LEMMA WasapiPlacesStep ==
  WasapiFlags /\ WasapiPlaces /\ [Wasapi!Next]_(Wasapi!vars) => WasapiPlaces'
<1> SUFFICES ASSUME WasapiFlags, WasapiPlaces, [Wasapi!Next]_(Wasapi!vars) PROVE WasapiPlaces'
  OBVIOUS
<1> USE DEF WasapiFlags, WasapiPlaces
<1>1. CASE Wasapi!EndpointsChange
  BY <1>1 DEF Wasapi!EndpointsChange, Wasapi!Registered, Wasapi!clients, Wasapi!request,
              Wasapi!status, Wasapi!infos, Wasapi!thread, Wasapi!client
<1>2. CASE Wasapi!Notification
  BY <1>2 DEF Wasapi!Notification, Wasapi!QueueScan, Wasapi!SignalScan, Wasapi!Registered,
              Wasapi!clients, Wasapi!status, Wasapi!infos, Wasapi!client
<1>3. CASE Wasapi!StrayNotification
  BY <1>3 DEF Wasapi!StrayNotification, Wasapi!Registered, Wasapi!windows, Wasapi!clients,
              Wasapi!request, Wasapi!status, Wasapi!infos, Wasapi!thread
<1>4. CASE Wasapi!Register
  BY <1>4 DEF Wasapi!Register, Wasapi!Shutdown, Wasapi!Signal, Wasapi!windows, Wasapi!request,
              Wasapi!infos
<1>5. CASE Wasapi!Loop
  BY <1>5 DEF Wasapi!Loop, Wasapi!windows, Wasapi!clients, Wasapi!status, Wasapi!infos,
              Wasapi!client
<1>6. CASE Wasapi!EndThread
  BY <1>6 DEF Wasapi!EndThread, Wasapi!request, Wasapi!status, Wasapi!infos, Wasapi!client
<1>7. CASE Wasapi!GetDefault
  BY <1>7 DEF Wasapi!GetDefault, Wasapi!GoesOn, Wasapi!Shutdown, Wasapi!Signal, Wasapi!windows,
              Wasapi!clients, Wasapi!request, Wasapi!infos
<1>8. CASE Wasapi!EnumAudioEndpoints
  BY <1>8 DEF Wasapi!EnumAudioEndpoints, Wasapi!GoesOn, Wasapi!Shutdown, Wasapi!Signal,
              Wasapi!windows, Wasapi!clients, Wasapi!request, Wasapi!infos
<1>9. CASE Wasapi!ProbeEndpoint
  BY <1>9 DEF Wasapi!ProbeEndpoint, Wasapi!GoesOn, Wasapi!Shutdown, Wasapi!Signal,
              Wasapi!windows, Wasapi!clients, Wasapi!request, Wasapi!infos
<1>10. CASE Wasapi!PublishScan
  BY <1>10 DEF Wasapi!PublishScan, Wasapi!Signal, Wasapi!windows, Wasapi!clients, Wasapi!request
<1>11. CASE Wasapi!Connect
  BY <1>11 DEF Wasapi!Connect, Wasapi!windows, Wasapi!clients, Wasapi!status, Wasapi!infos
<1>12. ASSUME NEW kind \in {"flush_events", "wait_events 1"}, Wasapi!Call(kind)
       PROVE  WasapiPlaces'
  BY <1>12 DEF Wasapi!Call, Wasapi!windows, Wasapi!clients, Wasapi!request, Wasapi!status,
               Wasapi!infos, Wasapi!thread
<1>13. CASE Wasapi!Flush
  BY <1>13 DEF Wasapi!Flush, Wasapi!FlushBody, Wasapi!MayFlush, Wasapi!Return, Wasapi!windows,
               Wasapi!clients, Wasapi!request, Wasapi!infos, Wasapi!thread
<1>14. CASE Wasapi!Woken
  BY <1>14 DEF Wasapi!Woken, Wasapi!FlushBody, Wasapi!MayFlush, Wasapi!Return, Wasapi!windows,
               Wasapi!clients, Wasapi!request, Wasapi!infos, Wasapi!thread
<1>15. CASE Wasapi!CallbackReturns
  BY <1>15 DEF Wasapi!CallbackReturns, Wasapi!Return, Wasapi!windows, Wasapi!clients,
               Wasapi!request, Wasapi!status, Wasapi!infos, Wasapi!thread
<1>16. CASE Wasapi!AbortThread
  BY <1>16 DEF Wasapi!AbortThread, Wasapi!SignalScan, Wasapi!windows, Wasapi!clients,
               Wasapi!status, Wasapi!infos
<1>17. CASE Wasapi!Join
  BY <1>17 DEF Wasapi!Join, Wasapi!windows, Wasapi!clients
<1>18. CASE Wasapi!Wakeup
  BY <1>18 DEF Wasapi!Wakeup, Wasapi!Signal, Wasapi!windows, Wasapi!clients, Wasapi!request,
               Wasapi!status, Wasapi!infos, Wasapi!thread
<1>19. CASE Wasapi!ForceDeviceScan
  BY <1>19 DEF Wasapi!ForceDeviceScan, Wasapi!QueueScan, Wasapi!SignalScan, Wasapi!windows,
               Wasapi!clients, Wasapi!status, Wasapi!infos, Wasapi!client
<1>20. CASE UNCHANGED Wasapi!vars
  BY <1>20 DEF Wasapi!vars, Wasapi!windows, Wasapi!clients, Wasapi!request, Wasapi!status,
               Wasapi!infos, Wasapi!thread, Wasapi!client
<1> QED
  BY <1>1, <1>2, <1>3, <1>4, <1>5, <1>6, <1>7, <1>8, <1>9, <1>10, <1>11, <1>12, <1>13,
     <1>14, <1>15, <1>16, <1>17, <1>18, <1>19, <1>20, Zenon
     DEF Wasapi!Next, Wasapi!ScanStep, Wasapi!ClientStep

\* Only Windows changes the endpoints.
LEMMA WasapiWindowsStep ==
  ASSUME MaxChanges \in Nat, WasapiWindows, [Wasapi!Next]_(Wasapi!vars)
  PROVE  WasapiWindows'
<1> USE DEF WasapiWindows
<1>1. CASE Wasapi!EndpointsChange
  BY <1>1 DEF Wasapi!EndpointsChange, Wasapi!Registered, Wasapi!clients, Wasapi!request,
              Wasapi!status, Wasapi!infos, Wasapi!thread, Wasapi!client
<1>2. CASE Wasapi!Notification
  BY <1>2 DEF Wasapi!Notification, Wasapi!QueueScan, Wasapi!SignalScan, Wasapi!Registered,
              Wasapi!clients, Wasapi!status, Wasapi!infos, Wasapi!client
<1>3. CASE Wasapi!StrayNotification
  BY <1>3 DEF Wasapi!StrayNotification, Wasapi!Registered, Wasapi!windows, Wasapi!clients,
              Wasapi!request, Wasapi!status, Wasapi!infos, Wasapi!thread
<1>4. CASE Wasapi!Register
  BY <1>4 DEF Wasapi!Register, Wasapi!Shutdown, Wasapi!Signal, Wasapi!windows, Wasapi!request,
              Wasapi!infos
<1>5. CASE Wasapi!Loop
  BY <1>5 DEF Wasapi!Loop, Wasapi!windows, Wasapi!clients, Wasapi!status, Wasapi!infos,
              Wasapi!client
<1>6. CASE Wasapi!EndThread
  BY <1>6 DEF Wasapi!EndThread, Wasapi!request, Wasapi!status, Wasapi!infos, Wasapi!client
<1>7. CASE Wasapi!GetDefault
  BY <1>7 DEF Wasapi!GetDefault, Wasapi!GoesOn, Wasapi!Shutdown, Wasapi!Signal, Wasapi!windows,
              Wasapi!clients, Wasapi!request, Wasapi!infos
<1>8. CASE Wasapi!EnumAudioEndpoints
  BY <1>8 DEF Wasapi!EnumAudioEndpoints, Wasapi!GoesOn, Wasapi!Shutdown, Wasapi!Signal,
              Wasapi!windows, Wasapi!clients, Wasapi!request, Wasapi!infos
<1>9. CASE Wasapi!ProbeEndpoint
  BY <1>9 DEF Wasapi!ProbeEndpoint, Wasapi!GoesOn, Wasapi!Shutdown, Wasapi!Signal,
              Wasapi!windows, Wasapi!clients, Wasapi!request, Wasapi!infos
<1>10. CASE Wasapi!PublishScan
  BY <1>10 DEF Wasapi!PublishScan, Wasapi!Signal, Wasapi!windows, Wasapi!clients, Wasapi!request
<1>11. CASE Wasapi!Connect
  BY <1>11 DEF Wasapi!Connect, Wasapi!windows, Wasapi!clients, Wasapi!status, Wasapi!infos
<1>12. ASSUME NEW kind \in {"flush_events", "wait_events 1"}, Wasapi!Call(kind)
       PROVE  WasapiWindows'
  BY <1>12 DEF Wasapi!Call, Wasapi!windows, Wasapi!clients, Wasapi!request, Wasapi!status,
               Wasapi!infos, Wasapi!thread
<1>13. CASE Wasapi!Flush
  BY <1>13 DEF Wasapi!Flush, Wasapi!FlushBody, Wasapi!MayFlush, Wasapi!Return, Wasapi!windows,
               Wasapi!clients, Wasapi!request, Wasapi!infos, Wasapi!thread
<1>14. CASE Wasapi!Woken
  BY <1>14 DEF Wasapi!Woken, Wasapi!FlushBody, Wasapi!MayFlush, Wasapi!Return, Wasapi!windows,
               Wasapi!clients, Wasapi!request, Wasapi!infos, Wasapi!thread
<1>15. CASE Wasapi!CallbackReturns
  BY <1>15 DEF Wasapi!CallbackReturns, Wasapi!Return, Wasapi!windows, Wasapi!clients,
               Wasapi!request, Wasapi!status, Wasapi!infos, Wasapi!thread
<1>16. CASE Wasapi!AbortThread
  BY <1>16 DEF Wasapi!AbortThread, Wasapi!SignalScan, Wasapi!windows, Wasapi!clients,
               Wasapi!status, Wasapi!infos
<1>17. CASE Wasapi!Join
  BY <1>17 DEF Wasapi!Join, Wasapi!windows, Wasapi!clients
<1>18. CASE Wasapi!Wakeup
  BY <1>18 DEF Wasapi!Wakeup, Wasapi!Signal, Wasapi!windows, Wasapi!clients, Wasapi!request,
               Wasapi!status, Wasapi!infos, Wasapi!thread
<1>19. CASE Wasapi!ForceDeviceScan
  BY <1>19 DEF Wasapi!ForceDeviceScan, Wasapi!QueueScan, Wasapi!SignalScan, Wasapi!windows,
               Wasapi!clients, Wasapi!status, Wasapi!infos, Wasapi!client
<1>20. CASE UNCHANGED Wasapi!vars
  BY <1>20 DEF Wasapi!vars, Wasapi!windows, Wasapi!clients, Wasapi!request, Wasapi!status,
               Wasapi!infos, Wasapi!thread, Wasapi!client
<1> QED
  BY <1>1, <1>2, <1>3, <1>4, <1>5, <1>6, <1>7, <1>8, <1>9, <1>10, <1>11, <1>12, <1>13,
     <1>14, <1>15, <1>16, <1>17, <1>18, <1>19, <1>20, Zenon
     DEF Wasapi!Next, Wasapi!ScanStep, Wasapi!ClientStep

\* Lists are made by scans, one endpoint at a time, and handed on whole.
LEMMA WasapiListsStep ==
  ASSUME MaxChanges \in Nat, WasapiPlaces, WasapiWindows, WasapiLists, [Wasapi!Next]_(Wasapi!vars)
  PROVE  WasapiLists'
<1> USE DEF WasapiLists
<1>1. CASE Wasapi!EndpointsChange
  BY <1>1 DEF Wasapi!EndpointsChange, Wasapi!Registered, Wasapi!clients, Wasapi!request,
              Wasapi!status, Wasapi!infos, Wasapi!thread, Wasapi!client
<1>2. CASE Wasapi!Notification
  BY <1>2 DEF Wasapi!Notification, Wasapi!QueueScan, Wasapi!SignalScan, Wasapi!Registered,
              Wasapi!clients, Wasapi!status, Wasapi!infos, Wasapi!client
<1>3. CASE Wasapi!StrayNotification
  BY <1>3 DEF Wasapi!StrayNotification, Wasapi!Registered, Wasapi!windows, Wasapi!clients,
              Wasapi!request, Wasapi!status, Wasapi!infos, Wasapi!thread
<1>4. CASE Wasapi!Register
  BY <1>4, WasapiNoScan DEF Wasapi!Register, Wasapi!Shutdown, Wasapi!infos
<1>5. CASE Wasapi!Loop
  BY <1>5 DEF Wasapi!Loop, Wasapi!windows, Wasapi!clients, Wasapi!status, Wasapi!infos,
              Wasapi!client
<1>6. CASE Wasapi!EndThread
  BY <1>6 DEF Wasapi!EndThread, Wasapi!request, Wasapi!status, Wasapi!infos, Wasapi!client
<1>7. CASE Wasapi!GetDefault
  <2>1. rd = Wasapi!NoScan
    BY <1>7 DEF Wasapi!GetDefault
  <2>2. CASE rd' = Wasapi!NoScan /\ dpc' = "done"
    BY <1>7, <2>2, WasapiNoScan DEF Wasapi!GetDefault, Wasapi!infos
  <2>3. CASE /\ rd' = [rd EXCEPT !.info.wanted = default, !.info.of = changes]
             /\ dpc' = "enumerate"
    <3>1. default \in Endpoints \union {Wasapi!None} /\ changes \in 0..MaxChanges
      BY DEF WasapiWindows
    <3>2. rd'.info \in WasapiShown /\ rd' \in [info : Wasapi!Infos, collection : SUBSET Endpoints]
      BY <2>1, <2>3, <3>1, WasapiBegins
    <3> QED
      BY <1>7, <2>3, <3>2 DEF Wasapi!GetDefault, Wasapi!infos
  <2> QED
    BY <1>7, <2>2, <2>3, Zenon DEF Wasapi!GetDefault, Wasapi!GoesOn, Wasapi!Shutdown
<1>8. CASE Wasapi!EnumAudioEndpoints
  <2>1. CASE rd' = Wasapi!NoScan /\ dpc' = "done"
    BY <1>8, <2>1, WasapiNoScan DEF Wasapi!EnumAudioEndpoints, Wasapi!infos
  <2>2. CASE rd' = [rd EXCEPT !.collection = active] /\ dpc' = "item"
    <3>1. rd'.info = rd.info /\ rd' \in [info : Wasapi!Infos, collection : SUBSET Endpoints]
      BY <2>2 DEF WasapiWindows
    <3> QED
      BY <1>8, <2>2, <3>1 DEF Wasapi!EnumAudioEndpoints, Wasapi!infos
  <2> QED
    BY <1>8, <2>1, <2>2, Zenon DEF Wasapi!EnumAudioEndpoints, Wasapi!GoesOn, Wasapi!Shutdown
<1>9. CASE Wasapi!ProbeEndpoint
  <2> DEFINE e == Wasapi!Item(rd.collection)
  <2>1. e \in Endpoints
    BY <1>9 DEF Wasapi!ProbeEndpoint, Wasapi!Item
  <2> HIDE DEF e
  <2>2. CASE rd' = Wasapi!NoScan /\ dpc' = "done"
    BY <1>9, <2>2, WasapiNoScan DEF Wasapi!ProbeEndpoint, Wasapi!infos
  <2>3. CASE rd' = [rd EXCEPT !.collection = @ \ {e}] /\ dpc' = "item"
    <3>1. rd'.info = rd.info /\ rd' \in [info : Wasapi!Infos, collection : SUBSET Endpoints]
      BY <2>3
    <3> QED
      BY <1>9, <2>3, <3>1 DEF Wasapi!ProbeEndpoint, Wasapi!infos
  <2>4. CASE /\ rd' = [rd EXCEPT !.collection = @ \ {e}, !.info = Wasapi!ListDevice(@, e)]
             /\ dpc' = "item"
    <3>1. Wasapi!ListDevice(rd.info, e) \in WasapiShown
      BY <2>1, WasapiListed
    <3>2. /\ rd'.info = Wasapi!ListDevice(rd.info, e)
          /\ rd' \in [info : Wasapi!Infos, collection : SUBSET Endpoints]
      BY <2>4, <3>1 DEF WasapiShown
    <3> QED
      BY <1>9, <2>4, <3>1, <3>2 DEF Wasapi!ProbeEndpoint, Wasapi!infos
  <2> QED
    BY <1>9, <2>2, <2>3, <2>4, Zenon DEF Wasapi!ProbeEndpoint, Wasapi!GoesOn, Wasapi!Shutdown, e
<1>10. CASE Wasapi!PublishScan
  BY <1>10, WasapiNoScan DEF Wasapi!PublishScan
<1>11. CASE Wasapi!Connect
  <2>1. dpc = "none" /\ dpc' = "start" /\ UNCHANGED <<rd, ready_devices_info, safe_devices_info>>
    BY <1>11 DEF Wasapi!Connect, Wasapi!infos, WasapiPlaces
  <2> QED
    BY <2>1
<1>12. ASSUME NEW kind \in {"flush_events", "wait_events 1"}, Wasapi!Call(kind)
       PROVE  WasapiLists'
  BY <1>12 DEF Wasapi!Call, Wasapi!windows, Wasapi!clients, Wasapi!request, Wasapi!status,
               Wasapi!infos, Wasapi!thread
<1>13. CASE Wasapi!Flush
  BY <1>13, WasapiFlushes, WasapiNoScan
<1>14. CASE Wasapi!Woken
  BY <1>14, WasapiFlushes, WasapiNoScan
<1>15. CASE Wasapi!CallbackReturns
  BY <1>15 DEF Wasapi!CallbackReturns, Wasapi!Return, Wasapi!windows, Wasapi!clients,
               Wasapi!request, Wasapi!status, Wasapi!infos, Wasapi!thread
<1>16. CASE Wasapi!AbortThread
  BY <1>16 DEF Wasapi!AbortThread, Wasapi!SignalScan, Wasapi!windows, Wasapi!clients,
               Wasapi!status, Wasapi!infos
<1>17. CASE Wasapi!Join
  BY <1>17, WasapiNoScan DEF Wasapi!Join
<1>18. CASE Wasapi!Wakeup
  BY <1>18 DEF Wasapi!Wakeup, Wasapi!Signal, Wasapi!windows, Wasapi!clients, Wasapi!request,
               Wasapi!status, Wasapi!infos, Wasapi!thread
<1>19. CASE Wasapi!ForceDeviceScan
  BY <1>19 DEF Wasapi!ForceDeviceScan, Wasapi!QueueScan, Wasapi!SignalScan, Wasapi!windows,
               Wasapi!clients, Wasapi!status, Wasapi!infos, Wasapi!client
<1>20. CASE UNCHANGED Wasapi!vars
  BY <1>20 DEF Wasapi!vars, Wasapi!windows, Wasapi!clients, Wasapi!request, Wasapi!status,
               Wasapi!infos, Wasapi!thread, Wasapi!client
<1> QED
  BY <1>1, <1>2, <1>3, <1>4, <1>5, <1>6, <1>7, <1>8, <1>9, <1>10, <1>11, <1>12, <1>13,
     <1>14, <1>15, <1>16, <1>17, <1>18, <1>19, <1>20, Zenon
     DEF Wasapi!Next, Wasapi!ScanStep, Wasapi!ClientStep

\* The invariant is the backend's from its beginning.
LEMMA WasapiInvariant == MaxChanges \in Nat => (Wasapi!Spec => []WasapiInv)
<1> SUFFICES ASSUME MaxChanges \in Nat PROVE Wasapi!Spec => []WasapiInv
  OBVIOUS
<1>1. Wasapi!Init => WasapiInv
  <2> SUFFICES ASSUME Wasapi!Init PROVE WasapiInv
    OBVIOUS
  <2>1. WasapiFlags
    BY Zenon DEF Wasapi!Init, WasapiFlags
  <2>2. WasapiPlaces
    BY DEF Wasapi!Init, WasapiPlaces
  <2>3. WasapiWindows
    BY DEF Wasapi!Init, WasapiWindows
  <2>4. WasapiLists
    BY WasapiNoScan DEF Wasapi!Init, WasapiLists
  <2> QED
    BY <2>1, <2>2, <2>3, <2>4 DEF WasapiInv
<1>2. WasapiInv /\ [Wasapi!Next]_(Wasapi!vars) => WasapiInv'
  BY WasapiFlagsStep, WasapiPlacesStep, WasapiWindowsStep, WasapiListsStep DEF WasapiInv
<1> QED
  BY <1>1, <1>2, PTL DEF Wasapi!Spec

\* However many endpoints a scan leaves out, the default device the client is
\* shown is the shared one of the endpoint that was to be the default
\* (wasapi.c:850-866).
THEOREM WasapiListsItsDefault == MaxChanges \in Nat => (Wasapi!Spec => []Wasapi!DefaultIsListed)
<1> SUFFICES ASSUME MaxChanges \in Nat PROVE Wasapi!Spec => []Wasapi!DefaultIsListed
  OBVIOUS
<1>1. WasapiInv => Wasapi!DefaultIsListed
  <2> SUFFICES ASSUME WasapiInv PROVE Wasapi!DefaultIsListed
    OBVIOUS
  <2>1. {notice, registered, stale, device_scan_queued, abort_flag, have_devices_flag,
         shutdown_err, emitted_shutdown_cb, scan_signalled, signalled} \subseteq BOOLEAN
    BY DEF WasapiInv, WasapiFlags
  <2>2. ready_devices_info \in WasapiShown /\ safe_devices_info \in WasapiShown
    BY Zenon DEF WasapiInv, WasapiLists
  <2>3. {ready_devices_info, safe_devices_info} \subseteq Wasapi!Infos
    BY <2>2 DEF WasapiShown
  <2>4. Wasapi!TypeOK
    BY <2>1, <2>3, Zenon DEF WasapiInv, WasapiPlaces, WasapiWindows, WasapiLists, Wasapi!TypeOK
  <2> QED
    BY <2>2, <2>4, Zenon DEF WasapiShown, Wasapi!DefaultIsListed
<1> QED
  BY <1>1, WasapiInvariant, PTL

\* A notification that comes after soundio_disconnect comes of a thread that
\* failed and did not unregister (wasapi.c:1124, 2236-2240).
THEOREM WasapiNotificationsFindContext ==
  MaxChanges \in Nat => (Wasapi!Spec => []Wasapi!NotificationsFindContext)
<1>1. WasapiInv => Wasapi!NotificationsFindContext
  BY DEF WasapiInv, WasapiFlags, WasapiPlaces, Wasapi!NotificationsFindContext
<1> QED
  BY <1>1, WasapiInvariant, PTL
=============================================================================
