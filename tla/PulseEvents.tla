---------------------------- MODULE PulseEvents ----------------------------
(***************************************************************************)
(* src/pulseaudio.c: connecting to the PulseAudio server, scanning its     *)
(* devices, and telling the client of changes and of a lost connection.    *)
(*                                                                         *)
(* The main loop's thread runs the library's callbacks; the client's       *)
(* thread calls flush_events and wait_events; wakeup and force_device_scan *)
(* may come from any thread.  All of them hold the main loop's lock, and   *)
(* the client's thread gives it up only where it waits: for a signal, or   *)
(* for the replies of a scan.  A step is therefore what one thread does    *)
(* between taking the lock and giving it up.                               *)
(*                                                                         *)
(* PulseAudio itself is external: a context that becomes ready or fails, a *)
(* server whose devices change, notifications that are on their way, and   *)
(* the replies to the three queries of a scan, in their order.             *)
(***************************************************************************)
EXTENDS Integers, Sequences

CONSTANTS MaxChanges   \* bound: how often the server's devices change

ASSUME ChangesAssumption == MaxChanges \in Nat

VARIABLES context,              \* the pa_context
          devices,              \* the version of the server's devices
          notice,               \* a subscription event is on its way
          replies,              \* how many queries of the scan are answered
          cancelled,            \* and whether the rest never will be
          ready_flag, connection_err, emitted_shutdown_cb, device_scan_queued,
          device_query_err,
          current_devices_info, \* the versions the scan has seen so far
          ready_devices_info, safe_devices_info,
          cpc,                  \* where the client's thread is
          call,                 \* the call it is in: wait_events flushes, call and flushes again
          signalled,            \* the signal the client's thread waits for has come
          nudged,               \* soundio_wakeup was called during this wait_events
          disconnects           \* calls of on_backend_disconnect for this connection

server == <<context, devices, notice>>
scan == <<replies, cancelled, device_query_err, current_devices_info>>
status == <<ready_flag, connection_err, emitted_shutdown_cb, device_scan_queued>>
infos == <<ready_devices_info, safe_devices_info>>
client == <<cpc, call, signalled, nudged, disconnects>>
vars == <<server, scan, status, infos, client>>

Queries == 1..3                  \* sinks, sources, server information
NoInfo == <<>>                   \* a NULL SoundIoDevicesInfo
Fresh == <<devices, devices, devices>>

Connected == cpc \notin {"off", "init"}
InWaitEvents == call \in {"wait_events 1", "wait_events 2"}

-----------------------------------------------------------------------------
\* A zeroed backend_data, as soundio_disconnect leaves it.
Init ==
  /\ context = "none" /\ devices = 0 /\ notice = FALSE
  /\ replies = 0 /\ cancelled = FALSE /\ device_query_err = FALSE
  /\ current_devices_info = NoInfo
  /\ ready_flag = FALSE /\ connection_err = "none"
  /\ emitted_shutdown_cb = FALSE /\ device_scan_queued = FALSE
  /\ ready_devices_info = NoInfo /\ safe_devices_info = NoInfo
  /\ cpc = "off" /\ call = "none" /\ signalled = FALSE /\ nudged = FALSE
  /\ disconnects = 0

\* pa_threaded_mainloop_signal: wakes whoever waits now, and is forgotten
\* otherwise.
Signal == signalled' = (signalled \/ cpc \in {"wait", "scan"})

-----------------------------------------------------------------------------
(* The main loop's thread.                                                 *)

\* context_state_callback, PA_CONTEXT_READY.
ContextReady ==
  /\ context = "connecting"
  /\ context' = "ready"
  /\ ready_flag' = TRUE
  /\ Signal
  /\ UNCHANGED <<devices, notice, scan, connection_err, emitted_shutdown_cb,
                 device_scan_queued, infos, cpc, call, nudged, disconnects>>

\* context_state_callback, PA_CONTEXT_FAILED; PulseAudio then cancels what is
\* outstanding.
ContextFailed ==
  /\ context \in {"connecting", "ready"}
  /\ context' = "failed"
  /\ notice' = FALSE
  /\ ready_flag' = TRUE
  /\ connection_err' = IF ready_flag THEN "BackendDisconnected" ELSE "InitAudioBackend"
  /\ cancelled' = (cpc = "scan" /\ replies < 3)
  /\ Signal
  /\ UNCHANGED <<devices, replies, device_query_err, current_devices_info,
                 emitted_shutdown_cb, device_scan_queued, infos, cpc, call, nudged, disconnects>>

\* A device comes, goes or changes; the server will say so if it is subscribed to.
DevicesChange ==
  /\ devices < MaxChanges
  /\ devices' = devices + 1
  /\ notice' = (context = "ready")
  /\ UNCHANGED <<context, scan, status, infos, client>>

\* Mutant: only wakes the client.
SubscribeCallback_only_signals ==
  /\ notice
  /\ notice' = FALSE
  /\ Signal
  /\ UNCHANGED <<context, devices, scan, status, infos, cpc, call, nudged, disconnects>>

\* subscribe_callback.
SubscribeCallback ==
  /\ notice
  /\ notice' = FALSE
  /\ device_scan_queued' = TRUE
  /\ Signal
  /\ UNCHANGED <<context, devices, scan, ready_flag, connection_err, emitted_shutdown_cb,
                 infos, cpc, call, nudged, disconnects>>

\* The last call of sink_info_callback, source_info_callback or
\* server_info_callback for a query, and the end of its operation.  Any of them
\* may have run out of memory; a query error is never forgotten.
QueryReply(out_of_memory) ==
  /\ cpc = "scan"
  /\ context = "ready"
  /\ replies < 3
  /\ replies' = replies + 1
  /\ current_devices_info' = Append(current_devices_info, devices)
  /\ device_query_err' = (device_query_err \/ out_of_memory)
  /\ Signal
  /\ UNCHANGED <<server, cancelled, status, infos, cpc, call, nudged, disconnects>>

-----------------------------------------------------------------------------
(* Connecting.                                                             *)

\* soundio_pulseaudio_init up to its wait.
Connect ==
  /\ cpc = "off"
  /\ cpc' = "init"
  /\ context' = "connecting"
  /\ device_scan_queued' = TRUE
  /\ UNCHANGED <<devices, notice, scan, ready_flag, connection_err, emitted_shutdown_cb,
                 infos, call, signalled, nudged, disconnects>>

\* destroy_pa and the rest of soundio_disconnect.
TearDown ==
  /\ cpc' = "off"
  /\ context' = "none" /\ notice' = FALSE
  /\ replies' = 0 /\ cancelled' = FALSE /\ device_query_err' = FALSE
  /\ current_devices_info' = NoInfo
  /\ ready_flag' = FALSE /\ connection_err' = "none"
  /\ emitted_shutdown_cb' = FALSE /\ device_scan_queued' = FALSE
  /\ ready_devices_info' = NoInfo /\ safe_devices_info' = NoInfo
  /\ call' = "none" /\ signalled' = FALSE /\ nudged' = FALSE /\ disconnects' = 0
  /\ UNCHANGED devices

\* The wait for ready_flag is over: connected and subscribed, or given up,
\* because the context failed or could not be subscribed to.
InitDone ==
  /\ cpc = "init"
  /\ ready_flag
  /\ \/ TearDown
     \/ /\ connection_err = "none"
        /\ cpc' = "idle"
        /\ UNCHANGED <<server, scan, status, infos, call, signalled, nudged, disconnects>>

Disconnect == cpc = "idle" /\ TearDown

-----------------------------------------------------------------------------
(* flush_events and wait_events.                                           *)

\* my_flush_events returns.
Return ==
  IF call = "wait_events 1"
  THEN cpc' = "between" /\ call' = "wait_events 2"
  ELSE cpc' = "idle" /\ call' = "none"

\* Mutant: an error is reported at every flush.
Publish_every_time(err, ready) ==
  /\ connection_err' = err
  /\ UNCHANGED emitted_shutdown_cb
  /\ IF err # "none"
     THEN cpc' = "shutdown" /\ ready_devices_info' = ready /\ UNCHANGED <<safe_devices_info, call>>
     ELSE /\ ready_devices_info' = NoInfo
          /\ IF ready # NoInfo
             THEN cpc' = "change" /\ safe_devices_info' = ready /\ UNCHANGED call
             ELSE Return /\ UNCHANGED safe_devices_info

\* The end of my_flush_events under the lock (lines 468-476), with the
\* connection's error and the scanned devices as they now are.
Publish(err, ready) ==
  /\ connection_err' = err
  /\ IF err # "none" /\ ~emitted_shutdown_cb
     THEN /\ emitted_shutdown_cb' = TRUE
          /\ cpc' = "shutdown"
          /\ ready_devices_info' = ready
          /\ UNCHANGED <<safe_devices_info, call>>
     ELSE /\ UNCHANGED emitted_shutdown_cb
          /\ ready_devices_info' = NoInfo
          /\ IF ready # NoInfo
             THEN cpc' = "change" /\ safe_devices_info' = ready /\ UNCHANGED call
             ELSE Return /\ UNCHANGED safe_devices_info

\* refresh_devices as far as its first wait, or to its end when memory is short.
\* A context that is not ready accepts no query, which perform_operation takes
\* for a lack of memory.
BeginScan ==
  /\ device_scan_queued' = FALSE
  /\ replies' = 0 /\ cancelled' = FALSE /\ current_devices_info' = NoInfo
  /\ signalled' = FALSE
  /\ UNCHANGED device_query_err
  /\ \/ /\ context = "ready"
        /\ cpc' = "scan"
        /\ UNCHANGED <<connection_err, emitted_shutdown_cb, infos, call>>
     \/ Publish("NoMem", ready_devices_info)

\* my_flush_events after its wait, if any.
FlushBody ==
  IF device_scan_queued /\ connection_err = "none"
  THEN BeginScan
  ELSE /\ Publish(connection_err, ready_devices_info)
       /\ signalled' = FALSE
       /\ UNCHANGED <<scan, device_scan_queued>>

\* soundio_flush_events or soundio_wait_events is called.
Call(kind) ==
  /\ cpc = "idle"
  /\ cpc' = "flush"
  /\ call' = kind
  /\ nudged' = FALSE
  /\ UNCHANGED <<server, scan, status, infos, signalled, disconnects>>

\* my_flush_events with wait false takes the lock.
FlushNow ==
  /\ cpc = "flush"
  /\ FlushBody
  /\ UNCHANGED <<server, ready_flag, nudged, disconnects>>

\* my_flush_events with wait true takes the lock and waits, whatever has
\* happened since the first flush gave it up.
FlushWaits ==
  /\ cpc = "between"
  /\ cpc' = "wait"
  /\ signalled' = FALSE
  /\ UNCHANGED <<server, scan, status, infos, call, nudged, disconnects>>

\* The wait is over.
FlushWoken ==
  /\ cpc = "wait"
  /\ signalled
  /\ FlushBody
  /\ UNCHANGED <<server, ready_flag, nudged, disconnects>>

\* Mutant: a scan queued while this one ran is taken for done.
ScanWoken_clears_queue ==
  /\ cpc = "scan"
  /\ signalled
  /\ signalled' = FALSE
  /\ IF cancelled
     THEN Publish("Interrupted", ready_devices_info) /\ UNCHANGED device_scan_queued
     ELSE IF replies < 3
     THEN UNCHANGED <<cpc, call, connection_err, emitted_shutdown_cb, infos, device_scan_queued>>
     ELSE /\ device_scan_queued' = FALSE
          /\ IF device_query_err
             THEN Publish("NoMem", ready_devices_info)
             ELSE Publish("none", current_devices_info)
  /\ UNCHANGED <<server, scan, ready_flag, nudged, disconnects>>

\* Mutant: a scan that was cut short publishes what it has.
ScanWoken_publishes_partial ==
  /\ cpc = "scan"
  /\ signalled
  /\ signalled' = FALSE
  /\ IF replies < 3 /\ ~cancelled
     THEN UNCHANGED <<cpc, call, connection_err, emitted_shutdown_cb, infos>>
     ELSE Publish("none", current_devices_info)
  /\ UNCHANGED <<server, scan, ready_flag, device_scan_queued, nudged, disconnects>>

\* perform_operation looks at its query again; when all three are answered the
\* scan is over.  Its result, an error or none, becomes the connection's error.
ScanWoken ==
  /\ cpc = "scan"
  /\ signalled
  /\ signalled' = FALSE
  /\ IF cancelled
     THEN Publish("Interrupted", ready_devices_info)
     ELSE IF replies < 3
     THEN UNCHANGED <<cpc, call, connection_err, emitted_shutdown_cb, infos>>
     ELSE IF device_query_err
     THEN Publish("NoMem", ready_devices_info)
     ELSE Publish("none", current_devices_info)
  /\ UNCHANGED <<server, scan, ready_flag, device_scan_queued, nudged, disconnects>>

\* on_backend_disconnect, after the lock is given up.
OnBackendDisconnect ==
  /\ cpc = "shutdown"
  /\ disconnects' = disconnects + 1
  /\ Return
  /\ UNCHANGED <<server, scan, status, infos, signalled, nudged>>

\* on_devices_change, after the lock is given up.
OnDevicesChange ==
  /\ cpc = "change"
  /\ Return
  /\ UNCHANGED <<server, scan, status, infos, signalled, nudged, disconnects>>

-----------------------------------------------------------------------------
(* Any thread.                                                             *)

Wakeup ==
  /\ Connected
  /\ nudged' = (nudged \/ InWaitEvents)
  /\ Signal
  /\ UNCHANGED <<server, scan, status, infos, cpc, call, disconnects>>

ForceDeviceScan ==
  /\ Connected
  /\ device_scan_queued' = TRUE
  /\ Signal
  /\ UNCHANGED <<server, scan, ready_flag, connection_err, emitted_shutdown_cb, infos,
                 cpc, call, nudged, disconnects>>

-----------------------------------------------------------------------------
MainLoopStep ==
  \/ ContextReady \/ SubscribeCallback
  \/ \E out_of_memory \in BOOLEAN : QueryReply(out_of_memory)

ClientStep ==
  \/ InitDone \/ FlushNow \/ FlushWaits \/ FlushWoken \/ ScanWoken
  \/ OnBackendDisconnect \/ OnDevicesChange

Next ==
  \/ MainLoopStep \/ ClientStep
  \/ ContextFailed \/ DevicesChange
  \/ Connect \/ Disconnect
  \/ \E kind \in {"flush_events", "wait_events 1"} : Call(kind)
  \/ Wakeup \/ ForceDeviceScan

Spec == Init /\ [][Next]_vars

\* Both threads run when they can, and the client goes on flushing events.
FairSpec ==
  /\ Spec
  /\ WF_vars(MainLoopStep)
  /\ WF_vars(ClientStep)
  /\ WF_vars(Call("flush_events"))

-----------------------------------------------------------------------------
TypeOK ==
  /\ context \in {"none", "connecting", "ready", "failed"}
  /\ devices \in 0..MaxChanges
  /\ replies \in 0..3
  /\ {notice, cancelled, ready_flag, emitted_shutdown_cb, device_scan_queued,
      device_query_err, signalled, nudged} \subseteq BOOLEAN
  /\ connection_err \in {"none", "BackendDisconnected", "InitAudioBackend", "NoMem", "Interrupted"}
  /\ \A info \in {current_devices_info, ready_devices_info, safe_devices_info} :
       Len(info) \in 0..3 /\ \A i \in 1..Len(info) : info[i] \in 0..MaxChanges
  /\ cpc \in {"off", "init", "idle", "flush", "between", "wait", "scan", "shutdown", "change"}
  /\ call \in {"none", "flush_events", "wait_events 1", "wait_events 2"}
  /\ disconnects \in Nat

\* No change of the devices is forgotten (pulseaudio.c:21, 462-464): while the
\* connection stands, whatever the client has not been shown, and the scan under
\* way has missed, is on its way or queued for the next scan.
NoLostScan ==
  /\ TypeOK
  /\ LET shown == IF cpc = "scan" THEN current_devices_info ELSE safe_devices_info
     IN  (Connected /\ context = "ready" /\ connection_err = "none") =>
           \/ notice \/ device_scan_queued
           \/ cpc # "scan" /\ shown = Fresh
           \/ cpc = "scan" /\ \A i \in 1..Len(shown) : shown[i] = devices

\* What the client is shown is a whole scan (pulseaudio.c:394-406, 440-442).
ShownScansAreComplete == safe_devices_info # NoInfo => Len(safe_devices_info) = Len(Fresh)

\* A client that keeps flushing, and is not held up in wait_events, sees the
\* devices as they are once they stop changing, if the connection lasts
\* (pulseaudio.c:449-476).
ClientSeesDevices ==
  (/\ <>[](Connected /\ connection_err = "none" /\ context = "ready")
   /\ []<>(cpc = "idle"))
    => []<>(safe_devices_info = Fresh)

\* soundio.h:334 says on_backend_disconnect is "Called when the backend
\* disconnects": a client that keeps flushing, and is not held up in
\* wait_events, learns of a failed connection.
DisconnectIsReported ==
  []<>(cpc = "idle") =>
    ((Connected /\ context = "failed") ~> (disconnects > 0 \/ ~Connected))

\* soundio.h:762 says soundio_wakeup "Makes ::soundio_wait_events stop blocking."
\* It does not hold, as a wakeup between the two flushes is forgotten
\* (pulseaudio.c:460), and no run checks it.
WakeupEndsWait == (InWaitEvents /\ nudged) ~> ~InWaitEvents
-----------------------------------------------------------------------------
(* What the client sees of all this.                                       *)

Place == IF cpc \in {"off", "idle"} THEN cpc ELSE "call"
Shown == {safe_devices_info[i] : i \in 1..Len(safe_devices_info)}

Events == INSTANCE DeviceEvents WITH place <- Place, shown <- Shown

\* The client's list changes only in its own calls, never goes back to an older
\* one, and not after a report of a lost connection, of which there is at most
\* one (pulseaudio.c:449-484, soundio.h:331-350), although the queries of a scan
\* are answered one by one and the context may fail at any time.
ShowsInOrder == Events!EventsSpec
=============================================================================
