--------------------------- MODULE WasapiDevices ---------------------------
(***************************************************************************)
(* src/wasapi.c: the thread that enumerates the endpoints, the             *)
(* notifications Windows sends, and the client's side (flush_events,       *)
(* wait_events, wakeup, force_device_scan, disconnect).                    *)
(*                                                                         *)
(* A step is what a thread does while it holds one of the two mutexes, or  *)
(* one call of the scan that may fail.  Windows is external: the active    *)
(* endpoints and the default one, which may change at any time, also in    *)
(* the middle of a scan.  The code treats render and capture endpoints     *)
(* alike, so the model has one direction.                                  *)
(***************************************************************************)
EXTENDS Integers, Sequences

CONSTANTS Endpoints,   \* the endpoints there may be
          MaxChanges   \* bound: how often they change

ASSUME ChangesAssumption == MaxChanges \in Nat

VARIABLES active, default,     \* the endpoints there are, and which is the default
          changes,             \* how many changes there were
          notice,              \* Windows is about to call the notification client
          registered, stale,   \* it is registered: by this thread, by one that left it so
          device_scan_queued, abort_flag,
          have_devices_flag, shutdown_err, emitted_shutdown_cb,
          ready_devices_info, safe_devices_info,
          dpc, rd,             \* where the device thread is, and its struct RefreshDevices
          scan_signalled,      \* scan_devices_cond was signalled to it
          cpc, call,           \* where the client's thread is, and in which call
          signalled            \* cond was signalled to it

windows == <<active, default, changes, notice>>
clients == <<registered, stale>>
request == <<device_scan_queued, abort_flag>>
status == <<have_devices_flag, shutdown_err, emitted_shutdown_cb>>
infos == <<ready_devices_info, safe_devices_info>>
thread == <<dpc, rd, scan_signalled>>
client == <<cpc, call, signalled>>
vars == <<windows, clients, request, status, infos, thread, client>>

None == "none"

\* A SoundIoDevicesInfo: its devices and the index of the default one, -1 for
\* none; and, for the properties, which endpoint was to be the default and how
\* many changes there had been when the scan began.
NoInfo == [devices |-> <<>>, default_output_index |-> -1, wanted |-> None, of |-> -1]

NoScan == [info |-> NoInfo, collection |-> {}]

Watching == dpc \notin {"none", "done"}
Registered == registered \/ stale

Init ==
  /\ active \in SUBSET Endpoints
  /\ default \in active \union {None}
  /\ changes = 0 /\ notice = FALSE
  /\ registered = FALSE /\ stale = FALSE
  /\ device_scan_queued = FALSE /\ abort_flag = FALSE
  /\ have_devices_flag = FALSE /\ shutdown_err = FALSE /\ emitted_shutdown_cb = FALSE
  /\ ready_devices_info = NoInfo /\ safe_devices_info = NoInfo
  /\ dpc = "none" /\ rd = NoScan /\ scan_signalled = FALSE
  /\ cpc = "off" /\ call = "none" /\ signalled = FALSE

\* soundio_os_cond_signal wakes who waits now, and is forgotten otherwise.
Signal == signalled' = (signalled \/ cpc = "wait")
SignalScan == scan_signalled' = (scan_signalled \/ dpc = "wait")

-----------------------------------------------------------------------------
(* Windows.                                                                *)

\* An endpoint comes or goes, or another one becomes the default.
EndpointsChange ==
  /\ changes < MaxChanges
  /\ changes' = changes + 1
  /\ active' \in {active} \union {active \union {e} : e \in Endpoints}
                          \union {active \ {e} : e \in Endpoints}
  /\ default' \in IF default \in active' /\ active' # active
                 THEN {default} ELSE active' \union {None}
  /\ <<active, default>>' # <<active, default>>
  /\ notice' = (notice \/ Registered)
  /\ UNCHANGED <<clients, request, status, infos, thread, client>>

\* Mutant: sets the flag and does not wake the thread.
QueueScan_quietly ==
  /\ device_scan_queued' = TRUE
  /\ UNCHANGED scan_signalled

\* force_device_scan_wasapi.
QueueScan ==
  /\ device_scan_queued' = TRUE
  /\ SignalScan

\* soundio_MMNotificationClient's methods all come to queue_device_scan.
Notification ==
  /\ notice /\ Registered
  /\ cpc \notin {"off", "crashed"}
  /\ notice' = FALSE
  /\ QueueScan
  /\ UNCHANGED <<active, default, changes, clients, abort_flag, status, infos, dpc, rd, client>>

\* The same after soundio_disconnect: the mutex it takes is no more.
StrayNotification ==
  /\ notice /\ Registered
  /\ cpc = "off"
  /\ cpc' = "crashed"
  /\ UNCHANGED <<windows, clients, request, status, infos, thread, call, signalled>>

-----------------------------------------------------------------------------
(* The device thread.                                                      *)

\* shutdown_backend, after which the thread returns: the notification client
\* stays registered if it was.
Shutdown ==
  /\ shutdown_err' = TRUE
  /\ Signal
  /\ dpc' = "done"
  /\ rd' = NoScan
  /\ stale' = (stale \/ registered)
  /\ registered' = FALSE

\* A step of the thread that goes on at the given place.
GoesOn(place) ==
  /\ dpc' = place
  /\ UNCHANGED <<clients, shutdown_err, signalled>>

\* The enumerator is made and the notification client registered with it.
Register ==
  /\ dpc = "start"
  /\ \/ /\ dpc' = "loop"
        /\ registered' = TRUE
        /\ UNCHANGED <<stale, rd, shutdown_err, signalled>>
     \/ Shutdown
  /\ UNCHANGED <<windows, request, have_devices_flag, emitted_shutdown_cb, infos,
                 scan_signalled, cpc, call>>

\* The head of the loop, and the end of its wait; the wait may also end for no
\* reason.
Loop ==
  /\ dpc \in {"loop", "wait"}
  /\ ~abort_flag
  /\ IF device_scan_queued
     THEN dpc' = "defaults" /\ device_scan_queued' = FALSE
     ELSE dpc' = "wait" /\ UNCHANGED device_scan_queued
  /\ scan_signalled' = FALSE
  /\ UNCHANGED <<windows, clients, abort_flag, status, infos, rd, client>>

\* Mutant: the client stays registered.
EndThread_registered ==
  /\ dpc \in {"loop", "wait"}
  /\ abort_flag
  /\ dpc' = "done"
  /\ scan_signalled' = FALSE
  /\ UNCHANGED <<windows, clients, request, status, infos, rd, client>>

\* The loop is left: the notification client is unregistered.
EndThread ==
  /\ dpc \in {"loop", "wait"}
  /\ abort_flag
  /\ dpc' = "done"
  /\ registered' = FALSE
  /\ notice' = (notice /\ stale)
  /\ scan_signalled' = FALSE
  /\ UNCHANGED <<active, default, changes, stale, request, status, infos, rd, client>>

\* refresh_devices asks for the default endpoints; that there is none is no
\* failure.
GetDefault ==
  /\ dpc = "defaults"
  /\ \/ /\ GoesOn("enumerate")
        /\ rd' = [rd EXCEPT !.info.wanted = default, !.info.of = changes]
     \/ Shutdown
  /\ UNCHANGED <<windows, request, have_devices_flag, emitted_shutdown_cb, infos,
                 scan_signalled, cpc, call>>

\* It takes the collection of active endpoints.
EnumAudioEndpoints ==
  /\ dpc = "enumerate"
  /\ \/ GoesOn("item") /\ rd' = [rd EXCEPT !.collection = active]
     \/ Shutdown
  /\ UNCHANGED <<windows, request, have_devices_flag, emitted_shutdown_cb, infos,
                 scan_signalled, cpc, call>>

\* Mutant: the index counts endpoints, each of which makes two devices.
ListDevice_by_endpoint(info, e) ==
  [info EXCEPT
     !.default_output_index = IF e = info.wanted THEN Len(info.devices) \div 2 ELSE @,
     !.devices = @ \o << <<e, "shared">>, <<e, "raw">> >>]

\* An endpoint makes a shared and a raw device; the shared one of the default
\* endpoint is the default device.
ListDevice(info, e) ==
  [info EXCEPT
     !.default_output_index = IF e = info.wanted THEN Len(info.devices) ELSE @,
     !.devices = @ \o << <<e, "shared">>, <<e, "raw">> >>]

\* IMMDeviceCollection_Item: the collection has an order of its own.
Item(collection) == CHOOSE e \in collection : TRUE

\* One round of the loop over the collection: the endpoint is left out, since
\* it is gone or does not answer; or listed, with probe errors or without; or
\* memory runs out.
ProbeEndpoint ==
  /\ dpc = "item"
  /\ rd.collection # {}
  /\ LET e == Item(rd.collection) IN
       \/ GoesOn("item") /\ rd' = [rd EXCEPT !.collection = @ \ {e}]
       \/ GoesOn("item") /\ rd' = [rd EXCEPT !.collection = @ \ {e},
                                             !.info = ListDevice(@, e)]
       \/ Shutdown
  /\ UNCHANGED <<windows, request, have_devices_flag, emitted_shutdown_cb, infos,
                 scan_signalled, cpc, call>>

\* The end of refresh_devices, under the mutex.
PublishScan ==
  /\ dpc = "item" /\ rd.collection = {}
  /\ ready_devices_info' = rd.info
  /\ have_devices_flag' = TRUE
  /\ Signal
  /\ rd' = NoScan
  /\ dpc' = "loop"
  /\ UNCHANGED <<windows, clients, request, shutdown_err, emitted_shutdown_cb,
                 safe_devices_info, scan_signalled, cpc, call>>

-----------------------------------------------------------------------------
(* The client's thread.                                                    *)

\* soundio_wasapi_init; when it fails there is no connection.
Connect ==
  /\ cpc = "off"
  /\ cpc' = "idle"
  /\ device_scan_queued' = TRUE
  /\ dpc' = "start"
  /\ UNCHANGED <<windows, clients, abort_flag, status, infos, rd, scan_signalled, call,
                 signalled>>

\* soundio_flush_events or soundio_wait_events is called.
Call(kind) ==
  /\ cpc = "idle"
  /\ cpc' = "flush"
  /\ call' = kind
  /\ UNCHANGED <<windows, clients, request, status, infos, thread, signalled>>

\* my_flush_events returns; wait_events calls it twice.
Return ==
  IF call = "wait_events 1"
  THEN cpc' = "between" /\ call' = "wait_events 2"
  ELSE cpc' = "idle" /\ call' = "none"

\* my_flush_events after its wait: an error not yet reported goes first.
FlushBody ==
  \/ /\ shutdown_err /\ ~emitted_shutdown_cb
     /\ emitted_shutdown_cb' = TRUE
     /\ cpc' = "callback"
     /\ UNCHANGED <<infos, call>>
  \/ /\ ~shutdown_err \/ emitted_shutdown_cb
     /\ ready_devices_info # NoInfo
     /\ safe_devices_info' = ready_devices_info
     /\ ready_devices_info' = NoInfo
     /\ cpc' = "callback"
     /\ UNCHANGED <<emitted_shutdown_cb, call>>
  \/ /\ ~shutdown_err \/ emitted_shutdown_cb
     /\ ready_devices_info = NoInfo
     /\ Return
     /\ UNCHANGED <<emitted_shutdown_cb, infos>>

\* The condition of the loop around the wait.
MayFlush == have_devices_flag \/ shutdown_err

\* my_flush_events takes the mutex, and waits if it is told to or has to.
Flush ==
  /\ \/ cpc = "flush" /\ MayFlush /\ FlushBody
     \/ /\ cpc = "between" \/ (cpc = "flush" /\ ~MayFlush)
        /\ cpc' = "wait"
        /\ UNCHANGED <<emitted_shutdown_cb, infos, call>>
  /\ signalled' = FALSE
  /\ UNCHANGED <<windows, clients, request, have_devices_flag, shutdown_err, thread>>

\* The wait is over: a signal came, or for no reason.
Woken ==
  /\ cpc = "wait"
  /\ \/ MayFlush /\ FlushBody
     \/ ~MayFlush /\ UNCHANGED <<emitted_shutdown_cb, infos, cpc, call>>
  /\ signalled' = FALSE
  /\ UNCHANGED <<windows, clients, request, have_devices_flag, shutdown_err, thread>>

\* on_backend_disconnect or on_devices_change returns.
CallbackReturns ==
  /\ cpc = "callback"
  /\ Return
  /\ UNCHANGED <<windows, clients, request, status, infos, thread, signalled>>

\* Mutant: the thread is not woken.
AbortThread_quietly ==
  /\ cpc = "idle"
  /\ cpc' = "joining"
  /\ abort_flag' = TRUE
  /\ UNCHANGED <<windows, clients, device_scan_queued, status, infos, thread, call, signalled>>

\* destroy_wasapi begins: the flag is set and the thread woken, under the mutex.
AbortThread ==
  /\ cpc = "idle"
  /\ cpc' = "joining"
  /\ abort_flag' = TRUE
  /\ SignalScan
  /\ UNCHANGED <<windows, clients, device_scan_queued, status, infos, dpc, rd, call, signalled>>

\* The thread has returned; the rest of destroy_wasapi and soundio_disconnect,
\* which zeroes the backend's data.
Join ==
  /\ cpc = "joining"
  /\ dpc = "done"
  /\ device_scan_queued' = FALSE /\ abort_flag' = FALSE
  /\ have_devices_flag' = FALSE /\ shutdown_err' = FALSE /\ emitted_shutdown_cb' = FALSE
  /\ ready_devices_info' = NoInfo /\ safe_devices_info' = NoInfo
  /\ dpc' = "none" /\ scan_signalled' = FALSE
  /\ cpc' = "off" /\ signalled' = FALSE
  /\ UNCHANGED <<windows, clients, rd, call>>

-----------------------------------------------------------------------------
(* Any thread.                                                             *)

Wakeup ==
  /\ cpc \notin {"off", "joining", "crashed"}
  /\ Signal
  /\ UNCHANGED <<windows, clients, request, status, infos, thread, cpc, call>>

ForceDeviceScan ==
  /\ cpc \notin {"off", "joining", "crashed"}
  /\ QueueScan
  /\ UNCHANGED <<windows, clients, abort_flag, status, infos, dpc, rd, client>>

-----------------------------------------------------------------------------
ScanStep == GetDefault \/ EnumAudioEndpoints \/ ProbeEndpoint \/ PublishScan

ClientStep == Flush \/ CallbackReturns \/ Join

Next ==
  \/ EndpointsChange \/ Notification \/ StrayNotification
  \/ Register \/ Loop \/ EndThread \/ ScanStep
  \/ Connect \/ ClientStep \/ Woken \/ AbortThread
  \/ \E kind \in {"flush_events", "wait_events 1"} : Call(kind)
  \/ Wakeup \/ ForceDeviceScan

\* Threads run when they can, signalled waits end, Windows sends its
\* notifications, and a connected client goes on flushing events.
Fairness ==
  /\ WF_vars(Notification)
  /\ WF_vars(Register \/ ScanStep)
  /\ WF_vars((dpc = "loop" \/ scan_signalled) /\ (Loop \/ EndThread))
  /\ WF_vars(ClientStep)
  /\ WF_vars(signalled /\ Woken)
  /\ WF_vars(Call("flush_events"))

Spec == Init /\ [][Next]_vars /\ Fairness

-----------------------------------------------------------------------------
Devices == Endpoints \X {"shared", "raw"}
Infos == [devices : Seq(Devices), default_output_index : Int,
          wanted : Endpoints \union {None}, of : -1..MaxChanges]

TypeOK ==
  /\ active \subseteq Endpoints /\ default \in active \union {None}
  /\ changes \in 0..MaxChanges
  /\ {notice, registered, stale, device_scan_queued, abort_flag, have_devices_flag,
      shutdown_err, emitted_shutdown_cb, scan_signalled, signalled} \subseteq BOOLEAN
  /\ {ready_devices_info, safe_devices_info} \subseteq Infos
  /\ rd \in [info : Infos, collection : SUBSET Endpoints]
  /\ dpc \in {"none", "start", "loop", "wait", "defaults", "enumerate", "item", "done"}
  /\ cpc \in {"off", "idle", "flush", "between", "wait", "callback", "joining", "crashed"}
  /\ call \in {"none", "flush_events", "wait_events 1", "wait_events 2"}

\* The default device the client is shown (wasapi.c:850-866) is the shared device of the
\* endpoint that was the default when the scan began, however many endpoints
\* were left out; and if that endpoint is listed there is a default device.
DefaultIsListed ==
  /\ TypeOK
  /\ \A info \in {ready_devices_info, safe_devices_info} :
       LET i == info.default_output_index
           d == <<info.wanted, "shared">>
       IN  IF \E k \in 1..Len(info.devices) : info.devices[k] = d
           THEN i + 1 \in 1..Len(info.devices) /\ info.devices[i + 1] = d
           ELSE i = -1

\* A notification finds the context it is for (wasapi.c:1124, 2236-2240): one that comes
\* after soundio_disconnect comes of a thread whose scan or registration failed,
\* which does not unregister the notification client.
NotificationsFindContext ==
  (cpc = "crashed" \/ (cpc = "off" /\ notice)) => stale

\* soundio_disconnect returns (wasapi.c:2182-2188), wherever the device thread
\* is: it sees the flag before it waits, or is woken.
DisconnectCompletes == cpc = "joining" ~> cpc = "off"

\* soundio.h:766 says "libsoundio listens to system events for device changes
\* and responds to them by rescanning devices": when the endpoints change no
\* more, a client that keeps flushing is shown a list begun after the last change.
ClientSeesDevices ==
  (<>[]Watching /\ []<>(cpc = "idle")) => []<>(safe_devices_info.of = changes)
=============================================================================
