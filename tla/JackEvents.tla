----------------------------- MODULE JackEvents -----------------------------
(***************************************************************************)
(* src/jack.c: connecting to the JACK server, scanning its ports, and      *)
(* telling the client of changes and of the server's end.                  *)
(*                                                                         *)
(* JACK's thread runs the notification callbacks.  A change clears the     *)
(* atomic refresh_devices_flag, without the mutex, and only then takes the *)
(* mutex to signal; the client's thread, in flush_events or wait_events,   *)
(* tests the flag after it has given the mutex up and scans the ports      *)
(* itself.  force_device_scan does the same from any thread.               *)
(*                                                                         *)
(* The server is external: ports that change, notifications on their way,  *)
(* and an end after which it answers no query.                             *)
(***************************************************************************)
EXTENDS Integers

CONSTANTS MaxChanges,   \* bound: how often the server's ports change
          MaxFailures   \* bound: how often a scan runs out of memory

ASSUME BoundsAssumption == MaxChanges \in Nat /\ MaxFailures \in Nat

VARIABLES up,                    \* the server runs
          devices,               \* the version of its ports and settings
          notice,                \* a notification is on its way
          refresh_devices_flag,  \* atomic: TRUE when set, so that no refresh is due
          signalling,            \* who has cleared the flag and has yet to signal
          is_shutdown, emitted_shutdown_cb,
          safe_devices_info,     \* the versions it was made from
          port_names,            \* the version of the names a scan goes through
          failures,
          cpc, call,             \* where the client's thread is, and in which call
          signalled,             \* the condition variable was signalled to it
          disconnects            \* calls of on_backend_disconnect for this connection

server == <<up, devices, notice>>
status == <<is_shutdown, emitted_shutdown_cb>>
scan == <<safe_devices_info, port_names, failures>>
vars == <<server, refresh_devices_flag, signalling, status, scan, cpc, call, signalled, disconnects>>

None == -1                       \* no version: a NULL pointer
NoInfo == <<None, None>>
Fresh == <<devices, devices>>

Active == cpc # "off"            \* jack_activate has been called
Connected == Active /\ call # "init"

Init ==
  /\ up = TRUE /\ devices = 0 /\ notice = FALSE
  /\ refresh_devices_flag = FALSE /\ signalling = {}
  /\ is_shutdown = FALSE /\ emitted_shutdown_cb = FALSE
  /\ safe_devices_info = NoInfo /\ port_names = None /\ failures = 0
  /\ cpc = "off" /\ call = "none" /\ signalled = FALSE /\ disconnects = 0

\* soundio_os_cond_signal: wakes who waits now, and is forgotten otherwise.
Signal == signalled' = (signalled \/ cpc = "wait")

-----------------------------------------------------------------------------
(* The server and JACK's thread.                                           *)

DevicesChange ==
  /\ up /\ devices < MaxChanges
  /\ devices' = devices + 1
  /\ notice' = Active
  /\ UNCHANGED <<up, refresh_devices_flag, signalling, status, scan, cpc, call, signalled, disconnects>>

\* notify_devices_change as far as the mutex, from the buffer size, sample rate,
\* port registration and port rename callbacks.
NotifyDevicesChange ==
  /\ notice /\ "jack" \notin signalling
  /\ notice' = FALSE
  /\ refresh_devices_flag' = FALSE
  /\ signalling' = signalling \union {"jack"}
  /\ UNCHANGED <<up, devices, status, scan, cpc, call, signalled, disconnects>>

\* The rest of notify_devices_change, or of force_device_scan.
SignalChange(who) ==
  /\ who \in signalling
  /\ signalling' = signalling \ {who}
  /\ Signal
  /\ UNCHANGED <<server, refresh_devices_flag, status, scan, cpc, call, disconnects>>

ServerEnds ==
  /\ up
  /\ up' = FALSE
  /\ notice' = FALSE
  /\ UNCHANGED <<devices, refresh_devices_flag, signalling, status, scan, cpc, call, signalled, disconnects>>

ShutdownCallback ==
  /\ ~up /\ Active /\ ~is_shutdown
  /\ is_shutdown' = TRUE
  /\ Signal
  /\ UNCHANGED <<server, refresh_devices_flag, signalling, emitted_shutdown_cb, scan, cpc, call, disconnects>>

-----------------------------------------------------------------------------
(* The client's thread: connecting, and scanning.                          *)

\* soundio_jack_init as far as its scan; without a server there is no connection.
Connect ==
  /\ cpc = "off" /\ up
  /\ cpc' = "refresh" /\ call' = "init"
  /\ refresh_devices_flag' = FALSE
  /\ UNCHANGED <<server, signalling, status, scan, signalled, disconnects>>

\* Mutant: the list of the old connection stays.
TearDown_keeps_list ==
  /\ signalling = {}
  /\ notice' = FALSE
  /\ refresh_devices_flag' = FALSE
  /\ is_shutdown' = FALSE /\ emitted_shutdown_cb' = FALSE
  /\ port_names' = None
  /\ cpc' = "off" /\ call' = "none" /\ signalled' = FALSE /\ disconnects' = 0
  /\ UNCHANGED <<up, devices, signalling, safe_devices_info, failures>>

\* destroy_jack and the rest of soundio_disconnect: jack_client_close waits for
\* JACK's thread, and no other thread may be in a call.
TearDown ==
  /\ signalling = {}
  /\ notice' = FALSE
  /\ refresh_devices_flag' = FALSE
  /\ is_shutdown' = FALSE /\ emitted_shutdown_cb' = FALSE
  /\ safe_devices_info' = NoInfo /\ port_names' = None
  /\ cpc' = "off" /\ call' = "none" /\ signalled' = FALSE /\ disconnects' = 0
  /\ UNCHANGED <<up, devices, signalling, failures>>

Disconnect == cpc = "idle" /\ TearDown

\* my_flush_events returns; wait_events calls it twice.
Return ==
  IF call = "wait_events 1"
  THEN cpc' = "between" /\ call' = "wait_events 2"
  ELSE cpc' = "idle" /\ call' = "none"

\* refresh_devices begins, or begins again: refresh_devices_bare looks at
\* is_shutdown, without the mutex, and asks for the names of the ports.
GetPorts ==
  /\ cpc = "refresh" /\ ~is_shutdown /\ up
  /\ cpc' = "ports"
  /\ port_names' = devices
  /\ UNCHANGED <<server, refresh_devices_flag, signalling, status, safe_devices_info, failures,
                 call, signalled, disconnects>>

\* Mutant: the flag is set when the refresh is over.
RefreshDone_sets_flag ==
  /\ cpc = "ports"
  /\ safe_devices_info' = <<port_names, devices>>
  /\ port_names' = None
  /\ refresh_devices_flag' = TRUE
  /\ IF call = "init" THEN cpc' = "idle" /\ call' = "none" ELSE cpc' = "change" /\ UNCHANGED call
  /\ UNCHANGED <<server, signalling, status, failures, signalled, disconnects>>

\* It goes through the ports.
RefreshDone ==
  /\ cpc = "ports"
  /\ safe_devices_info' = <<port_names, devices>>
  /\ port_names' = None
  /\ IF call = "init" THEN cpc' = "idle" /\ call' = "none" ELSE cpc' = "change" /\ UNCHANGED call
  /\ UNCHANGED <<server, refresh_devices_flag, signalling, status, failures, signalled, disconnects>>

\* A port is gone by the time it is looked up: SoundIoErrorInterrupted.
RefreshAgain ==
  /\ cpc = "ports"
  /\ port_names # devices \/ ~up
  /\ cpc' = "refresh"
  /\ port_names' = None
  /\ UNCHANGED <<server, refresh_devices_flag, signalling, status, safe_devices_info, failures,
                 call, signalled, disconnects>>

\* Mutant: a scan that failed is not tried again.
RefreshFailed_forgets ==
  /\ \/ cpc = "refresh" /\ (is_shutdown \/ ~up) /\ UNCHANGED failures
     \/ /\ cpc \in {"refresh", "ports"} /\ failures < MaxFailures
        /\ failures' = failures + 1
  /\ cpc' = IF call = "init" THEN "giveup" ELSE IF call = "wait_events 1" THEN "between" ELSE "idle"
  /\ call' = IF call = "init" THEN "init" ELSE IF call = "wait_events 1" THEN "wait_events 2" ELSE "none"
  /\ port_names' = None
  /\ UNCHANGED <<server, refresh_devices_flag, signalling, status, safe_devices_info, signalled, disconnects>>

\* The server is gone or memory short.  A flush notes that a refresh is due
\* again; init gives up.
RefreshFailed ==
  /\ \/ cpc = "refresh" /\ (is_shutdown \/ ~up) /\ UNCHANGED failures
     \/ /\ cpc \in {"refresh", "ports"} /\ failures < MaxFailures
        /\ failures' = failures + 1
  /\ IF call = "init"
     THEN cpc' = "giveup" /\ UNCHANGED <<call, refresh_devices_flag>>
     ELSE refresh_devices_flag' = FALSE /\ Return
  /\ port_names' = None
  /\ UNCHANGED <<server, signalling, status, safe_devices_info, signalled, disconnects>>

GiveUp == cpc = "giveup" /\ TearDown

-----------------------------------------------------------------------------
(* flush_events and wait_events.                                           *)

Call(kind) ==
  /\ cpc = "idle"
  /\ cpc' = "flush" /\ call' = kind
  /\ UNCHANGED <<server, refresh_devices_flag, signalling, status, scan, signalled, disconnects>>

\* The second flush of wait_events takes the mutex and waits, whatever happened
\* since the first gave it up.
FlushWaits ==
  /\ cpc = "between"
  /\ cpc' = "wait"
  /\ signalled' = FALSE
  /\ UNCHANGED <<server, refresh_devices_flag, signalling, status, scan, call, disconnects>>

\* Mutant: reports the server's end at every flush.
FlushBody_every_time ==
  /\ signalled' = FALSE
  /\ cpc' = IF is_shutdown THEN "shutdown" ELSE "test"
  /\ emitted_shutdown_cb' = (emitted_shutdown_cb \/ is_shutdown)
  /\ UNCHANGED <<server, refresh_devices_flag, signalling, is_shutdown, scan, call, disconnects>>

\* Mutant: reports the server's end only if a refresh is due as well.
FlushBody_only_when_due ==
  /\ signalled' = FALSE
  /\ LET cb_shutdown == is_shutdown /\ ~emitted_shutdown_cb /\ ~refresh_devices_flag
     IN  /\ cpc' = IF cb_shutdown THEN "shutdown" ELSE "test"
         /\ emitted_shutdown_cb' = (emitted_shutdown_cb \/ cb_shutdown)
  /\ UNCHANGED <<server, refresh_devices_flag, signalling, is_shutdown, scan, call, disconnects>>

\* my_flush_events under the mutex, after its wait if there is one.
FlushBody ==
  /\ signalled' = FALSE
  /\ LET cb_shutdown == is_shutdown /\ ~emitted_shutdown_cb
     IN  /\ cpc' = IF cb_shutdown THEN "shutdown" ELSE "test"
         /\ emitted_shutdown_cb' = (emitted_shutdown_cb \/ cb_shutdown)
  /\ UNCHANGED <<server, refresh_devices_flag, signalling, is_shutdown, scan, call, disconnects>>

\* The first flush does not wait.
Flush == cpc = "flush" /\ FlushBody

\* cond_wait returns when it is signalled, or for no reason.
Woken == cpc = "wait" /\ FlushBody

\* The mutex given up, the flag is tested and set before the scan it asks for.
TestRefreshFlag ==
  /\ cpc = "test"
  /\ refresh_devices_flag' = TRUE
  /\ IF refresh_devices_flag THEN Return ELSE cpc' = "refresh" /\ UNCHANGED call
  /\ UNCHANGED <<server, signalling, status, scan, signalled, disconnects>>

OnBackendDisconnect ==
  /\ cpc = "shutdown"
  /\ disconnects' = disconnects + 1
  /\ Return
  /\ UNCHANGED <<server, refresh_devices_flag, signalling, status, scan, signalled>>

OnDevicesChange ==
  /\ cpc = "change"
  /\ Return
  /\ UNCHANGED <<server, refresh_devices_flag, signalling, status, scan, signalled, disconnects>>

-----------------------------------------------------------------------------
(* Any thread.                                                             *)

Wakeup ==
  /\ Connected
  /\ Signal
  /\ UNCHANGED <<server, refresh_devices_flag, signalling, status, scan, cpc, call, disconnects>>

\* force_device_scan as far as the mutex.
ForceDeviceScan ==
  /\ Connected /\ "other" \notin signalling
  /\ refresh_devices_flag' = FALSE
  /\ signalling' = signalling \union {"other"}
  /\ UNCHANGED <<server, status, scan, cpc, call, signalled, disconnects>>

-----------------------------------------------------------------------------
RefreshStep == GetPorts \/ RefreshDone \/ RefreshAgain \/ RefreshFailed \/ GiveUp

ClientStep ==
  \/ RefreshStep \/ Flush \/ FlushWaits \/ TestRefreshFlag
  \/ OnBackendDisconnect \/ OnDevicesChange

JackStep == NotifyDevicesChange \/ ShutdownCallback \/ \E who \in {"jack", "other"} : SignalChange(who)

Next ==
  \/ JackStep \/ ClientStep \/ Woken
  \/ DevicesChange \/ ServerEnds
  \/ Connect \/ Disconnect
  \/ \E kind \in {"flush_events", "wait_events 1"} : Call(kind)
  \/ Wakeup \/ ForceDeviceScan

\* Both threads run when they can, a signalled wait ends, and a connected client
\* goes on flushing events.
Fairness ==
  /\ WF_vars(JackStep)
  /\ WF_vars(ClientStep)
  /\ WF_vars(signalled /\ Woken)
  /\ WF_vars(Call("flush_events"))

Spec == Init /\ [][Next]_vars /\ Fairness

-----------------------------------------------------------------------------
TypeOK ==
  /\ {up, notice, refresh_devices_flag, is_shutdown, emitted_shutdown_cb, signalled}
       \subseteq BOOLEAN
  /\ devices \in 0..MaxChanges
  /\ signalling \subseteq {"jack", "other"}
  /\ safe_devices_info = NoInfo \/ safe_devices_info \in (0..MaxChanges) \X (0..MaxChanges)
  /\ port_names \in -1..MaxChanges
  /\ (port_names # None) <=> (cpc = "ports")
  /\ failures \in 0..MaxFailures
  /\ cpc \in {"off", "refresh", "ports", "giveup", "idle", "flush", "between", "wait", "test",
              "shutdown", "change"}
  /\ call \in {"none", "init", "flush_events", "wait_events 1", "wait_events 2"}
  /\ disconnects \in Nat

\* No change is forgotten (jack.c:318-322, 809): while the server runs, what the
\* client has not been shown is on its way, marked as due, or will be seen by the
\* scan under way, although the flag and the scan are not under the mutex.
NoLostRefresh ==
  /\ TypeOK
  /\ (Connected /\ up /\ ~is_shutdown) =>
       \/ notice \/ ~refresh_devices_flag
       \/ cpc = "refresh"
       \/ cpc = "ports" /\ port_names = devices
       \/ cpc # "ports" /\ safe_devices_info = Fresh

\* on_backend_disconnect is called at most once, and after it the devices do
\* not change any more (jack.c:89, 308-325).
DisconnectIsFinal ==
  /\ disconnects <= 1
  /\ cpc = "change" => disconnects = 0

\* A client that keeps flushing, and is not held up in wait_events, sees the
\* devices as they are once they stop changing (jack.c:296-326), although scans
\* are given up and fail in between.
ClientSeesDevices ==
  (<>[](Connected /\ up) /\ []<>(cpc = "idle")) => []<>(safe_devices_info = Fresh)

\* Such a client learns of the server's end (jack.c:308, 844-853), whether it
\* was idle, waiting or scanning when it came.
DisconnectIsReported ==
  []<>(cpc = "idle") => ((Connected /\ is_shutdown) ~> (disconnects > 0 \/ ~Connected))
-----------------------------------------------------------------------------
(* What the client sees of all this.                                       *)

Place == IF cpc \in {"off", "idle"} THEN cpc ELSE "call"
Shown == {safe_devices_info[1], safe_devices_info[2]} \ {None}

Events == INSTANCE DeviceEvents WITH place <- Place, shown <- Shown

\* The client's list changes only in its own calls, never goes back to an older
\* one, and not after the server's end, which is reported at most once
\* (jack.c:296-326, soundio.h:331-350), although ports change while a scan goes
\* through them and the end may come at any time.
ShowsInOrder == Events!EventsSpec
=============================================================================
