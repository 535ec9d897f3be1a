---------------------------- MODULE DeviceEvents ----------------------------
(***************************************************************************)
(* What the client of a connection may rely on about its devices           *)
(* (soundio/soundio.h:331-350, 737-742, 765-769): the list it has is       *)
(* replaced, and the end of the backend reported, only while it connects,  *)
(* flushes or waits for events; a list never goes back in time; the end is *)
(* reported at most once, and no list comes after the report.              *)
(*                                                                         *)
(* The devices of the backend are numbered versions.  A list is put        *)
(* together from several queries, so that it may mix versions; it is known *)
(* here by the set of those it was made from.                              *)
(***************************************************************************)
EXTENDS Integers

VARIABLES place,        \* not connected ("off"), in a call ("call") or between calls ("idle")
          devices,      \* the version of the backend's devices
          shown,        \* the versions in the list the client has
          disconnects   \* calls of on_backend_disconnect for this connection

eventVars == <<place, devices, shown, disconnects>>

EventsInit ==
  /\ place = "off" /\ devices = 0
  /\ shown = {} /\ disconnects = 0

Change ==
  /\ devices' = devices + 1
  /\ UNCHANGED <<place, shown, disconnects>>

\* soundio_connect, soundio_flush_events or soundio_wait_events begins.
Begin ==
  /\ place' = "call"
  /\ UNCHANGED <<devices, shown, disconnects>>

\* A call goes on, or returns.
InCall == place = "call" /\ place' \in {"call", "idle"}

Return ==
  /\ InCall
  /\ UNCHANGED <<devices, shown, disconnects>>

\* A list no part of which is older than any part of the one before.
Show(versions) ==
  /\ InCall
  /\ disconnects = 0
  /\ \A old \in shown, new \in versions : old <= new
  /\ shown' = versions
  /\ UNCHANGED <<devices, disconnects>>

Report ==
  /\ InCall
  /\ disconnects = 0
  /\ disconnects' = 1
  /\ UNCHANGED <<devices, shown>>

\* soundio_disconnect, or a connection that fails.
Disconnect ==
  /\ place # "off"
  /\ place' = "off"
  /\ shown' = {} /\ disconnects' = 0
  /\ UNCHANGED devices

EventsNext ==
  \/ Change \/ Begin \/ Return \/ Report \/ Disconnect
  \/ \E versions \in SUBSET (0..devices) : Show(versions)

EventsSpec == EventsInit /\ [][EventsNext]_eventVars
=============================================================================
