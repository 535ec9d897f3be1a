---------------------------- MODULE SoundIoCore ----------------------------
(***************************************************************************)
(* src/soundio.c: a context, its connection to a backend, and the devices  *)
(* and streams that hang on it.                                            *)
(*                                                                         *)
(* The client calls from one thread.  A connection is a table of functions *)
(* in the context; a backend is present by what its init and its scans do  *)
(* to the context, and by the resources it holds.  Devices are counted     *)
(* references; they are made by scans and may outlive the connection and   *)
(* even the context.                                                       *)
(***************************************************************************)
EXTENDS StreamParams, FiniteSets

CONSTANTS Devices,       \* bound: devices in memory at a time
          Streams,       \* bound: streams in memory at a time
          MaxRefs,       \* bound: references the client keeps to one device
          Capabilities,  \* what devices may be like
          available_backends  \* in the order in which they are tried

\* What a backend's probe fills in of a device, if it succeeds.
Capability ==
  [aim : {"out", "in"}, probe_error : BOOLEAN,
   formats : Seq(STRING), layouts : Seq(Nat), sample_rates : Seq(Ranges)]

ASSUME CapabilitiesAssumption ==
  /\ Capabilities \subseteq Capability
  /\ \A c \in Capabilities :
       ~c.probe_error => c.formats # <<>> /\ c.layouts # <<>> /\ c.sample_rates # <<>>

None == "none"
Backends == ToSet(available_backends)

\* Memory is finite, and SoundIoBackendNone is not among the backends to try.
ASSUME BoundsAssumption ==
  /\ IsFiniteSet(Streams)
  /\ MaxRefs \in Nat
  /\ available_backends \in Seq(Backends)
  /\ None \notin Backends

VARIABLES context,            \* "none", "live" or "freed"
          current_backend,
          table,              \* whose functions the context has, or None
          backend_data,       \* whose resources it has, or None
          safe_devices_info,  \* <<the devices listed>>, or <<>> for NULL
          device,             \* what is in memory: capabilities and backend
          ref_count,
          held,               \* the references the client has to give back
          stream,
          step,               \* where the client's thread is in soundio_connect
          leaked,             \* whether resources of a backend can be released no more
          orphaned,           \* whether a stream was freed without its backend's part
          pipe_failed, early  \* history: pipe2 failed; disconnected with a stream open

connection == <<current_backend, table, backend_data>>
devices == <<safe_devices_info, device, ref_count>>
history == <<leaked, orphaned, pipe_failed, early>>
vars == <<context, connection, devices, held, stream, step, history>>

Idle == [pc |-> "idle"]
Null == <<>>                         \* safe_devices_info == NULL
NoDevice == [backend |-> None]
NoStream == [state |-> "none"]
Unused == {d \in Devices : device[d] = NoDevice}
Listed == UNION ToSet(safe_devices_info)

Init ==
  /\ context = "none"
  /\ current_backend = None /\ table = None /\ backend_data = None
  /\ safe_devices_info = Null
  /\ device = [d \in Devices |-> NoDevice]
  /\ ref_count = [d \in Devices |-> 0]
  /\ held = [d \in Devices |-> 0]
  /\ stream = [s \in Streams |-> NoStream]
  /\ step = Idle
  /\ leaked = FALSE /\ orphaned = FALSE /\ pipe_failed = FALSE /\ early = FALSE

\* soundio_create.
Create ==
  /\ context = "none"
  /\ context' = "live"
  /\ UNCHANGED <<connection, devices, held, stream, step, history>>

-----------------------------------------------------------------------------
(* Reference counts.                                                       *)

\* soundio_device_unref of every device in gone: the last reference frees it.
Unref(gone) ==
  /\ ref_count' = [d \in Devices |-> IF d \in gone THEN ref_count[d] - 1 ELSE ref_count[d]]
  /\ device' = [d \in Devices |-> IF d \in gone /\ ref_count[d] = 1 THEN NoDevice ELSE device[d]]

\* A scan of backend b made the devices of new, each with the reference of its
\* list; the list of before, if there is one, is destroyed.
Replace(b, new, capabilities) ==
  /\ new \subseteq Unused
  /\ safe_devices_info' = <<new>>
  /\ ref_count' = [d \in Devices |-> IF d \in new THEN 1
                                     ELSE IF d \in Listed THEN ref_count[d] - 1 ELSE ref_count[d]]
  /\ device' = [d \in Devices |-> IF d \in new THEN [backend |-> b, capabilities |-> capabilities]
                                  ELSE IF d \in Listed /\ ref_count[d] = 1 THEN NoDevice
                                  ELSE device[d]]

-----------------------------------------------------------------------------
(* Connecting and disconnecting.                                           *)

\* soundio_connect, or soundio_connect_backend of the i-th; both refuse a
\* context that is connected.
Connect(all, i) ==
  /\ context = "live" /\ step = Idle /\ current_backend = None
  /\ all => i = 1
  /\ step' = [pc |-> "init", i |-> i, all |-> all]
  /\ UNCHANGED <<context, connection, devices, held, stream, history>>

\* The backend's init succeeds; those of JACK and of the dummy have listed their
\* devices by then, the others do so at a flush.
InitSucceeds ==
  /\ step.pc = "init"
  /\ LET b == available_backends[step.i]
     IN  /\ current_backend' = b /\ table' = b /\ backend_data' = b
         /\ IF b \in {"jack", "dummy"}
            THEN \E new \in SUBSET Unused, c \in Capabilities : Replace(b, new, c)
            ELSE UNCHANGED devices
  /\ step' = Idle
  /\ UNCHANGED <<context, held, stream, history>>

\* It fails, having destroyed what it had made; the dummy leaves its list behind,
\* with the devices it got to.  If pipe2 fails, ALSA's init destroys nothing.
InitFails(err) ==
  /\ step.pc = "init"
  /\ LET b == available_backends[step.i]
     IN  /\ err = "inactive" => b # "dummy"
         /\ err = "pipe2" => b = "alsa"
         /\ backend_data' = IF err = "pipe2" THEN "alsa" ELSE None
         /\ IF b = "dummy"
            THEN \/ UNCHANGED devices
                 \/ \E new \in SUBSET Unused, c \in Capabilities : Replace(b, new, c)
            ELSE UNCHANGED devices
  /\ pipe_failed' = (pipe_failed \/ err = "pipe2")
  /\ step' = [pc |-> "failed", i |-> step.i, all |-> step.all, err |-> err]
  /\ UNCHANGED <<context, current_backend, table, held, stream, leaked, orphaned, early>>

\* Without a destroy function the backend's data are forgotten as they are.
soundio_disconnect ==
  /\ current_backend' = None /\ table' = None /\ backend_data' = None
  /\ leaked' = (leaked \/ (table = None /\ backend_data # None))
  /\ safe_devices_info' = Null
  /\ Unref(Listed)

\* soundio_connect_backend cleans up; soundio_connect goes on to the next backend
\* only if this one was not active.
ConnectFails ==
  /\ step.pc = "failed"
  /\ soundio_disconnect
  /\ step' = IF step.all /\ step.err = "inactive" /\ step.i < Len(available_backends)
             THEN [pc |-> "init", i |-> step.i + 1, all |-> TRUE]
             ELSE Idle
  /\ UNCHANGED <<context, held, stream, orphaned, pipe_failed, early>>

Disconnect ==
  /\ context = "live" /\ step = Idle
  /\ soundio_disconnect
  /\ early' = (early \/ \E s \in Streams : stream[s].state = "open")
  /\ UNCHANGED <<context, held, stream, step, orphaned, pipe_failed>>

\* soundio_destroy.  A stream reaches its context when it is destroyed, so none
\* may be left; devices may.
Destroy ==
  /\ context = "live" /\ step = Idle
  /\ \A s \in Streams : stream[s] = NoStream
  /\ soundio_disconnect
  /\ context' = "freed"
  /\ UNCHANGED <<held, stream, step, orphaned, pipe_failed, early>>

-----------------------------------------------------------------------------
(* Devices.                                                                *)

\* soundio_flush_events, when the backend has another list of devices.
FlushEvents ==
  /\ step = Idle /\ table \in Backends \ {"dummy"}
  /\ \E new \in SUBSET Unused, c \in Capabilities : Replace(table, new, c)
  /\ UNCHANGED <<context, connection, held, stream, step, history>>

\* Mutant: hands out the list's own reference.
GetDevice_lends(d) ==
  /\ step = Idle /\ d \in Listed /\ held[d] < MaxRefs
  /\ held' = [held EXCEPT ![d] = @ + 1]
  /\ UNCHANGED <<context, connection, devices, stream, step, history>>

\* soundio_get_input_device, soundio_get_output_device.
GetDevice(d) ==
  /\ step = Idle /\ d \in Listed /\ held[d] < MaxRefs
  /\ held' = [held EXCEPT ![d] = @ + 1]
  /\ ref_count' = [ref_count EXCEPT ![d] = @ + 1]
  /\ UNCHANGED <<context, connection, safe_devices_info, device, stream, step, history>>

DeviceRef(d) ==
  /\ step = Idle /\ held[d] \in 1..MaxRefs - 1
  /\ held' = [held EXCEPT ![d] = @ + 1]
  /\ ref_count' = [ref_count EXCEPT ![d] = @ + 1]
  /\ UNCHANGED <<context, connection, safe_devices_info, device, stream, step, history>>

DeviceUnref(d) ==
  /\ step = Idle /\ held[d] > 0
  /\ held' = [held EXCEPT ![d] = @ - 1]
  /\ Unref({d})
  /\ UNCHANGED <<context, connection, safe_devices_info, stream, step, history>>

\* soundio_device_sort_channel_layouts on a device of the client's.
SortChannelLayouts(d) ==
  /\ step = Idle /\ held[d] > 0
  /\ ~device[d].capabilities.probe_error
  /\ \E layouts \in SetToSeqs(ToSet(device[d].capabilities.layouts)) :
       /\ Sorts(device[d].capabilities.layouts, layouts)
       /\ device' = [device EXCEPT ![d].capabilities.layouts = layouts]
  /\ UNCHANGED <<context, connection, safe_devices_info, ref_count, held, stream, step, history>>

-----------------------------------------------------------------------------
(* Streams.                                                                *)

\* soundio_outstream_create, soundio_instream_create.
StreamCreate(s, d, aim) ==
  /\ step = Idle /\ context = "live"
  /\ stream[s] = NoStream /\ held[d] > 0
  /\ stream' = [stream EXCEPT ![s] = [state |-> "created", aim |-> aim, device |-> d]]
  /\ ref_count' = [ref_count EXCEPT ![d] = @ + 1]
  /\ UNCHANGED <<context, connection, safe_devices_info, device, held, step, history>>

\* What soundio_outstream_open and soundio_instream_open refuse; only the latter
\* refuses a format that was left to the default.
Refused(aim, c, format, layout) ==
  \/ c.aim # aim
  \/ c.probe_error
  \/ layout > MaxChannels
  \/ aim = "in" /\ format = None

\* Mutant: the default layout is stereo, whatever the device has.
Defaults_stereo(c, format, layout, rate) ==
  [format |-> IF format = None THEN default_of(c.formats, "float32") ELSE None,
   layout |-> IF layout = 0 THEN 2 ELSE 0,
   rate |-> IF rate = 0 THEN soundio_device_nearest_sample_rate(c.sample_rates, 3) ELSE 0]

\* What is filled in for parameters the client left open: Float32NE, stereo and
\* 48000 Hz if possible; None and 0 stand for those it gave.
Defaults(c, format, layout, rate) ==
  [format |-> IF format = None THEN default_of(c.formats, "float32") ELSE None,
   layout |-> IF layout = 0 THEN default_of(c.layouts, 2) ELSE 0,
   rate |-> IF rate = 0 THEN soundio_device_nearest_sample_rate(c.sample_rates, 3) ELSE 0]

\* soundio_outstream_open, soundio_instream_open, on a device of the present
\* connection; the backend may fail.  After a failure the stream can only be
\* destroyed.
StreamOpen(s, format, layout, rate) ==
  /\ step = Idle /\ stream[s].state = "created"
  /\ LET c == device[stream[s].device].capabilities
     IN  /\ table # None /\ device[stream[s].device].backend = table
         /\ \/ stream' = [stream EXCEPT ![s] = [state |-> "failed", aim |-> @.aim, device |-> @.device]]
            \/ /\ ~Refused(stream[s].aim, c, format, layout)
               /\ stream' = [stream EXCEPT ![s] = [state |-> "open", aim |-> @.aim, device |-> @.device,
                                backend |-> table, defaults |-> Defaults(c, format, layout, rate)]]
  /\ UNCHANGED <<context, connection, devices, held, step, history>>

\* Mutant: forgets the backend's part.
StreamDestroy_forgets(s) ==
  /\ step = Idle /\ stream[s] # NoStream
  /\ Unref({stream[s].device})
  /\ stream' = [stream EXCEPT ![s] = NoStream]
  /\ orphaned' = (orphaned \/ stream[s].state = "open")
  /\ UNCHANGED <<context, connection, safe_devices_info, held, step, leaked, pipe_failed, early>>

\* soundio_outstream_destroy, soundio_instream_destroy: the backend's part goes
\* if the context has a function for it, which may be another backend's by now.
StreamDestroy(s) ==
  /\ step = Idle /\ stream[s] # NoStream
  /\ Unref({stream[s].device})
  /\ stream' = [stream EXCEPT ![s] = NoStream]
  /\ orphaned' = (orphaned \/ (stream[s].state = "open" /\ stream[s].backend # table))
  /\ UNCHANGED <<context, connection, safe_devices_info, held, step, leaked, pipe_failed, early>>

-----------------------------------------------------------------------------
Next ==
  \/ Create \/ Disconnect \/ Destroy \/ FlushEvents
  \/ \E all \in BOOLEAN, i \in DOMAIN available_backends : Connect(all, i)
  \/ InitSucceeds \/ ConnectFails
  \/ \E err \in {"inactive", "nomem", "pipe2"} : InitFails(err)
  \/ \E d \in Devices :
       \/ GetDevice(d) \/ DeviceRef(d) \/ DeviceUnref(d) \/ SortChannelLayouts(d)
       \/ \E s \in Streams, aim \in {"out", "in"} : StreamCreate(s, d, aim)
  \/ \E s \in Streams :
       \/ StreamDestroy(s)
       \/ \E format \in {None, "float32", "s16"}, layout \in {0, 2, MaxChannels + 1}, rate \in {0, 3} :
            StreamOpen(s, format, layout, rate)

Spec == Init /\ [][Next]_vars

-----------------------------------------------------------------------------
TypeOK ==
  /\ context \in {"none", "live", "freed"}
  /\ {current_backend, table, backend_data} \subseteq Backends \union {None}
  /\ safe_devices_info = Null \/ safe_devices_info \in {<<S>> : S \in SUBSET Devices}
  /\ \A d \in Devices : device[d] = NoDevice \/ device[d].backend \in Backends
  /\ ref_count \in [Devices -> Nat] /\ held \in [Devices -> 0..MaxRefs]
  /\ \A s \in Streams : stream[s].state \in {"none", "created", "open", "failed"}
  /\ step.pc \in {"idle", "init", "failed"}
  /\ {leaked, orphaned, pipe_failed, early} \subseteq BOOLEAN

Holders(d) ==
  held[d] + (IF d \in Listed THEN 1 ELSE 0)
          + Cardinality({s \in Streams : stream[s] # NoStream /\ stream[s].device = d})

\* A device's count is the number of its holders - the list, the streams, the
\* client - and it is in memory exactly as long as there is one, across flushes,
\* failed connects, disconnects and the end of the context (soundio.c:390-425, 683).
RefCountsAreHolders ==
  /\ TypeOK
  /\ \A d \in Devices : ref_count[d] = Holders(d) /\ (device[d] # NoDevice <=> Holders(d) > 0)

\* Every resource of a backend is released, but for what ALSA's init leaves when
\* pipe2 fails (alsa.c:1916) and for streams that outlive their connection
\* (soundio.c:529).
ResourcesAreReleased ==
  /\ leaked => pipe_failed
  /\ orphaned => early

\* What open chose for a client that asked for nothing is what the device
\* supports (soundio.h:501-510), even after its layouts were sorted.
DefaultsAreSupported ==
  \A s \in Streams : stream[s].state = "open" =>
    LET c == device[stream[s].device].capabilities
        chosen == stream[s].defaults
    IN  /\ chosen.format # None => supports(c.formats, chosen.format)
        /\ chosen.layout # 0 => supports(c.layouts, chosen.layout)
        /\ chosen.rate # 0 => supports_sample_rate(c.sample_rates, chosen.rate)

\* soundio.h:917: the nearest available rate, rounding up, for up to three
\* ranges in any order, overlapping or not.  It does not depend on the state, so
\* it is looked at where there is no context yet.
NearestRateRoundsUp ==
  context = "none" =>
    \A n \in 1..3 : \A sample_rates \in [1..n -> Ranges] : \A rate \in 0..MaxRate + 1 :
      soundio_device_nearest_sample_rate(sample_rates, rate) = NearestRate(sample_rates, rate)

\* soundio.h:823: sorts by channel count, descending.  It does not hold, see
\* Sorts, and no run checks it.
SortsByChannelCount ==
  [][\A d \in Devices : SortChannelLayouts(d) =>
       LET layouts == device'[d].capabilities.layouts
       IN  \A i, j \in DOMAIN layouts : i < j => layouts[i] >= layouts[j]]_vars
=============================================================================
