------------------------- MODULE SoundIoCoreProofs -------------------------
(***************************************************************************)
(* The counts of devices are right and the resources of backends released, *)
(* whatever the backends, the devices and the order of the client's calls. *)
(***************************************************************************)
EXTENDS SoundIoCore, FiniteSetTheorems, SequenceTheorems, TLAPS

-----------------------------------------------------------------------------
(* soundio_connect.                                                        *)

\* What soundio_connect tries is a backend.
Tries ==
  /\ step.pc \in {"idle", "init", "failed"}
  /\ step.pc # "idle" => step.i \in 1..Len(available_backends)

\* A backend in the list of those to try.
LEMMA TriedIsBackend ==
  ASSUME NEW i \in 1..Len(available_backends)
  PROVE  available_backends[i] \in Backends
BY BoundsAssumption, LenProperties DEF Backends

\* The loop of soundio_connect ends with the last backend.
LEMMA TriesStep == Tries /\ [Next]_vars => Tries'
<1> SUFFICES ASSUME Tries, [Next]_vars PROVE Tries'
  OBVIOUS
<1>n. Len(available_backends) \in Nat /\ DOMAIN available_backends = 1..Len(available_backends)
  BY BoundsAssumption, LenProperties
<1> USE DEF Tries
<1>1. CASE UNCHANGED step
  BY <1>1
<1>2. CASE step' = Idle
  BY <1>2 DEF Idle
<1>3. ASSUME NEW all \in BOOLEAN, NEW i \in DOMAIN available_backends, Connect(all, i) PROVE Tries'
  BY <1>3, <1>n DEF Connect
<1>4. CASE ConnectFails
  BY <1>4, <1>n, <1>2 DEF ConnectFails
<1>5. ASSUME NEW err \in {"inactive", "nomem", "pipe2"}, InitFails(err) PROVE Tries'
  BY <1>5 DEF InitFails
<1> QED
  BY <1>1, <1>2, <1>3, <1>4, <1>5, Zenon
     DEF Next, vars, Create, Disconnect, Destroy, FlushEvents, InitSucceeds, GetDevice, DeviceRef,
         DeviceUnref, SortChannelLayouts, StreamCreate, StreamDestroy, StreamOpen

-----------------------------------------------------------------------------
(* Resources of backends.                                                  *)

\* A context without a backend has none of its functions, and while it tries one
\* it has no backend yet; data that nothing would destroy are those of ALSA's
\* init.  A stream that is open belongs to the present connection unless the
\* client disconnected under it.
Belongs ==
  /\ leaked => pipe_failed
  /\ orphaned => early
  /\ (table = None /\ backend_data # None) => pipe_failed
  /\ current_backend = None => table = None
  /\ step.pc \in {"init", "failed"} => current_backend = None
  /\ \A s \in Streams : stream[s].state = "open" =>
       stream[s].backend # None /\ (stream[s].backend # table => early)
  /\ stream = [s \in Streams |-> stream[s]]

\* Every call keeps track of whose functions and whose data the context has.
LEMMA BelongsStep == Tries /\ Belongs /\ [Next]_vars => Belongs'
<1> SUFFICES ASSUME Tries, Belongs, [Next]_vars PROVE Belongs'
  OBVIOUS
<1> USE DEF Belongs, connection, devices, history
<1>1. CASE Create
  BY <1>1 DEF Create
<1>2. CASE Disconnect
  <2>1. /\ current_backend' = None /\ table' = None /\ backend_data' = None
        /\ leaked' = (leaked \/ (table = None /\ backend_data # None))
        /\ early' = (early \/ \E s \in Streams : stream[s].state = "open")
        /\ UNCHANGED <<stream, step, orphaned, pipe_failed>>
    BY <1>2, Zenon DEF Disconnect, soundio_disconnect
  <2> QED
    BY <2>1, Zenon
<1>3. CASE Destroy
  <2>1. /\ current_backend' = None /\ table' = None /\ backend_data' = None
        /\ leaked' = (leaked \/ (table = None /\ backend_data # None))
        /\ \A s \in Streams : stream[s].state = "none"
        /\ UNCHANGED <<stream, step, orphaned, pipe_failed, early>>
    BY <1>3 DEF Destroy, soundio_disconnect, NoStream
  <2> QED
    BY <2>1, Zenon
<1>4. CASE FlushEvents
  BY <1>4, Zenon DEF FlushEvents
<1>5. ASSUME NEW all \in BOOLEAN, NEW i \in DOMAIN available_backends, Connect(all, i)
      PROVE  Belongs'
  BY <1>5 DEF Connect
<1>6. CASE InitSucceeds
  <2>1. /\ current_backend' \in Backends /\ table' = current_backend'
        /\ step'.pc = "idle" /\ table = None
        /\ UNCHANGED <<stream, leaked, orphaned, pipe_failed, early>>
    <3>1. available_backends[step.i] \in Backends
      BY <1>6, TriedIsBackend DEF InitSucceeds, Tries
    <3> QED
      BY <1>6, <3>1 DEF InitSucceeds, Idle
  <2> QED
    BY <2>1, BoundsAssumption, Zenon
<1>7. CASE ConnectFails
  <2>1. /\ current_backend' = None /\ table' = None /\ backend_data' = None /\ table = None
        /\ leaked' = (leaked \/ (table = None /\ backend_data # None))
        /\ UNCHANGED <<stream, orphaned, pipe_failed, early>>
    BY <1>7, Zenon DEF ConnectFails, soundio_disconnect
  <2> QED
    BY <2>1, Zenon
<1>8. ASSUME NEW err \in {"inactive", "nomem", "pipe2"}, InitFails(err) PROVE Belongs'
  <2>1. /\ current_backend = None
        /\ backend_data' = IF err = "pipe2" THEN "alsa" ELSE None
        /\ pipe_failed' = (pipe_failed \/ err = "pipe2")
        /\ UNCHANGED <<current_backend, table, stream, leaked, orphaned, early>>
    BY <1>8, Zenon DEF InitFails
  <2> QED
    BY <2>1, Zenon
<1>9. ASSUME NEW d \in Devices,
             GetDevice(d) \/ DeviceRef(d) \/ DeviceUnref(d) \/ SortChannelLayouts(d)
      PROVE  Belongs'
  <2>1. UNCHANGED <<connection, stream, step, history>>
    BY <1>9, Zenon DEF GetDevice, DeviceRef, DeviceUnref, SortChannelLayouts
  <2> QED
    BY <2>1
<1>10. ASSUME NEW d \in Devices, NEW s \in Streams, NEW aim \in {"out", "in"},
              StreamCreate(s, d, aim)
       PROVE  Belongs'
  BY <1>10 DEF StreamCreate
<1>11. ASSUME NEW s \in Streams, StreamDestroy(s) PROVE Belongs'
  BY <1>11 DEF StreamDestroy, NoStream
<1>12. ASSUME NEW s \in Streams, NEW format, NEW layout, NEW rate,
              StreamOpen(s, format, layout, rate)
       PROVE  Belongs'
  BY <1>12 DEF StreamOpen
<1>13. CASE UNCHANGED vars
  BY <1>13 DEF vars
<1> QED
  BY <1>1, <1>2, <1>3, <1>4, <1>5, <1>6, <1>7, <1>8, <1>9, <1>10, <1>11, <1>12, <1>13, Zenon
     DEF Next

\* Every resource of a backend is released (soundio.c:194-229, 529), but for what ALSA's
\* init leaves when pipe2 fails and for streams that outlive their connection.
THEOREM NothingIsLost == Spec => []ResourcesAreReleased
<1>1. Init => Tries /\ Belongs
  BY DEF Init, Tries, Belongs, NoStream, Idle
<1>2. Belongs => ResourcesAreReleased
  BY Zenon DEF Belongs, ResourcesAreReleased
<1> QED
  BY <1>1, <1>2, TriesStep, BelongsStep, PTL DEF Spec
-----------------------------------------------------------------------------
(* Counts of references.                                                   *)

IsDevice(v) ==
  /\ v.backend \in Backends
  /\ v = [backend |-> v.backend, capabilities |-> v.capabilities]

IsStream(v) == v.state \in {"created", "open", "failed"} /\ v.device \in Devices

\* The streams that hold a reference to a device.
Using(d) == {s \in Streams : stream[s] # NoStream /\ stream[s].device = d}

\* What is in memory is a device or a stream, and what is counted is held.
Counted ==
  /\ safe_devices_info = Null \/ \E S \in SUBSET Devices : safe_devices_info = <<S>>
  /\ device = [d \in Devices |-> device[d]]
  /\ \A d \in Devices : device[d] = NoDevice \/ IsDevice(device[d])
  /\ stream = [s \in Streams |-> stream[s]]
  /\ \A s \in Streams : stream[s] = NoStream \/ IsStream(stream[s])
  /\ held \in [Devices -> 0..MaxRefs]
  /\ ref_count \in [Devices -> Nat]
  /\ \A d \in Devices : ref_count[d] = Holders(d) /\ (device[d] # NoDevice <=> Holders(d) > 0)

\* A device in memory is told apart by its backend, and a stream by its state.
LEMMA InMemory ==
  /\ \A v : IsDevice(v) => v # NoDevice
  /\ \A v : IsStream(v) => v # NoStream
BY BoundsAssumption DEF IsDevice, NoDevice, IsStream, NoStream

\* The list has the devices that it was made of.
LEMMA ListedIs ==
  /\ safe_devices_info = Null => Listed = {}
  /\ \A S : safe_devices_info = <<S>> => Listed = S
BY DEF Listed, Null, ToSet

LEMMA ListedWillBe ==
  /\ safe_devices_info' = Null => Listed' = {}
  /\ \A S : safe_devices_info' = <<S>> => Listed' = S
BY DEF Listed, Null, ToSet

\* The holders are the client, the list and the streams.
LEMMA HoldersAre ==
  ASSUME Counted, NEW d \in Devices
  PROVE  /\ held[d] \in 0..MaxRefs /\ held[d] \in Nat
         /\ IsFiniteSet(Using(d)) /\ Cardinality(Using(d)) \in Nat
         /\ Holders(d) = held[d] + (IF d \in Listed THEN 1 ELSE 0) + Cardinality(Using(d))
         /\ Listed \subseteq Devices
<1>1. held[d] \in 0..MaxRefs /\ held[d] \in Nat
  BY BoundsAssumption DEF Counted
<1>2. IsFiniteSet(Using(d))
  <2>1. Using(d) \subseteq Streams
    BY DEF Using
  <2> QED
    BY <2>1, BoundsAssumption, FS_Subset
<1>3. Cardinality(Using(d)) \in Nat
  BY <1>2, FS_CardinalityType
<1>4. Listed \subseteq Devices
  BY ListedIs DEF Counted
<1>5. Holders(d) = held[d] + (IF d \in Listed THEN 1 ELSE 0) + Cardinality(Using(d))
  BY DEF Holders, Using
<1> QED
  BY <1>1, <1>2, <1>3, <1>4, <1>5
\* A new list replaces the old one: its devices were not in memory before, and
\* those of the old list go if no one else holds them.
LEMMA ReplaceCounts ==
  ASSUME Counted, NEW b \in Backends, NEW new, NEW c, Replace(b, new, c), UNCHANGED <<held, stream>>
  PROVE  Counted'
<1>1. safe_devices_info' = <<new>> /\ new \subseteq Devices /\ Listed' = new
  BY ListedWillBe DEF Replace, Unused
<1>2. ASSUME NEW d \in Devices
      PROVE  /\ ref_count'[d] \in Nat /\ ref_count'[d] = Holders(d)'
             /\ device'[d] # NoDevice <=> Holders(d)' > 0
             /\ device'[d] = NoDevice \/ IsDevice(device'[d])
  <2> DEFINE h == held[d]
             n == Cardinality(Using(d))
  <2>1. h \in Nat /\ n \in Nat /\ Holders(d) = h + (IF d \in Listed THEN 1 ELSE 0) + n
    BY HoldersAre
  <2>2. Holders(d)' = h + (IF d \in new THEN 1 ELSE 0) + n
    BY <1>1 DEF Holders, Using
  <2>3. ref_count[d] = Holders(d) /\ (device[d] # NoDevice <=> Holders(d) > 0)
    BY DEF Counted
  <2>4. d \in new => device[d] = NoDevice
    BY DEF Replace, Unused
  <2>5. ref_count'[d] = IF d \in new THEN 1
                        ELSE IF d \in Listed THEN ref_count[d] - 1 ELSE ref_count[d]
    BY DEF Replace
  <2>6. device'[d] = IF d \in new THEN [backend |-> b, capabilities |-> c]
                     ELSE IF d \in Listed /\ ref_count[d] = 1 THEN NoDevice ELSE device[d]
    BY DEF Replace
  <2>7. IsDevice([backend |-> b, capabilities |-> c])
    BY DEF IsDevice
  <2>8. device'[d] = NoDevice \/ IsDevice(device'[d])
    BY <2>6, <2>7, Zenon DEF Counted
  <2> HIDE DEF h, n
  <2>9. ref_count'[d] \in Nat /\ ref_count'[d] = Holders(d)'
    BY <2>1, <2>2, <2>3, <2>4, <2>5
  <2>10. CASE d \in new
    <3>1. Holders(d)' > 0
      BY <2>1, <2>2, <2>10
    <3>2. device'[d] # NoDevice
      BY <2>6, <2>7, <2>10, InMemory
    <3> QED
      BY <2>8, <2>9, <3>1, <3>2
  <2>11. CASE d \notin new /\ d \in Listed
    <3>1. device[d] # NoDevice
      BY <2>1, <2>3, <2>11
    <3>2. Holders(d)' > 0 <=> ref_count[d] # 1
      BY <2>1, <2>2, <2>3, <2>11
    <3> QED
      BY <2>6, <2>8, <2>9, <2>11, <3>1, <3>2
  <2>12. CASE d \notin new /\ d \notin Listed
    <3>1. Holders(d)' = Holders(d)
      BY <2>1, <2>2, <2>12
    <3> QED
      BY <2>3, <2>6, <2>8, <2>9, <2>12, <3>1
  <2> QED
    BY <2>10, <2>11, <2>12
<1>3. ref_count' = [d \in Devices |-> ref_count'[d]] /\ device' = [d \in Devices |-> device'[d]]
  BY DEF Replace
<1>4. ref_count' \in [Devices -> Nat]
  BY <1>2, <1>3
<1> QED
  BY <1>1, <1>2, <1>3, <1>4 DEF Counted, IsDevice, IsStream

\* soundio_disconnect gives the references of the list back.
LEMMA DisconnectCounts ==
  ASSUME Counted, soundio_disconnect, UNCHANGED <<held, stream>>
  PROVE  Counted'
<1>1. safe_devices_info' = Null /\ Listed' = {}
  BY ListedWillBe DEF soundio_disconnect
<1>2. ASSUME NEW d \in Devices
      PROVE  /\ ref_count'[d] \in Nat /\ ref_count'[d] = Holders(d)'
             /\ device'[d] # NoDevice <=> Holders(d)' > 0
             /\ device'[d] = NoDevice \/ IsDevice(device'[d])
  <2> DEFINE h == held[d]
             n == Cardinality(Using(d))
  <2>1. h \in Nat /\ n \in Nat /\ Holders(d) = h + (IF d \in Listed THEN 1 ELSE 0) + n
    BY HoldersAre
  <2>2. Holders(d)' = h + 0 + n
    BY <1>1 DEF Holders, Using
  <2>3. ref_count[d] = Holders(d) /\ (device[d] # NoDevice <=> Holders(d) > 0)
    BY DEF Counted
  <2>4. ref_count'[d] = IF d \in Listed THEN ref_count[d] - 1 ELSE ref_count[d]
    BY DEF soundio_disconnect, Unref
  <2>5. device'[d] = IF d \in Listed /\ ref_count[d] = 1 THEN NoDevice ELSE device[d]
    BY DEF soundio_disconnect, Unref
  <2>6. device'[d] = NoDevice \/ IsDevice(device'[d])
    BY <2>5, Zenon DEF Counted
  <2> HIDE DEF h, n
  <2>7. ref_count'[d] \in Nat /\ ref_count'[d] = Holders(d)'
    BY <2>1, <2>2, <2>3, <2>4
  <2>8. device'[d] # NoDevice <=> Holders(d)' > 0
    BY <2>1, <2>2, <2>3, <2>5
  <2> QED
    BY <2>6, <2>7, <2>8
<1>3. ref_count' = [d \in Devices |-> ref_count'[d]] /\ device' = [d \in Devices |-> device'[d]]
  BY DEF soundio_disconnect, Unref
<1>4. ref_count' \in [Devices -> Nat]
  BY <1>2, <1>3
<1> QED
  BY <1>1, <1>2, <1>3, <1>4 DEF Counted, IsDevice, IsStream

\* The client takes a reference to a device in memory.
LEMMA RefCounts ==
  ASSUME Counted, NEW d \in Devices, Holders(d) > 0, held[d] < MaxRefs,
         held' = [held EXCEPT ![d] = @ + 1], ref_count' = [ref_count EXCEPT ![d] = @ + 1],
         UNCHANGED <<safe_devices_info, device, stream>>
  PROVE  Counted'
<1>1. Listed' = Listed
  BY DEF Listed, ToSet
<1>2. held' \in [Devices -> 0..MaxRefs]
  BY HoldersAre, BoundsAssumption DEF Counted
<1>3. ASSUME NEW e \in Devices
      PROVE  /\ ref_count'[e] \in Nat /\ ref_count'[e] = Holders(e)'
             /\ device'[e] # NoDevice <=> Holders(e)' > 0
  <2> DEFINE n == Cardinality(Using(e))
  <2>1. held[e] \in Nat /\ n \in Nat /\ Holders(e) = held[e] + (IF e \in Listed THEN 1 ELSE 0) + n
    BY HoldersAre
  <2>2. Holders(e)' = held'[e] + (IF e \in Listed THEN 1 ELSE 0) + n
    BY <1>1 DEF Holders, Using
  <2>3. ref_count[e] = Holders(e) /\ (device[e] # NoDevice <=> Holders(e) > 0)
    BY DEF Counted
  <2>4. /\ held'[e] = IF e = d THEN held[e] + 1 ELSE held[e]
        /\ ref_count'[e] = IF e = d THEN ref_count[e] + 1 ELSE ref_count[e]
    BY DEF Counted
  <2> HIDE DEF n
  <2>5. ref_count'[e] \in Nat /\ ref_count'[e] = Holders(e)'
    BY <2>1, <2>2, <2>3, <2>4
  <2>6. Holders(e)' > 0 <=> Holders(e) > 0
    BY <2>1, <2>2, <2>4
  <2> QED
    BY <2>3, <2>5, <2>6
<1>4. ref_count' \in [Devices -> Nat]
  BY <1>3 DEF Counted
<1> QED
  BY <1>2, <1>3, <1>4 DEF Counted, IsDevice, IsStream
\* What one reference given back does to a count and to the device.
LEMMA UnrefCounts ==
  ASSUME Counted, NEW d \in Devices, Unref({d}), UNCHANGED safe_devices_info,
         held' \in [Devices -> 0..MaxRefs],
         stream' = [s \in Streams |-> stream'[s]],
         \A s \in Streams : stream'[s] = NoStream \/ IsStream(stream'[s]),
         \A e \in Devices : /\ held'[e] \in Nat /\ Cardinality(Using(e)') \in Nat
                            /\ held'[e] + Cardinality(Using(e)') + (IF e = d THEN 1 ELSE 0)
                                 = held[e] + Cardinality(Using(e))
  PROVE  Counted'
<1>1. Listed' = Listed
  BY DEF Listed, ToSet
<1>2. ASSUME NEW e \in Devices
      PROVE  /\ ref_count'[e] \in Nat /\ ref_count'[e] = Holders(e)'
             /\ device'[e] # NoDevice <=> Holders(e)' > 0
             /\ device'[e] = NoDevice \/ IsDevice(device'[e])
  <2> DEFINE m == Cardinality(Using(e)')
             n == Cardinality(Using(e))
  <2>1. held[e] \in Nat /\ n \in Nat /\ Holders(e) = held[e] + (IF e \in Listed THEN 1 ELSE 0) + n
    BY HoldersAre
  <2>2. Holders(e)' = held'[e] + (IF e \in Listed THEN 1 ELSE 0) + m
    BY <1>1 DEF Holders, Using
  <2>3. held'[e] \in Nat /\ m \in Nat /\ held'[e] + m + (IF e = d THEN 1 ELSE 0) = held[e] + n
    OBVIOUS
  <2>4. ref_count[e] = Holders(e) /\ (device[e] # NoDevice <=> Holders(e) > 0)
    BY DEF Counted
  <2>5. ref_count'[e] = IF e = d THEN ref_count[e] - 1 ELSE ref_count[e]
    BY DEF Unref
  <2>6. device'[e] = IF e = d /\ ref_count[e] = 1 THEN NoDevice ELSE device[e]
    BY DEF Unref
  <2>7. device'[e] = NoDevice \/ IsDevice(device'[e])
    BY <2>6, Zenon DEF Counted
  <2> HIDE DEF m, n
  <2>8. ref_count'[e] \in Nat /\ ref_count'[e] = Holders(e)'
    BY <2>1, <2>2, <2>3, <2>4, <2>5
  <2>9. device'[e] # NoDevice <=> Holders(e)' > 0
    BY <2>1, <2>2, <2>3, <2>4, <2>6
  <2> QED
    BY <2>7, <2>8, <2>9
<1>3. ref_count' = [e \in Devices |-> ref_count'[e]] /\ device' = [e \in Devices |-> device'[e]]
  BY DEF Unref
<1>4. ref_count' \in [Devices -> Nat]
  BY <1>2, <1>3
<1> QED
  BY <1>2, <1>3, <1>4 DEF Counted, IsDevice, IsStream

\* A stream that is created holds a reference to its device.
LEMMA CreateCounts ==
  ASSUME Counted, NEW s \in Streams, NEW d \in Devices, NEW aim, StreamCreate(s, d, aim)
  PROVE  Counted'
<1>1. Listed' = Listed /\ UNCHANGED <<safe_devices_info, device, held>> /\ held[d] > 0
  BY DEF StreamCreate, Listed, ToSet
<1>2. /\ stream' = [t \in Streams |-> stream'[t]]
      /\ \A t \in Streams : stream'[t] =
           IF t = s THEN [state |-> "created", aim |-> aim, device |-> d] ELSE stream[t]
  BY DEF StreamCreate, Counted
<1>3. /\ IsStream([state |-> "created", aim |-> aim, device |-> d])
      /\ [state |-> "created", aim |-> aim, device |-> d] # NoStream
  BY DEF IsStream, NoStream
<1>4. \A t \in Streams : stream'[t] = NoStream \/ IsStream(stream'[t])
  BY <1>2, <1>3, Zenon DEF Counted
<1>5. ASSUME NEW e \in Devices
      PROVE  Cardinality(Using(e)') = Cardinality(Using(e)) + (IF e = d THEN 1 ELSE 0)
  <2>1. IsFiniteSet(Using(e)) /\ Cardinality(Using(e)) \in Nat
    BY HoldersAre
  <2>2. s \notin Using(e)
    BY DEF StreamCreate, Using
  <2>3. CASE e = d
    <3>1. Using(e)' = Using(e) \union {s}
      BY <1>2, <1>3, <2>3 DEF Using
    <3> QED
      BY <2>1, <2>2, <2>3, <3>1, FS_AddElement
  <2>4. CASE e # d
    <3>1. Using(e)' = Using(e)
      BY <1>2, <1>3, <2>2, <2>4 DEF Using
    <3> QED
      BY <2>1, <2>4, <3>1
  <2> QED
    BY <2>3, <2>4
<1>6. ASSUME NEW e \in Devices
      PROVE  /\ ref_count'[e] \in Nat /\ ref_count'[e] = Holders(e)'
             /\ device'[e] # NoDevice <=> Holders(e)' > 0
  <2> DEFINE m == Cardinality(Using(e)')
             n == Cardinality(Using(e))
  <2>1. held[e] \in Nat /\ n \in Nat /\ Holders(e) = held[e] + (IF e \in Listed THEN 1 ELSE 0) + n
    BY HoldersAre
  <2>2. Holders(e)' = held[e] + (IF e \in Listed THEN 1 ELSE 0) + m
    BY <1>1 DEF Holders, Using
  <2>3. m = n + (IF e = d THEN 1 ELSE 0)
    BY <1>5
  <2>4. ref_count[e] = Holders(e) /\ (device[e] # NoDevice <=> Holders(e) > 0)
    BY DEF Counted
  <2>5. ref_count'[e] = IF e = d THEN ref_count[e] + 1 ELSE ref_count[e]
    BY DEF StreamCreate, Counted
  <2> HIDE DEF m, n
  <2>6. ref_count'[e] \in Nat /\ ref_count'[e] = Holders(e)'
    BY <2>1, <2>2, <2>3, <2>4, <2>5
  <2>7. Holders(e)' > 0 <=> Holders(e) > 0
    BY <1>1, <2>1, <2>2, <2>3
  <2> QED
    BY <1>1, <2>4, <2>6, <2>7
<1>7. ref_count' \in [Devices -> Nat]
  BY <1>6 DEF Counted, StreamCreate
<1> QED
  BY <1>1, <1>2, <1>4, <1>6, <1>7 DEF Counted, IsDevice, IsStream

\* A stream that is destroyed gives its reference back.
LEMMA DestroyCounts ==
  ASSUME Counted, NEW s \in Streams, StreamDestroy(s)
  PROVE  Counted'
<1> DEFINE d == stream[s].device
<1>1. IsStream(stream[s]) /\ d \in Devices
  BY Zenon DEF Counted, StreamDestroy, IsStream
<1>2. UNCHANGED <<safe_devices_info, held>> /\ Unref({d}) /\ stream[s] # NoStream
  BY DEF StreamDestroy
<1>3. /\ stream' = [t \in Streams |-> stream'[t]]
      /\ \A t \in Streams : stream'[t] = IF t = s THEN NoStream ELSE stream[t]
  BY DEF StreamDestroy, Counted
<1>4. \A t \in Streams : stream'[t] = NoStream \/ IsStream(stream'[t])
  BY <1>3, Zenon DEF Counted
<1>5. ASSUME NEW e \in Devices
      PROVE  /\ held'[e] \in Nat /\ Cardinality(Using(e)') \in Nat
             /\ held'[e] + Cardinality(Using(e)') + (IF e = d THEN 1 ELSE 0)
                  = held[e] + Cardinality(Using(e))
  <2>1. IsFiniteSet(Using(e)) /\ Cardinality(Using(e)) \in Nat /\ held[e] \in Nat
    BY HoldersAre
  <2>2. Using(e)' = Using(e) \ {s}
    BY <1>3 DEF Using
  <2>3. s \in Using(e) <=> e = d
    BY <1>2 DEF Using
  <2>4. /\ IsFiniteSet(Using(e) \ {s})
        /\ Cardinality(Using(e) \ {s})
             = IF s \in Using(e) THEN Cardinality(Using(e)) - 1 ELSE Cardinality(Using(e))
    BY <2>1, FS_RemoveElement
  <2>5. Cardinality(Using(e) \ {s}) \in Nat
    BY <2>4, FS_CardinalityType
  <2> HIDE DEF d
  <2> QED
    BY <1>2, <2>1, <2>2, <2>3, <2>4, <2>5
<1>6. held' \in [Devices -> 0..MaxRefs]
  BY <1>2 DEF Counted
<1> QED
  BY <1>1, <1>2, <1>3, <1>4, <1>5, <1>6, UnrefCounts
\* Whether and how a stream was opened changes nothing about who holds its device.
LEMMA OpenCounts ==
  ASSUME Counted, NEW s \in Streams, NEW format, NEW layout, NEW rate,
         StreamOpen(s, format, layout, rate)
  PROVE  Counted'
<1>1. Listed' = Listed /\ UNCHANGED <<safe_devices_info, device, ref_count, held>>
  BY DEF StreamOpen, Listed, ToSet, devices
<1>2. /\ stream' = [t \in Streams |-> stream'[t]]
      /\ stream'[s].state \in {"failed", "open"} /\ stream'[s].device = stream[s].device
      /\ \A t \in Streams : t # s => stream'[t] = stream[t]
  BY DEF StreamOpen, Counted
<1>3. stream[s] # NoStream /\ IsStream(stream[s])
  <2>1. stream[s].state # "none"
    BY DEF StreamOpen
  <2>2. stream[s] # NoStream
    BY <2>1 DEF NoStream
  <2> QED
    BY <2>2, Zenon DEF Counted
<1>4. IsStream(stream'[s]) /\ stream'[s] # NoStream
  BY <1>2, <1>3, InMemory DEF IsStream
<1>5. \A t \in Streams : stream'[t] = NoStream \/ IsStream(stream'[t])
  BY <1>2, <1>4, Zenon DEF Counted
<1>6. \A e \in Devices : Using(e)' = Using(e)
  BY <1>2, <1>3, <1>4 DEF Using
<1>7. \A e \in Devices : Holders(e)' = Holders(e)
  BY <1>1, <1>6 DEF Holders, Using
<1> QED
  BY <1>1, <1>2, <1>5, <1>7 DEF Counted, IsDevice, IsStream

\* Sorting the layouts of a device leaves it a device.
LEMMA SortCounts ==
  ASSUME Counted, NEW d \in Devices, SortChannelLayouts(d)
  PROVE  Counted'
<1>1. Listed' = Listed /\ UNCHANGED <<safe_devices_info, ref_count, held, stream>> /\ held[d] > 0
  BY DEF SortChannelLayouts, Listed, ToSet
<1>2. \A e \in Devices : Holders(e)' = Holders(e)
  BY <1>1 DEF Holders
<1>3. device[d] # NoDevice /\ IsDevice(device[d])
  <2>1. Holders(d) > 0
    BY <1>1, HoldersAre
  <2> QED
    BY <2>1, Zenon DEF Counted
<1>4. PICK layouts :
        device' = [device EXCEPT ![d].capabilities.layouts = layouts]
  BY DEF SortChannelLayouts
<1>5. \A e \in Devices : e # d => device'[e] = device[e]
  BY <1>4 DEF Counted
<1>6. device' = [e \in Devices |-> device'[e]]
  BY <1>4 DEF Counted
<1>7. IsDevice(device'[d]) /\ device'[d] # NoDevice
  <2>1. device'[d] = [device[d] EXCEPT !.capabilities = [@ EXCEPT !.layouts = layouts]]
    BY <1>4 DEF Counted
  <2>2. \E c : device'[d] = [backend |-> device[d].backend, capabilities |-> c]
    BY <1>3, <2>1 DEF IsDevice
  <2>3. IsDevice(device'[d])
    BY <1>3, <2>2 DEF IsDevice
  <2> QED
    BY <2>3, InMemory
<1>8. \A e \in Devices : device'[e] = NoDevice \/ IsDevice(device'[e])
  BY <1>5, <1>7, Zenon DEF Counted
<1>9. \A e \in Devices : device'[e] # NoDevice <=> device[e] # NoDevice
  BY <1>3, <1>5, <1>7, Zenon
<1> QED
  BY <1>1, <1>2, <1>6, <1>8, <1>9 DEF Counted, IsDevice, IsStream

\* One step per call.
LEMMA CountedStep == Tries /\ Counted /\ [Next]_vars => Counted'
<1> SUFFICES ASSUME Tries, Counted, [Next]_vars PROVE Counted'
  OBVIOUS
<1>1. CASE UNCHANGED <<devices, held, stream>>
  BY <1>1 DEF devices, Counted, IsDevice, IsStream, Holders, Listed, ToSet
<1>2. CASE Disconnect \/ Destroy \/ ConnectFails
  <2>1. soundio_disconnect /\ UNCHANGED <<held, stream>>
    BY <1>2, Zenon DEF Disconnect, Destroy, ConnectFails
  <2> QED
    BY <2>1, DisconnectCounts
<1>3. CASE FlushEvents
  <2>1. table \in Backends /\ UNCHANGED <<held, stream>>
    BY <1>3, Zenon DEF FlushEvents
  <2>2. PICK new, c : Replace(table, new, c)
    BY <1>3, Zenon DEF FlushEvents
  <2> QED
    BY <2>1, <2>2, ReplaceCounts
<1>4. CASE InitSucceeds
  <2>1. available_backends[step.i] \in Backends /\ UNCHANGED <<held, stream>>
    BY <1>4, TriedIsBackend DEF InitSucceeds, Tries
  <2>2. (\E new, c : Replace(available_backends[step.i], new, c)) \/ UNCHANGED devices
    BY <1>4, Zenon DEF InitSucceeds
  <2> QED
    BY <1>1, <2>1, <2>2, ReplaceCounts
<1>5. ASSUME NEW err \in {"inactive", "nomem", "pipe2"}, InitFails(err) PROVE Counted'
  <2>1. available_backends[step.i] \in Backends /\ UNCHANGED <<held, stream>>
    BY <1>5, TriedIsBackend DEF InitFails, Tries
  <2>2. (\E new, c : Replace(available_backends[step.i], new, c)) \/ UNCHANGED devices
    BY <1>5, Zenon DEF InitFails
  <2> QED
    BY <1>1, <2>1, <2>2, ReplaceCounts
<1>6. ASSUME NEW d \in Devices, GetDevice(d) \/ DeviceRef(d) PROVE Counted'
  <2>1. /\ held' = [held EXCEPT ![d] = @ + 1] /\ ref_count' = [ref_count EXCEPT ![d] = @ + 1]
        /\ UNCHANGED <<safe_devices_info, device, stream>>
        /\ d \in Listed \/ held[d] \in 1..MaxRefs - 1
        /\ held[d] < MaxRefs
    BY <1>6, BoundsAssumption DEF GetDevice, DeviceRef
  <2>2. Holders(d) > 0
    BY <2>1, HoldersAre
  <2> QED
    BY <2>1, <2>2, RefCounts
<1>7. ASSUME NEW d \in Devices, DeviceUnref(d) PROVE Counted'
  <2>1. /\ held[d] > 0 /\ held' = [held EXCEPT ![d] = @ - 1] /\ Unref({d})
        /\ UNCHANGED <<safe_devices_info, stream>>
    BY <1>7 DEF DeviceUnref
  <2>2. held' \in [Devices -> 0..MaxRefs]
    BY <2>1, BoundsAssumption DEF Counted
  <2>3. ASSUME NEW e \in Devices
        PROVE  /\ held'[e] \in Nat /\ Cardinality(Using(e)') \in Nat
               /\ held'[e] + Cardinality(Using(e)') + (IF e = d THEN 1 ELSE 0)
                    = held[e] + Cardinality(Using(e))
    <3>1. Using(e)' = Using(e)
      BY <2>1 DEF Using
    <3>2. held[e] \in Nat /\ Cardinality(Using(e)) \in Nat
      BY HoldersAre
    <3>3. held'[e] = IF e = d THEN held[e] - 1 ELSE held[e]
      BY <2>1 DEF Counted
    <3> QED
      BY <2>1, <3>1, <3>2, <3>3
  <2>4. /\ stream' = [s \in Streams |-> stream'[s]]
        /\ \A s \in Streams : stream'[s] = NoStream \/ IsStream(stream'[s])
    BY <2>1, Zenon DEF Counted
  <2> QED
    BY <2>1, <2>2, <2>3, <2>4, UnrefCounts
<1>8. ASSUME NEW d \in Devices, SortChannelLayouts(d) PROVE Counted'
  BY <1>8, SortCounts
<1>9. ASSUME NEW d \in Devices, NEW s \in Streams, NEW aim \in {"out", "in"},
             StreamCreate(s, d, aim)
      PROVE  Counted'
  BY <1>9, CreateCounts
<1>10. ASSUME NEW s \in Streams, StreamDestroy(s) PROVE Counted'
  BY <1>10, DestroyCounts
<1>11. ASSUME NEW s \in Streams, NEW format, NEW layout, NEW rate,
              StreamOpen(s, format, layout, rate)
       PROVE  Counted'
  BY <1>11, OpenCounts
<1>12. ASSUME NEW all, NEW i, Connect(all, i) PROVE Counted'
  BY <1>1, <1>12, Zenon DEF Connect
<1>13. CASE Create
  BY <1>1, <1>13, Zenon DEF Create
<1>14. CASE UNCHANGED vars
  BY <1>1, <1>14, Zenon DEF vars
<1> QED
  BY <1>2, <1>3, <1>4, <1>5, <1>6, <1>7, <1>8, <1>9, <1>10, <1>11, <1>12, <1>13, <1>14, Zenon
     DEF Next
\* A context begins without devices, so without counts.
LEMMA InitCounted == Init => Tries /\ Counted
<1> SUFFICES ASSUME Init PROVE Tries /\ Counted
  OBVIOUS
<1>1. Tries
  BY DEF Init, Tries, Idle
<1>2. ASSUME NEW d \in Devices PROVE Holders(d) = 0
  <2>1. {s \in Streams : stream[s] # NoStream /\ stream[s].device = d} = {}
    BY DEF Init
  <2>2. d \notin Listed /\ held[d] = 0
    BY ListedIs DEF Init
  <2> QED
    BY <2>1, <2>2, FS_EmptySet DEF Holders
<1>3. Counted
  BY <1>2, BoundsAssumption DEF Init, Counted
<1> QED
  BY <1>1, <1>3

-----------------------------------------------------------------------------
(* The rest of the types.                                                  *)

Typed ==
  /\ context \in {"none", "live", "freed"}
  /\ current_backend \in Backends \union {None}
  /\ table \in Backends \union {None}
  /\ backend_data \in Backends \union {None}
  /\ leaked \in BOOLEAN /\ orphaned \in BOOLEAN /\ pipe_failed \in BOOLEAN /\ early \in BOOLEAN

\* The context has the functions and the data of backends that exist.
LEMMA TypedStep == Tries /\ Typed /\ [Next]_vars => Typed'
<1> SUFFICES ASSUME Tries, Typed, [Next]_vars PROVE Typed'
  OBVIOUS
<1> USE DEF Typed, connection, history
<1>1. CASE Create
  BY <1>1, Zenon DEF Create
<1>2. CASE Disconnect \/ Destroy \/ ConnectFails
  BY <1>2, Zenon DEF Disconnect, Destroy, ConnectFails, soundio_disconnect
<1>3. CASE UNCHANGED <<context, connection, history>>
  BY <1>3, Zenon
<1>4. CASE InitSucceeds
  <2>1. available_backends[step.i] \in Backends
    BY <1>4, TriedIsBackend DEF InitSucceeds, Tries
  <2> QED
    BY <1>4, <2>1, Zenon DEF InitSucceeds
<1>5. ASSUME NEW err \in {"inactive", "nomem", "pipe2"}, InitFails(err) PROVE Typed'
  <2>1. available_backends[step.i] \in Backends
    BY <1>5, TriedIsBackend DEF InitFails, Tries
  <2>2. backend_data' \in Backends \union {None}
    BY <1>5, <2>1 DEF InitFails
  <2> QED
    BY <1>5, <2>2, Zenon DEF InitFails
<1>6. ASSUME NEW s \in Streams, StreamDestroy(s) PROVE Typed'
  BY <1>6, Zenon DEF StreamDestroy
<1> QED
  BY <1>1, <1>2, <1>3, <1>4, <1>5, <1>6, Zenon
     DEF Next, vars, FlushEvents, Connect, GetDevice, DeviceRef, DeviceUnref, SortChannelLayouts,
         StreamCreate, StreamOpen

\* A device's count is the number of its holders, and it is in memory exactly as
\* long as it has one (soundio.c:390-425, 683), through flushes, failed connects,
\* disconnects and the end of the context.
THEOREM CountsAreRight == Spec => []RefCountsAreHolders
<1>1. Init => Tries /\ Typed /\ Counted
  <2>1. Init => Typed
    BY Zenon DEF Init, Typed
  <2> QED
    BY <2>1, InitCounted
<1>2. Tries /\ Typed /\ Counted => RefCountsAreHolders
  <2> SUFFICES ASSUME Tries, Typed, Counted PROVE RefCountsAreHolders
    OBVIOUS
  <2>1. {leaked, orphaned, pipe_failed, early} \subseteq BOOLEAN
    BY DEF Typed
  <2>2. {current_backend, table, backend_data} \subseteq Backends \union {None}
    BY Zenon DEF Typed
  <2>3. safe_devices_info = Null \/ safe_devices_info \in {<<S>> : S \in SUBSET Devices}
    BY Zenon DEF Counted
  <2>4. \A s \in Streams : stream[s].state \in {"none", "created", "open", "failed"}
    BY DEF Counted, IsStream, NoStream
  <2>5. \A d \in Devices : device[d] = NoDevice \/ device[d].backend \in Backends
    BY Zenon DEF Counted, IsDevice
  <2>6. TypeOK
    BY <2>1, <2>2, <2>3, <2>4, <2>5, Zenon DEF TypeOK, Typed, Tries, Counted
  <2> QED
    BY <2>6, Zenon DEF RefCountsAreHolders, Counted
<1> QED
  BY <1>1, <1>2, TriesStep, TypedStep, CountedStep, PTL DEF Spec

-----------------------------------------------------------------------------
(* The rate of a stream.                                                   *)

\* A set of numbers that is not empty has a least one.
LEMMA LeastNumber ==
  ASSUME NEW T \in SUBSET Nat, T # {}
  PROVE  \E n \in T : \A m \in T : n <= m
<1> DEFINE R == OpToRel(<, Nat)
<1>1. IsWellFoundedOn(R, Nat)
  BY NatLessThanWellFounded
<1>2. \A m, n \in Nat : m < n => <<m, n>> \in R
  BY DEF OpToRel
<1> HIDE DEF R
<1>3. PICK n \in T : \A m \in T : ~(<<m, n>> \in R)
  BY <1>1, WFMin, Zenon
<1>4. \A m \in T : ~(m < n)
  BY <1>2, <1>3, Zenon
<1>5. \A m \in T : n <= m
  BY <1>4
<1> QED
  BY <1>5, Zenon

\* Induction, over a set instead of a predicate.
LEMMA Numbers ==
  ASSUME NEW S, 0 \in S, \A n \in Nat : n \in S => n + 1 \in S
  PROVE  Nat \subseteq S
<1> SUFFICES ASSUME Nat \ S # {} PROVE FALSE
  BY Zenon
<1>1. PICK n \in Nat \ S : \A m \in Nat \ S : n <= m
  BY LeastNumber
<1> QED
  BY <1>1

\* best_rate after each of the first n rounds.
IsLoop(best_rate, n, sample_rates, sample_rate) ==
  best_rate = [i \in 0..n |->
                 IF i = 0 THEN -1
                 ELSE better_rate(best_rate[i - 1], sample_rates[i], sample_rate)]

\* The loop comes to its end, whatever the number of ranges.
LEMMA LoopEnds ==
  ASSUME NEW sample_rates, NEW rate
  PROVE  \A n \in Nat : \E g : IsLoop(g, n, sample_rates, rate)
<1> DEFINE S == {n \in Nat : \E g : IsLoop(g, n, sample_rates, rate)}
<1>1. 0 \in S
  <2> DEFINE g == [i \in 0..0 |-> -1]
  <2>1. IsLoop(g, 0, sample_rates, rate)
    BY DEF IsLoop
  <2> QED
    BY <2>1
<1>2. ASSUME NEW n \in Nat, n \in S PROVE n + 1 \in S
  <2>1. PICK g : IsLoop(g, n, sample_rates, rate)
    BY <1>2
  <2> DEFINE last == better_rate(g[n], sample_rates[n + 1], rate)
             h == [i \in 0..n + 1 |-> IF i = n + 1 THEN last ELSE g[i]]
  <2> HIDE DEF last
  <2>2. \A i \in 0..n : h[i] = g[i]
    OBVIOUS
  <2>3. ASSUME NEW i \in 0..n + 1
        PROVE  h[i] = IF i = 0 THEN -1 ELSE better_rate(h[i - 1], sample_rates[i], rate)
    <3>1. CASE i = n + 1
      BY <2>2, <3>1 DEF last
    <3>2. CASE i \in 0..n
      <4>1. g[i] = IF i = 0 THEN -1 ELSE better_rate(g[i - 1], sample_rates[i], rate)
        BY <2>1, <3>2 DEF IsLoop
      <4>2. i # 0 => h[i - 1] = g[i - 1]
        BY <2>2, <3>2
      <4>3. h[i] = g[i]
        BY <2>2, <3>2
      <4> QED
        BY <4>1, <4>2, <4>3, Zenon
    <3> QED
      BY <3>1, <3>2
  <2>4. IsLoop(h, n + 1, sample_rates, rate)
    BY <2>3, Zenon DEF IsLoop
  <2> QED
    BY <2>4
<1>3. Nat \subseteq S
  BY <1>1, <1>2, Numbers
<1> QED
  BY <1>3

\* What the function returns is best_rate after the last round.
LEMMA LoopReturns ==
  ASSUME NEW sample_rates, NEW rate, Len(sample_rates) \in Nat
  PROVE  \E g : /\ IsLoop(g, Len(sample_rates), sample_rates, rate)
                /\ soundio_device_nearest_sample_rate(sample_rates, rate) = g[Len(sample_rates)]
<1> DEFINE g == CHOOSE f : IsLoop(f, Len(sample_rates), sample_rates, rate)
<1>1. \E f : IsLoop(f, Len(sample_rates), sample_rates, rate)
  BY LoopEnds
<1>2. IsLoop(g, Len(sample_rates), sample_rates, rate)
  BY <1>1, Zenon
<1>3. soundio_device_nearest_sample_rate(sample_rates, rate) = g[Len(sample_rates)]
  BY Zenon DEF soundio_device_nearest_sample_rate, IsLoop
<1> QED
  BY <1>2, <1>3, Zenon

\* A rate that one of the first n ranges has; of those not below the one wanted
\* the lowest and, if there is none, the highest of all.
IsNearest(v, n, sample_rates, rate) ==
  /\ \E k \in 1..n : v >= sample_rates[k].min /\ v <= sample_rates[k].max
  /\ v >= rate => \A k \in 1..n : \/ sample_rates[k].max < rate \/ v <= sample_rates[k].min
                                  \/ v = rate
  /\ v < rate => \A k \in 1..n : sample_rates[k].max <= v

\* One round, about numbers: the candidate is the nearest rate of its range, and
\* of the candidate and the best so far the better one is kept.
LEMMA RoundIsRight ==
  ASSUME NEW best \in Int, NEW rate \in Nat,
         NEW range, range.min \in Nat \ {0}, range.max \in Nat, range.min <= range.max
  PROVE  LET v == better_rate(best, range, rate)
             candidate == soundio_int_clamp(range.min, rate, range.max)
         IN  /\ candidate \in range.min..range.max
             /\ candidate >= rate => candidate = rate \/ candidate <= range.min
             /\ candidate < rate => range.max <= candidate
             /\ v = best \/ v = candidate
             /\ best = -1 => v = candidate
             /\ best # -1 /\ best >= rate => v >= rate /\ v <= best
                                             /\ (candidate >= rate => v <= candidate)
             /\ best # -1 /\ best < rate => IF candidate >= rate THEN v = candidate
                                            ELSE v >= best /\ v >= candidate
BY DEF better_rate, soundio_int_clamp, abs_diff_int

\* One round, about ranges.
LEMMA RoundKeepsNearest ==
  ASSUME NEW sample_rates \in Seq(Ranges), NEW rate \in Nat, NEW n \in Nat, n < Len(sample_rates),
         NEW best \in Int,
         IF n = 0 THEN best = -1 ELSE best \in Nat /\ IsNearest(best, n, sample_rates, rate)
  PROVE  LET v == better_rate(best, sample_rates[n + 1], rate)
         IN  v \in Nat /\ IsNearest(v, n + 1, sample_rates, rate)
<1> DEFINE range == sample_rates[n + 1]
           v == better_rate(best, range, rate)
           candidate == soundio_int_clamp(range.min, rate, range.max)
<1>1. \A k \in 1..n + 1 : /\ sample_rates[k].min \in Nat \ {0} /\ sample_rates[k].max \in Nat
                          /\ sample_rates[k].min <= sample_rates[k].max
  <2>1. \A k \in 1..n + 1 : sample_rates[k] \in Ranges
    OBVIOUS
  <2>2. \A r \in Ranges : r.min \in Nat \ {0} /\ r.max \in Nat /\ r.min <= r.max
    BY RatesAssumption DEF Ranges
  <2> QED
    BY <2>1, <2>2, Zenon
<1>2. range.min \in Nat \ {0} /\ range.max \in Nat /\ range.min <= range.max
  BY <1>1
<1>3. /\ candidate \in range.min..range.max
      /\ candidate >= rate => candidate = rate \/ candidate <= range.min
      /\ candidate < rate => range.max <= candidate
      /\ v = best \/ v = candidate
      /\ best = -1 => v = candidate
      /\ best # -1 /\ best >= rate => v >= rate /\ v <= best
                                      /\ (candidate >= rate => v <= candidate)
      /\ best # -1 /\ best < rate => IF candidate >= rate THEN v = candidate
                                     ELSE v >= best /\ v >= candidate
  BY <1>2, RoundIsRight
<1> HIDE DEF v, candidate
<1>4. candidate \in Nat /\ v \in Nat
  BY <1>2, <1>3
<1>5. \A k \in 1..n + 1 : k \in 1..n \/ k = n + 1
  OBVIOUS
<1>6. IsNearest(v, n + 1, sample_rates, rate)
  <2>1. CASE n = 0
    <3>1. v = candidate /\ \A k \in 1..n + 1 : k = n + 1
      BY <1>3, <2>1
    <3> QED
      BY <1>2, <1>3, <1>4, <3>1 DEF IsNearest
  <2>2. CASE n # 0
    <3>1. best \in Nat /\ IsNearest(best, n, sample_rates, rate)
      BY <2>2
    <3>2. \E k \in 1..n + 1 : v >= sample_rates[k].min /\ v <= sample_rates[k].max
      BY <1>2, <1>3, <1>4, <3>1 DEF IsNearest
    <3>3. ASSUME v >= rate, NEW k \in 1..n + 1
          PROVE  sample_rates[k].max < rate \/ v <= sample_rates[k].min \/ v = rate
      <4>1. CASE k = n + 1
        BY <1>2, <1>3, <1>4, <3>1, <3>3, <4>1
      <4>2. CASE k \in 1..n /\ best >= rate
        BY <1>1, <1>3, <1>4, <3>1, <3>3, <4>2 DEF IsNearest
      <4>3. CASE k \in 1..n /\ best < rate
        BY <1>1, <1>3, <1>4, <3>1, <3>3, <4>3 DEF IsNearest
      <4> QED
        BY <1>4, <1>5, <3>1, <4>1, <4>2, <4>3
    <3>4. ASSUME v < rate, NEW k \in 1..n + 1 PROVE sample_rates[k].max <= v
      <4>1. best < rate /\ candidate < rate /\ v >= best /\ v >= candidate
        BY <1>3, <1>4, <3>1, <3>4
      <4>2. CASE k = n + 1
        BY <1>2, <1>3, <1>4, <4>1, <4>2
      <4>3. CASE k \in 1..n
        BY <1>1, <1>4, <3>1, <4>1, <4>3 DEF IsNearest
      <4> QED
        BY <1>5, <4>2, <4>3
    <3> QED
      BY <3>2, <3>3, <3>4 DEF IsNearest
  <2> QED
    BY <2>1, <2>2
<1> QED
  BY <1>4, <1>6 DEF v

\* The function returns the nearest rate, for any number of ranges.
LEMMA ReturnsNearest ==
  ASSUME NEW sample_rates \in Seq(Ranges), sample_rates # <<>>, NEW rate \in Nat
  PROVE  LET v == soundio_device_nearest_sample_rate(sample_rates, rate)
         IN  v \in Nat /\ IsNearest(v, Len(sample_rates), sample_rates, rate)
<1> DEFINE N == Len(sample_rates)
<1>1. N \in Nat \ {0}
  BY EmptySeq
<1>2. PICK g : /\ IsLoop(g, N, sample_rates, rate)
               /\ soundio_device_nearest_sample_rate(sample_rates, rate) = g[N]
  BY <1>1, LoopReturns, Zenon
<1>3. /\ g[0] = -1
      /\ \A n \in 0..N - 1 : g[n + 1] = better_rate(g[n], sample_rates[n + 1], rate)
  BY <1>1, <1>2 DEF IsLoop
<1> DEFINE P(n) == IF n = 0 THEN g[n] = -1
                   ELSE g[n] \in Nat /\ IsNearest(g[n], n, sample_rates, rate)
           S == {n \in Nat : n <= N => P(n)}
<1>4. 0 \in S
  BY <1>3
<1>5. ASSUME NEW n \in Nat, n \in S PROVE n + 1 \in S
  <2> SUFFICES ASSUME n + 1 <= N PROVE P(n + 1)
    OBVIOUS
  <2>1. P(n) /\ g[n] \in Int /\ n < N /\ n \in 0..N - 1
    BY <1>1, <1>5
  <2>2. g[n + 1] \in Nat /\ IsNearest(g[n + 1], n + 1, sample_rates, rate)
    BY <1>3, <2>1, RoundKeepsNearest
  <2> QED
    BY <2>2
<1>6. N \in S
  BY <1>1, <1>4, <1>5, Numbers
<1> QED
  BY <1>1, <1>2, <1>6

\* The least and the greatest of a set, if there are, are what CHOOSE gives.
LEMMA ChooseLeast ==
  ASSUME NEW S \in SUBSET Int, NEW v \in S
  PROVE  /\ (\A s \in S : v <= s) => (CHOOSE r \in S : \A s \in S : r <= s) = v
         /\ (\A s \in S : v >= s) => (CHOOSE r \in S : \A s \in S : r >= s) = v
<1>1. ASSUME \A s \in S : v <= s PROVE (CHOOSE r \in S : \A s \in S : r <= s) = v
  <2> DEFINE c == CHOOSE r \in S : \A s \in S : r <= s
  <2>1. c \in S /\ \A s \in S : c <= s
    BY <1>1, Zenon
  <2> HIDE DEF c
  <2>2. c <= v /\ v <= c /\ c \in Int /\ v \in Int
    BY <1>1, <2>1
  <2>3. c = v
    BY <2>2
  <2> QED
    BY <2>3, Zenon DEF c
<1>2. ASSUME \A s \in S : v >= s PROVE (CHOOSE r \in S : \A s \in S : r >= s) = v
  <2> DEFINE c == CHOOSE r \in S : \A s \in S : r >= s
  <2>1. c \in S /\ \A s \in S : c >= s
    BY <1>2, Zenon
  <2> HIDE DEF c
  <2>2. c <= v /\ v <= c /\ c \in Int /\ v \in Int
    BY <1>2, <2>1
  <2>3. c = v
    BY <2>2
  <2> QED
    BY <2>3, Zenon DEF c
<1> QED
  BY <1>1, <1>2, Zenon

\* The function agrees with the reference (soundio.h:917), for any number of
\* ranges in any order, overlapping or not.
THEOREM NearestIsReference ==
  ASSUME NEW sample_rates \in Seq(Ranges), sample_rates # <<>>, NEW rate \in Nat
  PROVE  /\ soundio_device_nearest_sample_rate(sample_rates, rate) = NearestRate(sample_rates, rate)
         /\ supports_sample_rate(sample_rates, NearestRate(sample_rates, rate))
<1> DEFINE v == soundio_device_nearest_sample_rate(sample_rates, rate)
           supported == {r \in 1..MaxRate : supports_sample_rate(sample_rates, r)}
           above == {r \in supported : r >= rate}
<1>1. v \in Nat /\ IsNearest(v, Len(sample_rates), sample_rates, rate)
  BY ReturnsNearest
<1>2. DOMAIN sample_rates = 1..Len(sample_rates) /\ Len(sample_rates) \in Nat
  OBVIOUS
<1>3. \A k \in 1..Len(sample_rates) :
        /\ sample_rates[k].min \in 1..MaxRate /\ sample_rates[k].max \in 1..MaxRate
        /\ sample_rates[k].min <= sample_rates[k].max
  <2>1. \A k \in 1..Len(sample_rates) : sample_rates[k] \in Ranges
    OBVIOUS
  <2>2. \A r \in Ranges : r.min \in 1..MaxRate /\ r.max \in 1..MaxRate /\ r.min <= r.max
    BY DEF Ranges
  <2> QED
    BY <2>1, <2>2, Zenon
<1> HIDE DEF v
<1>4. v \in supported /\ supports_sample_rate(sample_rates, v)
  BY <1>1, <1>2, <1>3, RatesAssumption DEF IsNearest, supports_sample_rate
<1>5. CASE v >= rate
  <2>1. v \in above
    BY <1>4, <1>5
  <2>2. ASSUME NEW s \in above PROVE v <= s
    <3>1. s \in Nat /\ s >= rate
      OBVIOUS
    <3>2. PICK k \in 1..Len(sample_rates) : s >= sample_rates[k].min /\ s <= sample_rates[k].max
      BY <1>2 DEF supports_sample_rate
    <3>3. sample_rates[k].max < rate \/ v <= sample_rates[k].min \/ v = rate
      BY <1>1, <1>5 DEF IsNearest
    <3> QED
      BY <1>1, <1>3, <3>1, <3>2, <3>3
  <2>3. (CHOOSE r \in above : \A s \in above : r <= s) = v
    <3>1. above \in SUBSET Int
      BY RatesAssumption
    <3> HIDE DEF above
    <3> QED
      BY <2>1, <2>2, <3>1, ChooseLeast, Zenon
  <2>4. NearestRate(sample_rates, rate) = v
    BY <2>1, <2>3, Zenon DEF NearestRate
  <2> QED
    BY <1>4, <2>4, Zenon DEF v
<1>6. CASE v < rate
  <2>1. ASSUME NEW s \in supported PROVE v >= s
    <3>1. s \in Nat
      OBVIOUS
    <3>2. PICK k \in 1..Len(sample_rates) : s >= sample_rates[k].min /\ s <= sample_rates[k].max
      BY <1>2 DEF supports_sample_rate
    <3>3. sample_rates[k].max <= v
      BY <1>1, <1>6 DEF IsNearest
    <3> QED
      BY <1>1, <1>3, <3>1, <3>2, <3>3
  <2>2. above = {}
    <3> SUFFICES ASSUME NEW s \in above PROVE FALSE
      OBVIOUS
    <3>1. s \in supported /\ s >= rate /\ s \in Nat
      OBVIOUS
    <3> QED
      BY <1>1, <1>6, <2>1, <3>1
  <2>3. (CHOOSE r \in supported : \A s \in supported : r >= s) = v
    <3>1. supported \in SUBSET Int
      BY RatesAssumption
    <3> HIDE DEF supported
    <3> QED
      BY <1>4, <2>1, <3>1, ChooseLeast, Zenon
  <2>4. NearestRate(sample_rates, rate) = v
    BY <2>2, <2>3, Zenon DEF NearestRate
  <2> QED
    BY <1>4, <2>4, Zenon DEF v
<1> QED
  BY <1>1, <1>5, <1>6

\* soundio.h:917: the nearest available rate, rounding up (soundio.c:789-810).
THEOREM RatesRoundUp == Spec => []NearestRateRoundsUp
<1>1. NearestRateRoundsUp
  <2> SUFFICES ASSUME NEW n \in 1..3, NEW sample_rates \in [1..n -> Ranges],
                      NEW rate \in 0..MaxRate + 1
               PROVE  soundio_device_nearest_sample_rate(sample_rates, rate)
                        = NearestRate(sample_rates, rate)
    BY Zenon DEF NearestRateRoundsUp
  <2>1. sample_rates \in Seq(Ranges) /\ sample_rates # <<>> /\ rate \in Nat
    BY RatesAssumption
  <2> QED
    BY <2>1, NearestIsReference
<1> QED
  BY <1>1, PTL

-----------------------------------------------------------------------------
(* What open chooses.                                                      *)

\* A device that could be probed has a format, a layout and a range of rates.
IsCapable(c) ==
  /\ c \in Capability
  /\ ~c.probe_error => c.formats # <<>> /\ c.layouts # <<>> /\ c.sample_rates # <<>>

Supported(c, chosen) ==
  /\ chosen.format # None => supports(c.formats, chosen.format)
  /\ chosen.layout # 0 => supports(c.layouts, chosen.layout)
  /\ chosen.rate # 0 => supports_sample_rate(c.sample_rates, chosen.rate)

\* The devices in memory can do what was probed of them, and what was chosen for
\* a stream is still among it.
Capable == \A d \in Devices : device[d] # NoDevice => IsCapable(device[d].capabilities)

Chosen ==
  \A s \in Streams : stream[s].state = "open" =>
    Supported(device[stream[s].device].capabilities, stream[s].defaults)

\* Sorting loses no layout.
LEMMA SortingKeeps ==
  ASSUME NEW layouts \in Seq(Nat), layouts # <<>>, NEW sorted \in SetToSeqs(ToSet(layouts))
  PROVE  /\ sorted \in Seq(Nat) /\ sorted # <<>>
         /\ \A layout : supports(layouts, layout) => supports(sorted, layout)
<1> DEFINE S == ToSet(layouts)
           D == 1..Cardinality(S)
<1>1. S = {layouts[i] : i \in 1..Len(layouts)} /\ S \subseteq Nat
  BY DEF ToSet
<1>2. layouts \in Surjection(1..Len(layouts), S)
  BY <1>1 DEF Surjection
<1>3. Len(layouts) \in Nat /\ Len(layouts) # 0
  BY EmptySeq
<1>4. IsFiniteSet(S)
  <2>1. IsFiniteSet(1..Len(layouts))
    BY <1>3, FS_Interval
  <2> QED
    BY <1>2, <2>1, FS_Surjection, Zenon
<1>5. Cardinality(S) \in Nat /\ Cardinality(S) # 0
  <2>1. S # {}
    BY <1>1, <1>3
  <2> QED
    BY <1>4, <2>1, FS_CardinalityType, FS_EmptySet
<1>6. sorted \in [D -> S] /\ \A i, j \in D : i # j => sorted[i] # sorted[j]
  BY DEF SetToSeqs
<1>7. sorted \in Injection(D, S)
  BY <1>6 DEF Injection, IsInjective
<1>8. IsFiniteSet(D) /\ Cardinality(D) = Cardinality(S)
  <2> HIDE DEF S
  <2> QED
    BY <1>5, FS_Interval
<1>9. sorted \in Surjection(D, S)
  BY <1>4, <1>7, <1>8, FS_Injection, Zenon
<1> HIDE DEF S
<1>10. sorted \in Seq(Nat) /\ sorted # <<>>
  <2>1. sorted \in [1..Cardinality(S) -> Nat]
    BY <1>1, <1>6
  <2>2. sorted \in Seq(Nat) /\ Len(sorted) = Cardinality(S)
    BY <1>5, <2>1
  <2> QED
    BY <1>5, <2>2, EmptySeq
<1>11. ASSUME NEW layout, supports(layouts, layout) PROVE supports(sorted, layout)
  <2>1. layout \in S
    BY <1>1, <1>11 DEF supports
  <2> QED
    BY <1>6, <1>9, <2>1 DEF Surjection, supports
<1> QED
  BY <1>10, <1>11

\* A device whose layouts were sorted can do what it could.
LEMMA SortedIsCapable ==
  ASSUME NEW c, IsCapable(c), ~c.probe_error, NEW layouts \in SetToSeqs(ToSet(c.layouts))
  PROVE  LET sorted == [c EXCEPT !.layouts = layouts]
         IN  IsCapable(sorted) /\ \A chosen : Supported(c, chosen) => Supported(sorted, chosen)
<1> DEFINE sorted == [c EXCEPT !.layouts = layouts]
<1>1. c \in Capability /\ c.layouts \in Seq(Nat) /\ c.layouts # <<>>
  BY DEF IsCapable, Capability
<1>2. /\ layouts \in Seq(Nat) /\ layouts # <<>>
      /\ \A layout : supports(c.layouts, layout) => supports(layouts, layout)
  BY <1>1, SortingKeeps
<1>3. /\ sorted \in Capability /\ sorted.layouts = layouts /\ sorted.formats = c.formats
      /\ sorted.sample_rates = c.sample_rates /\ sorted.probe_error = c.probe_error
  BY <1>1, <1>2 DEF Capability
<1> HIDE DEF sorted
<1>4. IsCapable(sorted)
  BY <1>2, <1>3, Zenon DEF IsCapable
<1>5. ASSUME NEW chosen, Supported(c, chosen) PROVE Supported(sorted, chosen)
  BY <1>2, <1>3, <1>5, Zenon DEF Supported
<1> QED
  BY <1>4, <1>5 DEF sorted

\* What is chosen for what the client left open is supported.
LEMMA DefaultsSupported ==
  ASSUME NEW c, IsCapable(c), ~c.probe_error, NEW format, NEW layout, NEW rate
  PROVE  Supported(c, Defaults(c, format, layout, rate))
<1> DEFINE chosen == Defaults(c, format, layout, rate)
<1>1. /\ c.formats \in Seq(STRING) /\ c.layouts \in Seq(Nat) /\ c.sample_rates \in Seq(Ranges)
      /\ c.formats # <<>> /\ c.layouts # <<>> /\ c.sample_rates # <<>>
  BY DEF IsCapable, Capability
<1>2. 1 \in DOMAIN c.formats /\ 1 \in DOMAIN c.layouts
  BY <1>1
<1>3. /\ chosen.format = IF format = None THEN default_of(c.formats, "float32") ELSE None
      /\ chosen.layout = IF layout = 0 THEN default_of(c.layouts, 2) ELSE 0
      /\ chosen.rate = IF rate = 0
                       THEN soundio_device_nearest_sample_rate(c.sample_rates, 3) ELSE 0
  BY DEF Defaults
<1> HIDE DEF chosen
<1>4. /\ supports(c.formats, default_of(c.formats, "float32"))
      /\ supports(c.layouts, default_of(c.layouts, 2))
  BY <1>2, Zenon DEF default_of, supports
<1>5. supports_sample_rate(c.sample_rates, soundio_device_nearest_sample_rate(c.sample_rates, 3))
  <2>1. 3 \in Nat
    OBVIOUS
  <2> QED
    BY <1>1, <2>1, NearestIsReference, Zenon
<1>6. Supported(c, chosen)
  BY <1>3, <1>4, <1>5, Zenon DEF Supported
<1> QED
  BY <1>6 DEF chosen

\* The device of a stream is in memory as long as the stream.
InUse ==
  \A s \in Streams : stream[s] # NoStream =>
    stream[s].device \in Devices /\ device[stream[s].device] # NoDevice

LEMMA CountedInUse == Counted => InUse
<1> SUFFICES ASSUME Counted, NEW s \in Streams, stream[s] # NoStream
             PROVE  stream[s].device \in Devices /\ device[stream[s].device] # NoDevice
  BY Zenon DEF InUse
<1> DEFINE d == stream[s].device
<1>1. d \in Devices
  BY Zenon DEF Counted, IsStream
<1>2. s \in Using(d)
  BY DEF Using
<1> HIDE DEF d
<1>3. Cardinality(Using(d)) # 0
  BY <1>1, <1>2, HoldersAre, FS_EmptySet
<1>4. Holders(d) > 0
  BY <1>1, <1>3, HoldersAre
<1>5. device[d] # NoDevice
  BY <1>1, <1>4, Zenon DEF Counted
<1> QED
  BY <1>1, <1>5 DEF d

LEMMA CountedInUseNext == Counted' => InUse'
BY CountedInUse, PTL

\* What a call may make of a device: it may leave it, free it, make it or keep
\* what it supports.
Becomes(v, w) ==
  \/ w = v
  \/ w = NoDevice
  \/ v = NoDevice /\ IsCapable(w.capabilities)
  \/ /\ IsCapable(w.capabilities)
     /\ \A chosen : Supported(v.capabilities, chosen) => Supported(w.capabilities, chosen)

\* A device that a scan made is as it was probed.
LEMMA ReplaceBecomes ==
  ASSUME NEW b, NEW new, NEW c \in Capabilities, Replace(b, new, c), NEW d \in Devices
  PROVE  Becomes(device[d], device'[d])
<1>1. d \in new => device[d] = NoDevice
  BY DEF Replace, Unused
<1>2. device'[d] = IF d \in new THEN [backend |-> b, capabilities |-> c]
                   ELSE IF d \in Listed /\ ref_count[d] = 1 THEN NoDevice ELSE device[d]
  BY DEF Replace
<1>3. IsCapable([backend |-> b, capabilities |-> c].capabilities)
  BY CapabilitiesAssumption DEF IsCapable
<1> QED
  BY <1>1, <1>2, <1>3, Zenon DEF Becomes

\* The layouts of one device are sorted.
LEMMA SortBecomes ==
  ASSUME Counted, Capable, NEW e \in Devices, SortChannelLayouts(e), NEW d \in Devices
  PROVE  Becomes(device[d], device'[d])
<1>1. PICK layouts \in SetToSeqs(ToSet(device[e].capabilities.layouts)) :
        device' = [device EXCEPT ![e].capabilities.layouts = layouts]
  BY Zenon DEF SortChannelLayouts
<1>2. d # e => device'[d] = device[d]
  BY <1>1 DEF Counted
<1>3. held[e] > 0 /\ ~device[e].capabilities.probe_error
  BY DEF SortChannelLayouts
<1>4. device[e] # NoDevice
  <2>1. Holders(e) > 0
    BY <1>3, HoldersAre
  <2> QED
    BY <2>1, Zenon DEF Counted
<1>5. IsDevice(device[e]) /\ IsCapable(device[e].capabilities)
  BY <1>4, Zenon DEF Counted, Capable
<1>6. device'[e].capabilities = [device[e].capabilities EXCEPT !.layouts = layouts]
  <2>1. device'[e] = [device[e] EXCEPT !.capabilities = [@ EXCEPT !.layouts = layouts]]
    BY <1>1 DEF Counted
  <2> QED
    BY <1>5, <2>1 DEF IsDevice
<1>7. /\ IsCapable(device'[e].capabilities)
      /\ \A chosen : Supported(device[e].capabilities, chosen)
                       => Supported(device'[e].capabilities, chosen)
  BY <1>3, <1>5, <1>6, SortedIsCapable, Zenon
<1> QED
  BY <1>2, <1>7, Zenon DEF Becomes

\* No call takes away from a device what it supports.
LEMMA DevicesBecome ==
  ASSUME Counted, Capable, [Next]_vars, NEW d \in Devices
  PROVE  Becomes(device[d], device'[d])
<1>1. CASE UNCHANGED device
  BY <1>1 DEF Becomes
<1>2. ASSUME NEW gone, Unref(gone) PROVE Becomes(device[d], device'[d])
  BY <1>2 DEF Unref, Becomes
<1>3. CASE Disconnect \/ Destroy \/ ConnectFails
  BY <1>2, <1>3, Zenon DEF Disconnect, Destroy, ConnectFails, soundio_disconnect
<1>4. CASE FlushEvents
  BY <1>4, ReplaceBecomes, Zenon DEF FlushEvents
<1>5. CASE InitSucceeds
  BY <1>1, <1>5, ReplaceBecomes, Zenon DEF InitSucceeds, devices
<1>6. ASSUME NEW err, InitFails(err) PROVE Becomes(device[d], device'[d])
  BY <1>1, <1>6, ReplaceBecomes, Zenon DEF InitFails, devices
<1>7. ASSUME NEW e \in Devices, SortChannelLayouts(e) PROVE Becomes(device[d], device'[d])
  BY <1>7, SortBecomes
<1>8. ASSUME NEW e, DeviceUnref(e) PROVE Becomes(device[d], device'[d])
  BY <1>2, <1>8, Zenon DEF DeviceUnref
<1>9. ASSUME NEW s, StreamDestroy(s) PROVE Becomes(device[d], device'[d])
  BY <1>2, <1>9, Zenon DEF StreamDestroy
<1> QED
  BY <1>1, <1>3, <1>4, <1>5, <1>6, <1>7, <1>8, <1>9, Zenon
     DEF Next, vars, devices, Create, Connect, GetDevice, DeviceRef, StreamCreate, StreamOpen

\* What a call may make of a stream: an open one stays as it is until it is
\* destroyed, and one that opens gets what its device supports.
LEMMA StreamsBecome ==
  ASSUME Counted, Capable, [Next]_vars, NEW s \in Streams, stream'[s].state = "open"
  PROVE  \/ stream'[s] = stream[s]
         \/ /\ UNCHANGED device
            /\ Supported(device[stream'[s].device].capabilities, stream'[s].defaults)
<1>1. CASE UNCHANGED stream
  BY <1>1
<1>2. ASSUME NEW t \in Streams, StreamDestroy(t) PROVE stream'[s] = stream[s]
  <2>1. stream' = [stream EXCEPT ![t] = NoStream]
    BY <1>2 DEF StreamDestroy
  <2> QED
    BY <2>1 DEF Counted, NoStream
<1>3. ASSUME NEW t \in Streams, NEW d, NEW aim, StreamCreate(t, d, aim)
      PROVE  stream'[s] = stream[s]
  <2>1. stream' = [stream EXCEPT ![t] = [state |-> "created", aim |-> aim, device |-> d]]
    BY <1>3 DEF StreamCreate
  <2> QED
    BY <2>1 DEF Counted
<1>4. ASSUME NEW t \in Streams, NEW format, NEW layout, NEW rate,
             StreamOpen(t, format, layout, rate), stream'[s] # stream[s]
      PROVE  /\ UNCHANGED device
             /\ Supported(device[stream'[s].device].capabilities, stream'[s].defaults)
  <2> DEFINE c == device[stream[t].device].capabilities
  <2>1. UNCHANGED device /\ stream[t].state = "created"
    BY <1>4 DEF StreamOpen, devices
  <2>2. \/ stream' = [stream EXCEPT ![t] = [state |-> "failed", aim |-> @.aim, device |-> @.device]]
        \/ /\ ~Refused(stream[t].aim, c, format, layout)
           /\ stream' = [stream EXCEPT ![t] = [state |-> "open", aim |-> @.aim, device |-> @.device,
                            backend |-> table, defaults |-> Defaults(c, format, layout, rate)]]
    BY <1>4, Zenon DEF StreamOpen
  <2> HIDE DEF c
  <2>3. s = t
    BY <1>4, <2>2 DEF Counted
  <2>4. /\ ~Refused(stream[t].aim, c, format, layout)
        /\ stream'[s].device = stream[t].device
        /\ stream'[s].defaults = Defaults(c, format, layout, rate)
    BY <2>2, <2>3 DEF Counted
  <2>5. IsCapable(c) /\ ~c.probe_error
    <3>1. stream[t] # NoStream
      BY <2>1 DEF NoStream
    <3>2. stream[t].device \in Devices /\ device[stream[t].device] # NoDevice
      BY <3>1, CountedInUse, Zenon DEF InUse
    <3>3. IsCapable(c)
      BY <3>2, Zenon DEF Capable, c
    <3>4. ~c.probe_error
      BY <2>4, Zenon DEF Refused
    <3> QED
      BY <3>3, <3>4
  <2>6. Supported(c, Defaults(c, format, layout, rate))
    BY <2>5, DefaultsSupported
  <2> QED
    BY <2>1, <2>4, <2>6, Zenon DEF c
<1> QED
  BY <1>1, <1>2, <1>3, <1>4, Zenon
     DEF Next, vars, Create, Disconnect, Destroy, FlushEvents, Connect, InitSucceeds, ConnectFails,
         InitFails, GetDevice, DeviceRef, DeviceUnref, SortChannelLayouts

LEMMA CapableStep == Counted /\ Capable /\ [Next]_vars => Capable'
<1> SUFFICES ASSUME Counted, Capable, [Next]_vars, NEW d \in Devices, device'[d] # NoDevice
             PROVE  IsCapable(device'[d].capabilities)
  BY Zenon DEF Capable
<1>1. Becomes(device[d], device'[d])
  BY DevicesBecome
<1> QED
  BY <1>1, Zenon DEF Becomes, Capable

\* The device of an open stream is kept in memory by the stream's reference, so
\* what it supports is not forgotten.
LEMMA ChosenStep == Counted /\ Counted' /\ Capable /\ Chosen /\ [Next]_vars => Chosen'
<1> SUFFICES ASSUME Counted, Counted', Capable, Chosen, [Next]_vars,
                    NEW s \in Streams, stream'[s].state = "open"
             PROVE  Supported(device'[stream'[s].device].capabilities, stream'[s].defaults)
  BY Zenon DEF Chosen
<1>1. CASE stream'[s] = stream[s]
  <2> DEFINE d == stream[s].device
  <2>1. stream[s] # NoStream /\ stream'[s] # NoStream
    BY <1>1 DEF NoStream
  <2>2. d \in Devices /\ device[d] # NoDevice /\ device'[d] # NoDevice
    BY <1>1, <2>1, CountedInUse, CountedInUseNext, Zenon DEF InUse
  <2>3. Supported(device[d].capabilities, stream[s].defaults)
    BY <1>1, Zenon DEF Chosen
  <2>4. Becomes(device[d], device'[d])
    BY <2>2, DevicesBecome
  <2> HIDE DEF d
  <2>5. Supported(device'[d].capabilities, stream[s].defaults)
    BY <2>2, <2>3, <2>4, Zenon DEF Becomes
  <2> QED
    BY <1>1, <2>5, Zenon DEF d
<1>2. CASE stream'[s] # stream[s]
  BY <1>2, StreamsBecome, Zenon
<1> QED
  BY <1>1, <1>2

\* What open chose for a client that asked for nothing is what the device
\* supports (soundio.h:501-510), for as long as the stream is open.
THEOREM DefaultsStaySupported == Spec => []DefaultsAreSupported
<1>1. Init => Tries /\ Counted /\ Capable /\ Chosen
  <2>1. Init => Tries /\ Counted
    BY InitCounted
  <2>2. Init => Capable /\ Chosen
    BY DEF Init, Capable, Chosen, NoStream
  <2> QED
    BY <2>1, <2>2
<1>2. Chosen => DefaultsAreSupported
  BY Zenon DEF Chosen, Supported, DefaultsAreSupported
<1> QED
  BY <1>1, <1>2, TriesStep, CountedStep, CapableStep, ChosenStep, PTL DEF Spec
=============================================================================
