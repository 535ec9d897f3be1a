# libsoundio: a TLA+ verification project

libsoundio is a C library that gives one interface to JACK, PulseAudio, ALSA,
CoreAudio, WASAPI and a dummy backend. Paths below are relative to the
repository's root. Everything here is translated from its source; line numbers
are in `PROJECT.json` ("map").

## 1. The system's parts

| part | state | operations | what is hard about it |
|---|---|---|---|
| ring buffer (`src/ring_buffer.c`) | two atomic offsets, memory mapped twice | write_ptr/advance, read_ptr/advance, fill_count, free_count, clear | lock-free between two threads; offsets wrap; a count is old when it is used |
| dummy streams (`src/dummy.c`) | ring buffer, allowance of the callback, abort/clear/pause flags, clock | open, start, pause, clear_buffer, begin/end write and read, destroy, the two thread loops | flags set by other threads at any point of the loop; counters reset at different places |
| PulseAudio connection (`src/pulseaudio.c`) | context, scan under way, lists of devices, connection error | init, callbacks, refresh_devices, flush/wait/wakeup/force_scan, destroy | a scan waits with the lock given up |
| ALSA device thread (`src/alsa.c`) | pending files, pipe, abort flag, lists of devices, error | device_thread_run, refresh_devices, flush/wait/wakeup/force_scan, init, destroy | two wake-up channels, edge-triggered file events, join |
| JACK connection (`src/jack.c`) | atomic refresh flag, shutdown flag, list of devices | callbacks, refresh, flush/wait/wakeup/force_scan, init, destroy | flag and scan outside of the mutex, scans that go stale |
| WASAPI device thread (`src/wasapi.c`) | scan request, abort flag, notification client, lists of devices, error | device_thread_run, refresh_devices, notifications, flush/wait/wakeup/force_scan, init, destroy | two mutexes, a scan any call of which may fail, callbacks from outside |
| ALSA streams | PCM, its poll descriptors and exit pipe, cached pause state, exit and clear flags | open, start, pause, clear, begin/end, destroy, the thread loops, xrun recovery | a PCM that changes state by itself, between any two calls |
| PulseAudio streams | stream, stream_ready, clear flag, the fragment being read | open, start, pause, clear, begin/end, destroy, callbacks | waits under the main loop's recursive lock; fragments read in parts |
| WASAPI streams | COM objects, mutex, conditions, event, flags, the packet being read | open, start, pause, clear, begin/end, destroy, the thread loops | a handshake by flags, two conditions and an event; a device that is lost |
| core (`src/soundio.c`) | current backend and its function table, list of devices, reference counts | connect (with fall-backs), disconnect, get/ref/unref, stream create/open/destroy, choice of parameters | lifetimes across failed connects, disconnect and the end of the context |
| JACK streams, CoreAudio, channel layouts, OS layer, atomics, lists | | | see "Not modelled" |

Interactions: the core calls a backend through its function table. Each backend
has a thread of its own (or a library's) that collects devices and leaves a
finished list in `ready_devices_info`; the client's thread takes it over as
`safe_devices_info` in `soundio_flush_events`, which is the only place where
`on_devices_change` and `on_backend_disconnect` are called.
`soundio_wait_events` is two flushes, the second of which waits for a signal.
`soundio_wakeup` and `soundio_force_device_scan` come from any thread. Streams
run the client's callback in a thread of the backend.

What makes the parts correct: items come out of the ring buffer once, in order
and unaltered; a stream never offers more than there is, never runs ahead of
time, and never outlives its memory; no change of devices and no request for a
scan is lost; a lost connection is reported once, and finally; no call waits for
ever. `PROJECT.json` lists, under "hazards", the lines where each of these may
go wrong, with the properties that watch them.

## 2. Modules and how they correspond to the code

* **BoundedFifo** - what `soundio.h` promises of a ring buffer: put, get and
  clear of a bounded queue, as whole calls.
* **RingBuffer** - the code. One step per atomic access: `fill_count` is
  `LoadReadOffset` then `LoadWriteOffset`, an advance is a fetch-and-add followed
  by the `fill_count` of its assertion, `clear` is `ClearLoad` then `ClearStore`.
  Copying is a step between the count and the advance. Offsets are numbers
  modulo `2 * HalfRange` (`unsigned long`); the count is their difference as a
  signed number. The mirrored memory is modelled by what it gives (`Cell`).
  `ConcurrentClear` says whether a clear may overlap the reader; the library's
  one caller never does that. `RefinesFifo` maps the items between the offsets
  to the queue.
* **RingBufferProofs**, **JackEventsProofs**, **SoundIoCoreProofs**,
  **DummyStreamProofs**, **AlsaStreamProofs**, **PulseStreamProofs**,
  **WasapiStreamProofs**, **DeviceListProofs** - the theorems of section 5. The
  last is about three modules: it extends `PulseEvents` and instantiates
  `AlsaDevices` and `WasapiDevices` beside it.
* **DeviceEvents** - what the client of a connection may rely on about its
  devices: its list is replaced, and the backend's end reported, only while it
  connects, flushes or waits; no part of a list is older than any part of the one
  before; the end is reported at most once and no list comes after it.
  `ShowsInOrder` of `JackEvents` and of `PulseEvents` maps the place of the
  client's thread (`Place`) and the versions in `safe_devices_info` (`Shown`) to
  it. ALSA's and WASAPI's backends promise less: a list that was ready when the
  device thread failed is handed on at the flush after the report
  (`alsa.c:946-955`, `wasapi.c:1145-1153`).
* **DummyStream** - one stream, output or input, from open to destroy. The
  thread's loop is cut at its accesses to the three atomic flags, at the wait
  and at the callback; the client's pause, clear and destroy interleave with it.
  Time is counted in frames: `elapsed` since `start_time`, `since` since the
  loop's `now`. The ring buffer appears as its fill, which `RingBuffer` justifies.
* **PulseEvents**, **AlsaDevices**, **JackEvents**, **WasapiDevices** -
  connection, scans and events of one backend each. They have the same client
  (`cpc`, `call`, `signalled`) since the four `my_flush_events` have the same
  purpose, but not the same code: PulseAudio scans in the client's thread with a
  wait in the middle, ALSA and WASAPI scan in threads of their own, JACK scans in
  the client's thread without the lock. A step is what a thread does while it
  holds the lock, or up to its next access to something shared without one (an
  atomic flag, the pipe, the inotify queue). A list of devices is the version, or
  the set, of devices it was made from; in `WasapiDevices` it is a sequence with
  the index of the default device, which is built up while endpoints are left
  out. Names and formats are left out, since no property depends on them.
  Servers, Windows and the kernel are external and appear as the changes,
  replies, notifications and failures the code has to cope with.
* **SoundIoCore** - a context and all that hangs on it. The function table of the
  context is `table`, so that a stream destroyed after `soundio_disconnect`, or
  under another backend, does what the code does: nothing, or the wrong thing. A
  backend is present by what its init and its flushes do to the context;
  `soundio_connect` goes through `available_backends` in order. `leaked` and
  `orphaned` record resources that nothing can release any more.
* **StreamParams** - the pure functions: nearest sample rate, support tests,
  defaults, and what `compare_layouts` really compares. `NearestRate` is the
  reference definition. **MCSoundIoCore** gives the devices of the instance.
* **AlsaStream** - a stream, its thread, its client and the PCM. The switch on
  `snd_pcm_state` (`Dispatch`) and what is done about its answer are separate
  steps, since the PCM moves on in between: it plays or captures frames, runs dry
  or full, is suspended, wakes, or is unplugged. Frames are counted, not named.
  Both kinds of access (read/write, mmap) are there; so is the use of
  uninitialised areas after a failed `snd_pcm_mmap_begin` (`Read`, outcome
  undefined).
* **PulseStream** - a stream under the main loop's recursive lock (`owner`,
  `depth`). The main loop holds it in every callback; waiting gives up one hold.
  `outstream_start_pa` runs the client's callback on the client's own thread.
  A recorded fragment has a length and may be a hole.
* **WasapiStream** - a render or capture stream, shared or raw. The thread's loop
  is cut at its accesses to flags, mutex and event. A timed wait may always end,
  so only the untimed ones (for start, for the event, for open) depend on a
  signal. Calls on a device that is lost fail.

The streams are modelled one at a time: streams share no state but the
connection's lock. `DummyStream` uses the ring buffer, and `SoundIoCore` the
backends, by what their own modules show of them.

Errors that lead to the same control flow are one error. Failures of `init`
are told apart only in `SoundIoCore`, where they matter. `on_events_signal` is
the client's own and changes nothing here. A definition that ends in
`_something` and is preceded by "Mutant:" is a deliberate mistake with which the
properties were tried out ("mutants" in `PROJECT.json`); no specification uses it.

## 3. Runs

| run | instance | shows |
|---|---|---|
| `ring_buffer` | capacity 3, offsets modulo 12, two values | counts safe, assertions hold, implements `BoundedFifo` |
| `dummy_stream` | 7 bytes, 2 per frame, 5 frames of time | whole frames, real allowances, never ahead of time, thread owns its stream, clear takes effect |
| `pulse_events` | two changes of devices | no lost scan, only complete scans are shown, the client sees the devices; implements `DeviceEvents` |
| `pulse_disconnect` | no changes | violation: a connection lost at the end of a scan is never reported |
| `alsa_devices` | two files, three changes, files closed before they go | no lost change or request, the client sees the devices |
| `alsa_disconnect` | no changes | violation: disconnect waits for ever |
| `jack_events` | two changes, one failed scan | no lost refresh, disconnect reported once and finally, the client sees the devices; implements `DeviceEvents` |
| `soundio_core` | three backends, two devices, one stream, two references each | counts equal holders, nothing leaks but the two known cases, defaults are supported, nearest rate equals its reference |
| `alsa_stream` | buffer of 4 frames, period of 2, one suspension | lifetimes, writes fit, what is known of a pause, destroy ends, recovery, clear |
| `pulse_stream` | fragments of up to 3 frames, 5 in all, lock held up to 3 times | the lock is where it belongs, each frame is read once, waits end |
| `wasapi_stream` | packets of up to 3 frames | lifetimes, whole packets, open and destroy return, pause takes effect |
| `wasapi_devices` | two endpoints, one change | the default device is right, notifications find their context, disconnect returns, the client sees the devices |

The type invariant of a module is checked as the first conjunct of its first
invariant.

Why the bounds are enough. Ring buffer: capacity 3 has every case of an
empty, partly filled and full buffer, of accesses that straddle the end of the
memory, and of either offset wrapping before the other; the theorems remove the
bound. `2 * HalfRange` is a multiple of the capacity there, as
when the capacity is a power of two; otherwise the address jumps when an offset
wraps (after 2^w bytes) and `RefinesFifo` fails, for instance with capacity 3
and offsets modulo 8. Dummy stream: a capacity that is no multiple of the frame
makes rounding matter, and five frames of time overrun three frames of buffer.
Events: two changes put one before and one during a scan; three changes of
`/dev/snd` interleave the coming of one file with the going of another; with
WASAPI one change beside forced scans, which come at any time, does the same, and
two endpoints let the default one be listed first, second or not at all. Core:
two devices let one leave the list while the other comes, one with a stream on
it, one without; JACK, ALSA and dummy are the three kinds of init (lists devices,
may leak, leaves a list behind). ALSA streams: two periods make a buffer that is
full, half full and empty, and an xrun can come after a suspension as well as
before it. PulseAudio streams: five frames make a fragment that is read in parts
while the next is there. WASAPI streams: nothing but the packet is bounded.

Deadlock is checked for the ring buffer, PulseAudio's and ALSA's devices. The
other runs allow an end: a stream ends when it is destroyed, a context when it is
freed; JACK's server may end for good with the client disconnected; a stray
notification of Windows ends the program.

Fairness. Threads that can take a step take one (the schedulers are preemptive
and no lock is held for ever in a model step); a wait that was signalled ends;
PulseAudio's and JACK's threads deliver replies and notifications; the client's
callback ends what it began and returns, as the API demands. In the liveness
properties about what a client sees, the client goes on calling
`soundio_flush_events`; the properties assume it is not held up for ever in
`soundio_wait_events`, because of the lost wakeup described below.
Nothing obliges devices to change, servers to fail, files to be closed, or a
client to pause, clear, wait or disconnect. `poll` returns when there is
something to read; it may be interrupted or run out of memory any number of
times in between, but not for ever (strong fairness of `PollReady`).
Streams: an ALSA thread is not late for an xrun for ever - while the PCM runs it
now and then gets through a round of its loop (strong fairness of the three steps
of a round); a running PCM moves frames and a suspended system wakes. A
PulseAudio server answers, unless the stream fails. Of a WASAPI device nothing is
asked, not even that it sets its event; the code does not need it.

## 4. What the code does otherwise than it says

Shown by a run of its own:

1. `pulseaudio.c:464`: the result of a scan overwrites a connection error that
   came during it, so `on_backend_disconnect` is not called.
2. `alsa.c:903`: the device thread may drain the byte with which `destroy_alsa`
   wakes it after it has tested the abort flag; it then sleeps in `poll` while
   `destroy_alsa` joins it. A disconnect right after a connect or a forced scan
   is enough.

Shown by the modules, with the definition named as the property of a
configuration; no run is kept for them:

3. `ring_buffer.c:81`: clear is safe only if the reader is at rest, not just
   when "called by the writer" (`soundio.h:1204`): `FillCountAsserts` of
   `RingBuffer` with `ConcurrentClear = TRUE`.
4. `pulseaudio.c:460` (and `alsa.c:943`, `jack.c:306`, `wasapi.c:1142`,
   `dummy.c:148`): a wakeup between the two flushes of `soundio_wait_events` is
   lost (`soundio.h:762`): `WakeupEndsWait` of `PulseEvents`.
5. `alsa.c:879`: a control file that goes before it was closed is awaited for
   ever, and no later removal is acted on (`soundio.h:766`): `ClientSeesDevices`
   of `AlsaDevices` with one file, `EarlyDelete = TRUE` and four changes.
6. `soundio.c:736`: sorting layouts does not order them by channel count
   (`soundio.h:823`), since the comparison takes an array of layouts for one of
   pointers: `SortsByChannelCount` of `SoundIoCore`.
7. `pulseaudio.c:986`: `begin_read` grants more than was asked for when it meets
   a hole (`soundio.h:1112`): `GrantsAtMostRequested` of `PulseStream`.

Exceptions that the checked properties name, each the conclusion of a behaviour
of the model: a paused ALSA capture stream cannot be destroyed (`alsa.c:1571`); a
cached `is_paused` is wrong after the PCM was prepared anew (`alsa.c:1539`); the
exit pipe of an ALSA playback stream is never closed (`alsa.c:990`); ALSA's init
leaks when `pipe2` fails (`alsa.c:1916`); a stream destroyed after its connection
keeps its backend's part (`soundio.c:529`); a PulseAudio stream that fails while
it is opened or started is waited for without end (`pulseaudio.c:717`, 954); a
refused pause keeps or gives up the main loop's lock (`pulseaudio.c:1040`, 812);
a WASAPI stream that was never started leaks its COM objects (`wasapi.c:1551`);
a failed scan leaves WASAPI's notification client registered (`wasapi.c:1114`).

Seen while reading, and outside of what the models tell apart:
`soundio_instream_open` refuses the invalid format that is to stand for the
default (`soundio.c:600`, against `soundio.h:604`); the device counts assert
what they are to answer with -1 (`soundio.c:295`, `soundio.h:860`);
`soundio_outstream_set_volume` calls a function most backends do not set
(`soundio.c:568`); `deinit_refresh_devices` of WASAPI releases devices that their
list releases too (`wasapi.c:483-486`); a failed mapping of mirrored memory leaves
the capacity unset (`os.c:723`).

## 5. Proofs

Every invariant that a run checks is also a theorem, for every value of the
constants, and so are the refinements of `BoundedFifo` and `DeviceEvents`. The
assumptions are those of the modules (sizes are positive numbers, a capacity is
smaller than half the range of the offsets, what stands for NULL is not a device,
a device that could be probed has a format, a layout and a range of rates, and a
range's minimum is not above its maximum) unless a theorem states more.

An invariant is seldom inductive as it stands. Each proof module begins with the
one that is, in named parts: *flags* and *places* (the type invariant, a variable
at a time), *lifetimes* or relations between the program counters of the two
sides, and the numbers or lists. Each part has a lemma with one step per action.

**Ring buffer.** For every capacity, width of the offsets and set of values, and
every interleaving in which no clear overlaps the reader: `TypeCorrect`,
`AssertsNeverFail` and `CountsStaySafe`. The bounds on the counts are not
inductive. A count is the difference of a `write_offset` loaded now and a
`read_offset` loaded earlier, so `IInv` also says what a load in progress still
tells: for the writer, that the distance from the loaded offset is at most the
capacity and at least the present fill (the reader can only have advanced since);
for the reader, that the loaded offset is the present one (only it moves it); for
a clear, that the reader is idle. With a load in the other order, or a clear
beside a reader, this fails, which is item 3 of section 4. The arithmetic is in
lemmas of its own: how the distance changes when either offset advances and
wraps, and that a distance within the capacity survives the conversion to a
signed int.

`BufferIsAQueue` is the refinement: every step is a call on the queue of
`BoundedFifo` or leaves it alone. It adds `ChunksAreCopied`, what a thread has
copied stays so until it advances, and lemmas about cells: two offsets less than
a capacity apart are different cells, so that a copy lies behind the contents; and
a cell is found again when an offset wraps, which needs the capacity to divide
the range of the offsets. That is a hypothesis of the theorem: it holds for
powers of two, and without it the refinement is false (section 3).

**JACK.** `EndIsFinal` rests on `ReportsAreOrdered`: the end is noted before it is
reported and only after it came, and a scan finds ports only before the end, so
one that has found them began before any report. `ChangesAreNotLost` is inductive
but for connecting, which is why `InitLeavesRefreshDue` is added: nothing sets the
refresh flag while `soundio_jack_init` scans, so a change that scan misses is
still due at the first flush. `TypesHold` is the type invariant. `JackShowsInOrder`
is the refinement of `DeviceEvents`: every action is a call that begins, goes on or
returns, a change, a list, a report or a disconnect. That a list is not older than
the one before needs `ScansAreLater`: versions only grow, so the names a scan goes
through were asked for after the list in the client's hands was made, also when the
scan before was given up half way; that it does not come after the report needs
`ReportsAreOrdered`.

**Core.** `CountsAreRight` for every finite set of streams, every set of devices
and every list of backends: the count is the number of holders, a cardinality that
changes by one with each stream created or destroyed, and a device that is
replaced in the list is freed only when nobody else holds it. `Counted` says so
also in the middle of `soundio_connect`, where `Tries` says which backend is being
tried. `NothingIsLost` needs `Belongs`: whose data and whose streams there are
while a context has a backend, has none, or has another one.

`NearestIsReference` is about the loop of `soundio_device_nearest_sample_rate`, a
recursive function of the number of rounds, for any number of ranges. It needs
induction, and the library's theorems of induction, which take a predicate, are
out of the provers' reach; but a set of numbers will do in its place: a set that
is not empty has a least number (`LeastNumber`, from the well-foundedness of `<`),
so one that has 0 and with every number the next has all (`Numbers`). Applied to
the set of rounds up to which the recursion has a solution (`LoopEnds`), and then
to the rounds after which `best_rate` is the nearest rate of the ranges so far
(`IsNearest`, kept by `RoundKeepsNearest`), this gives that the result is
supported, is the lowest supported rate not below the one wanted or, without any,
the highest, which is the reference's `CHOOSE`. `RatesRoundUp` is the property the
run checks.

`DefaultsStaySupported` adds that a stream's device is in memory as long as the
stream (`InUse`, which follows from the counts), that devices in memory are as
they were probed (`Capable`), and that what was chosen at open is still supported
(`Chosen`). No call takes away from a device what it supports (`Becomes`): a scan
makes new devices instead of changing old ones, and sorting loses no layout
(`SortingKeeps`: an injection from numbers to the set of layouts, of which there
are as many, hits them all).

**Streams.** `StreamOutlivesThread` of dummy, ALSA and WASAPI streams rests on
`Lifetimes`: in which phases of the client's calls there may be a thread, and what
is held then. ALSA's `WritesAlwaysFit` needs that the room granted at the look at
the PCM is still there at the write (only the writer fills it, and a PCM that was
prepared anew is empty), and that a running PCM is neither dry nor full;
`PauseStateIsKnown` that a suspended PCM remembers whether it was paused. WASAPI's
`PacketsWhole` relates the packet that the device lent to what is left of it. The
dummy streams' `AllowancesAreReal` and `ClockIsNeverPassed` need that buffer and
clock are whole between callbacks too: the time the loop noted is not before the
clock's start, to which pausing sets it. PulseAudio's `LockKeepsCallbacksApart`
needs to know who holds the recursive lock and how often in every combination of
places (`LockIsKnown`); `EveryFrameIsReadOnce` that the fragments lie one behind
the other from the last frame dropped to the last recorded (`FragmentsAreQueued`,
a function from fragments to positions instead of a sum) and what a grant in
progress is a part of (`Grants`).

**Devices.** `PulseForgetsNoChange` adds that a scan begins only while there is no
error, that the context connects only during init and with a scan queued, and that
a scan has seen as many versions as it has replies; `PulseShowsWholeScans` follows
from the last. `PulseShowsInOrder` refines `DeviceEvents` as JACK's does; a scan is
begun only while no error was reported (`PulseReports`), which is what makes the
report final although a scan's result overwrites the error (section 4, item 1). `AlsaForgetsNoChange` is not inductive with "an event is unread":
reading that a file was closed asks for nothing if no file is awaited. The
invariant says that an event of a coming or going is unread, and that a request
for a scan does not count any more while its list waits for the mutex, as
publishing clears it. `WasapiListsItsDefault` says of the list being made what the
property says of lists handed on; `WasapiNotificationsFindContext` that there is
a thread exactly while there is a connection, that a thread that is gone is not
registered, and that only who is registered, or stale, is notified.

Only model-checked is liveness, which is out of the prover's reach:
`ClientSeesDevices`, `ForcedScanIsMade`, `DisconnectCompletes`,
`DisconnectIsReported`, `ClearIsHonoured`, `DestroyCompletes`, `KeepsCalling`,
`WaitsEnd`, `CallsComplete`, `PauseTakesEffect`.

## 6. Plan

Done: every module above, and the theorems of section 5. What remains worth doing:

1. For the ring buffer, what is left of the refinement when the capacity does not
   divide the range: the queue up to the first wrap.
2. A weaker promise than `DeviceEvents` that ALSA's and WASAPI's backends keep,
   with one list after the report.
3. Action properties that follow from the invariants, such as that a count of
   references never rises again from zero.

## 7. Not modelled

* JACK streams: their callbacks run in JACK's process thread and share nothing
  with the client's thread but the ports; there is no flag, wait or thread of the
  library's own to interleave, and the order of events is libjack's.
* CoreAudio: its device thread has the shape of WASAPI's and its streams that of
  JACK's, on top of a run loop and audio units whose rules are not in the
  repository.
* Latencies, volume, names, formats and channel maps of devices, and the tables
  of channel layouts: they change no state that a property depends on.
* The dummy backend's wait (a condition variable alone) and its device list,
  which is fixed; the latter is present in `SoundIoCore`.
* The OS layer but for what its threads, conditions and mirrored memory give.
* The weak JACK loader (third-party), examples and tests.
