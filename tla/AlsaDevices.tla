---------------------------- MODULE AlsaDevices ----------------------------
(***************************************************************************)
(* src/alsa.c: the thread that watches /dev/snd and scans the devices, and *)
(* the client's side of it (flush_events, wait_events, wakeup,             *)
(* force_device_scan, disconnect).                                         *)
(*                                                                         *)
(* The two sides share a mutex, a condition variable, an abort flag and a  *)
(* pipe.  A step is what a thread does while it holds the mutex, or up to  *)
(* its next access to the flag, the pipe, or the inotify descriptor.       *)
(*                                                                         *)
(* The kernel is external: control files that come, are opened and closed  *)
(* by other programs, and go, and the inotify events that say so, in order.*)
(* Only events that pass the filter of lines 855-863 are of interest.      *)
(***************************************************************************)
EXTENDS Integers, Sequences

CONSTANTS Files,        \* the control files /dev/snd may hold
          EarlyDelete,  \* may a file go before anyone has opened and closed it?
          MaxChanges    \* bound: how often /dev/snd changes

ASSUME DevSndAssumption ==
  /\ EarlyDelete \in BOOLEAN
  /\ MaxChanges \in Nat
  /\ "NULL" \notin Files

VARIABLES present, settled,  \* the files there are, those closed since they came
          changes,           \* how many changes there were
          events,            \* inotify events not yet read
          pipe,              \* notify_pipe_fd holds something
          abort_flag,
          have_devices_flag, emitted_shutdown_cb,
          shutdown_err,      \* there is an error, whichever
          ready_devices_info, safe_devices_info,
          pending_files,     \* how often each file is in the list
          dpc,               \* where the device thread is
          revents,           \* what its last poll reported
          got_rescan_event,
          devices_info,      \* what its scan found
          cpc, call,         \* where the client's thread is, and in which call
          signalled          \* the condition variable was signalled to it

kernel == <<present, settled, changes, events>>
status == <<have_devices_flag, shutdown_err, emitted_shutdown_cb>>
infos == <<ready_devices_info, safe_devices_info>>
thread == <<pending_files, dpc, revents, got_rescan_event, devices_info>>
vars == <<kernel, pipe, abort_flag, status, infos, thread, cpc, call, signalled>>

\* A SoundIoDevicesInfo is the set of files it was made from; NULL is none.
NoInfo == {"NULL"}

Connected == cpc # "off"
Watching == dpc \notin {"none", "done"}
NonePending == \A f \in Files : pending_files[f] = 0

\* A zeroed backend_data, as soundio_disconnect leaves it.
Init ==
  /\ present \in SUBSET Files /\ settled = present
  /\ changes = 0
  /\ events = <<>> /\ pipe = FALSE /\ abort_flag = FALSE
  /\ have_devices_flag = FALSE /\ shutdown_err = FALSE /\ emitted_shutdown_cb = FALSE
  /\ ready_devices_info = NoInfo /\ safe_devices_info = NoInfo
  /\ pending_files = [f \in Files |-> 0]
  /\ dpc = "none" /\ revents = {} /\ got_rescan_event = FALSE /\ devices_info = NoInfo
  /\ cpc = "off" /\ call = "none" /\ signalled = FALSE

\* soundio_os_cond_signal: wakes who waits now, and is forgotten otherwise.
Signal == signalled' = (signalled \/ cpc = "wait")

-----------------------------------------------------------------------------
(* The kernel.                                                             *)

Notify(kind, f) ==
  /\ changes < MaxChanges
  /\ changes' = changes + 1
  /\ events' = IF Connected THEN Append(events, <<kind, f>>) ELSE events
  /\ UNCHANGED <<pipe, abort_flag, status, infos, thread, cpc, call, signalled>>

FileCreated(f) ==
  /\ f \notin present
  /\ present' = present \union {f}
  /\ UNCHANGED settled
  /\ Notify("IN_CREATE", f)

FileClosed(f) ==
  /\ f \in present
  /\ settled' = settled \union {f}
  /\ UNCHANGED present
  /\ Notify("IN_CLOSE_WRITE", f)

FileDeleted(f) ==
  /\ f \in present
  /\ EarlyDelete \/ f \in settled
  /\ present' = present \ {f}
  /\ settled' = settled \ {f}
  /\ Notify("IN_DELETE", f)

-----------------------------------------------------------------------------
(* The device thread.                                                      *)

\* poll(fds, 2, -1) returns with what there is to read.
PollReady ==
  /\ dpc = "poll"
  /\ events # <<>> \/ pipe
  /\ revents' = (IF events # <<>> THEN {"inotify"} ELSE {})
                  \union (IF pipe THEN {"pipe"} ELSE {})
  /\ dpc' = "test"
  /\ UNCHANGED <<kernel, pipe, abort_flag, status, infos, pending_files, got_rescan_event,
                 devices_info, cpc, call, signalled>>

\* poll is interrupted, or there is no memory for it.
PollFails(errno) ==
  /\ dpc = "poll"
  /\ revents' = {errno}
  /\ dpc' = "test"
  /\ UNCHANGED <<kernel, pipe, abort_flag, status, infos, pending_files, got_rescan_event,
                 devices_info, cpc, call, signalled>>

\* shutdown_backend, after which the thread returns.
Shutdown ==
  /\ shutdown_err' = TRUE
  /\ Signal
  /\ dpc' = "done"

\* The abort flag is tested and set before the result of poll is looked at.
TestAbort ==
  /\ dpc = "test"
  /\ abort_flag' = TRUE
  /\ IF ~abort_flag
     THEN dpc' = "done" /\ UNCHANGED <<shutdown_err, signalled>>
     ELSE IF "ENOMEM" \in revents
     THEN Shutdown
     ELSE /\ dpc' = IF "EINTR" \in revents THEN "poll" ELSE "inotify"
          /\ UNCHANGED <<shutdown_err, signalled>>
  /\ UNCHANGED <<kernel, pipe, have_devices_flag, emitted_shutdown_cb, infos, pending_files,
                 revents, got_rescan_event, devices_info, cpc, call>>

\* The body of the loop over the events, for IN_CREATE: a file is awaited, or
\* there is no memory to note it.
AwaitFile(f) ==
  /\ UNCHANGED got_rescan_event
  /\ \/ /\ pending_files' = [pending_files EXCEPT ![f] = @ + 1]
        /\ UNCHANGED <<dpc, shutdown_err, signalled>>
     \/ /\ Shutdown
        /\ UNCHANGED pending_files

\* Mutant: takes the file off the list and does not ask for a scan.
CloseFile_only_removes(f) ==
  /\ pending_files' = [pending_files EXCEPT ![f] = IF @ > 0 THEN @ - 1 ELSE 0]
  /\ UNCHANGED <<got_rescan_event, dpc, shutdown_err, signalled>>

\* The same for IN_CLOSE_WRITE: the last file awaited brings a scan.
CloseFile(f) ==
  /\ pending_files' = [pending_files EXCEPT ![f] = IF @ > 0 THEN @ - 1 ELSE 0]
  /\ got_rescan_event' =
       (\/ got_rescan_event
        \/ pending_files[f] = 1 /\ \A g \in Files \ {f} : pending_files[g] = 0)
  /\ UNCHANGED <<dpc, shutdown_err, signalled>>

\* Mutant: only files that come are of interest.
DeleteFile_never(f) ==
  UNCHANGED <<got_rescan_event, pending_files, dpc, shutdown_err, signalled>>

\* The same for IN_DELETE: of no effect while files are awaited.
DeleteFile(f) ==
  /\ got_rescan_event' = (got_rescan_event \/ NonePending)
  /\ UNCHANGED <<pending_files, dpc, shutdown_err, signalled>>

\* Events are read until there are none.
ReadEvent ==
  /\ dpc = "inotify"
  /\ "inotify" \in revents
  /\ events # <<>>
  /\ events' = Tail(events)
  /\ LET kind == Head(events)[1]
         f == Head(events)[2]
     IN  \/ kind = "IN_CREATE" /\ AwaitFile(f)
         \/ kind = "IN_CLOSE_WRITE" /\ CloseFile(f)
         \/ kind = "IN_DELETE" /\ DeleteFile(f)
  /\ UNCHANGED <<present, settled, changes, pipe, abort_flag, have_devices_flag,
                 emitted_shutdown_cb, infos, revents, devices_info, cpc, call>>

\* Mutant: empties the pipe even if poll did not report it.
ReadPipe_always ==
  /\ dpc = "inotify"
  /\ "inotify" \in revents => events = <<>>
  /\ got_rescan_event' = (got_rescan_event \/ "pipe" \in revents)
  /\ pipe' = FALSE
  /\ dpc' = IF got_rescan_event' THEN "scan" ELSE "poll"
  /\ revents' = {}
  /\ UNCHANGED <<kernel, abort_flag, status, infos, pending_files, devices_info,
                 cpc, call, signalled>>

\* What is in the pipe, if poll reported it, asks for a scan.
ReadPipe ==
  /\ dpc = "inotify"
  /\ "inotify" \in revents => events = <<>>
  /\ got_rescan_event' = (got_rescan_event \/ "pipe" \in revents)
  /\ pipe' = (pipe /\ "pipe" \notin revents)
  /\ dpc' = IF got_rescan_event' THEN "scan" ELSE "poll"
  /\ revents' = {}
  /\ UNCHANGED <<kernel, abort_flag, status, infos, pending_files, devices_info,
                 cpc, call, signalled>>

\* refresh_devices looks at the devices; it may fail at any of its calls.
Scan ==
  /\ dpc = "scan"
  /\ \/ dpc' = "publish" /\ devices_info' = present /\ UNCHANGED <<shutdown_err, signalled>>
     \/ Shutdown /\ UNCHANGED devices_info
  /\ UNCHANGED <<kernel, pipe, abort_flag, have_devices_flag, emitted_shutdown_cb, infos,
                 pending_files, revents, got_rescan_event, cpc, call>>

\* refresh_devices takes the mutex and hands over what it found.
PublishScan ==
  /\ dpc = "publish"
  /\ dpc' = "poll"
  /\ ready_devices_info' = devices_info
  /\ devices_info' = NoInfo
  /\ have_devices_flag' = TRUE
  /\ got_rescan_event' = FALSE
  /\ Signal
  /\ UNCHANGED <<kernel, pipe, abort_flag, shutdown_err, emitted_shutdown_cb, safe_devices_info,
                 pending_files, revents, cpc, call>>

-----------------------------------------------------------------------------
(* The client's thread.                                                    *)

\* soundio_alsa_init: the pipe is written before the thread begins.  When init
\* fails there is no connection.
Connect ==
  /\ cpc = "off"
  /\ cpc' = "idle"
  /\ abort_flag' = TRUE
  /\ pipe' = TRUE
  /\ dpc' = "poll"
  /\ UNCHANGED <<kernel, status, infos, pending_files, revents, got_rescan_event,
                 devices_info, call, signalled>>

\* soundio_flush_events or soundio_wait_events is called.
Call(kind) ==
  /\ cpc = "idle"
  /\ cpc' = "flush"
  /\ call' = kind
  /\ UNCHANGED <<kernel, pipe, abort_flag, status, infos, thread, signalled>>

\* my_flush_events returns; wait_events calls it twice.
Return ==
  IF call = "wait_events 1"
  THEN cpc' = "between" /\ call' = "wait_events 2"
  ELSE cpc' = "idle" /\ call' = "none"

\* my_flush_events after its wait: an error not yet reported goes first.
FlushBody ==
  IF shutdown_err /\ ~emitted_shutdown_cb
  THEN emitted_shutdown_cb' = TRUE /\ cpc' = "shutdown" /\ UNCHANGED <<infos, call>>
  ELSE /\ UNCHANGED emitted_shutdown_cb
       /\ IF ready_devices_info # NoInfo
          THEN /\ safe_devices_info' = ready_devices_info /\ ready_devices_info' = NoInfo
               /\ cpc' = "change" /\ UNCHANGED call
          ELSE Return /\ UNCHANGED infos

\* The loop around the wait: there are devices, or there never will be.
MayFlush == have_devices_flag \/ shutdown_err

\* my_flush_events takes the mutex, and waits if it was told to or has to.
Flush ==
  /\ cpc \in {"flush", "between"}
  /\ IF cpc = "flush" /\ MayFlush
     THEN FlushBody
     ELSE cpc' = "wait" /\ UNCHANGED <<emitted_shutdown_cb, infos, call>>
  /\ signalled' = FALSE
  /\ UNCHANGED <<kernel, pipe, abort_flag, have_devices_flag, shutdown_err, thread>>

\* The wait is over: a signal came, or for no reason.
Woken ==
  /\ cpc = "wait"
  /\ signalled' = FALSE
  /\ IF MayFlush THEN FlushBody ELSE UNCHANGED <<emitted_shutdown_cb, infos, cpc, call>>
  /\ UNCHANGED <<kernel, pipe, abort_flag, have_devices_flag, shutdown_err, thread>>

OnBackendDisconnect ==
  /\ cpc = "shutdown"
  /\ Return
  /\ UNCHANGED <<kernel, pipe, abort_flag, status, infos, thread, signalled>>

OnDevicesChange ==
  /\ cpc = "change"
  /\ Return
  /\ UNCHANGED <<kernel, pipe, abort_flag, status, infos, thread, signalled>>

\* destroy_alsa begins: the flag is cleared.
AbortThread ==
  /\ cpc = "idle"
  /\ cpc' = "waking"
  /\ abort_flag' = FALSE
  /\ UNCHANGED <<kernel, pipe, status, infos, thread, call, signalled>>

\* wakeup_device_poll, so that the thread sees the flag.
WakeThread ==
  /\ cpc = "waking"
  /\ cpc' = "joining"
  /\ pipe' = TRUE
  /\ UNCHANGED <<kernel, abort_flag, status, infos, thread, call, signalled>>

\* The thread has returned; the rest of destroy_alsa and soundio_disconnect.
Join ==
  /\ cpc = "joining"
  /\ dpc = "done"
  /\ events' = <<>> /\ pipe' = FALSE /\ abort_flag' = FALSE
  /\ have_devices_flag' = FALSE /\ shutdown_err' = FALSE /\ emitted_shutdown_cb' = FALSE
  /\ ready_devices_info' = NoInfo /\ safe_devices_info' = NoInfo
  /\ pending_files' = [f \in Files |-> 0]
  /\ dpc' = "none" /\ revents' = {} /\ got_rescan_event' = FALSE /\ devices_info' = NoInfo
  /\ cpc' = "off" /\ call' = "none" /\ signalled' = FALSE
  /\ UNCHANGED <<present, settled, changes>>

-----------------------------------------------------------------------------
(* Any thread.                                                             *)

Wakeup ==
  /\ cpc \notin {"off", "waking", "joining"}
  /\ Signal
  /\ UNCHANGED <<kernel, pipe, abort_flag, status, infos, thread, cpc, call>>

ForceDeviceScan ==
  /\ cpc \notin {"off", "waking", "joining"}
  /\ pipe' = TRUE
  /\ UNCHANGED <<kernel, abort_flag, status, infos, thread, cpc, call, signalled>>

-----------------------------------------------------------------------------
KernelStep == \E f \in Files : FileCreated(f) \/ FileClosed(f) \/ FileDeleted(f)

ThreadStep ==
  \/ PollReady \/ \E errno \in {"EINTR", "ENOMEM"} : PollFails(errno)
  \/ TestAbort \/ ReadEvent \/ ReadPipe \/ Scan \/ PublishScan

ClientStep == Flush \/ OnBackendDisconnect \/ OnDevicesChange \/ WakeThread \/ Join

Next ==
  \/ KernelStep \/ ThreadStep \/ ClientStep \/ Woken
  \/ Connect \/ AbortThread
  \/ \E kind \in {"flush_events", "wait_events 1"} : Call(kind)
  \/ Wakeup \/ ForceDeviceScan

\* Both threads run when they can, a signalled wait ends, and a connected client
\* goes on flushing events.  poll is not interrupted for ever.
Fairness ==
  /\ SF_vars(PollReady)
  /\ WF_vars(TestAbort \/ ReadEvent \/ ReadPipe \/ Scan \/ PublishScan)
  /\ WF_vars(ClientStep)
  /\ WF_vars(signalled /\ Woken)
  /\ WF_vars(Call("flush_events"))

Spec == Init /\ [][Next]_vars /\ Fairness

-----------------------------------------------------------------------------
TypeOK ==
  /\ present \subseteq Files /\ settled \subseteq present
  /\ changes \in 0..MaxChanges
  /\ events \in Seq({"IN_CREATE", "IN_CLOSE_WRITE", "IN_DELETE"} \X Files)
  /\ {pipe, abort_flag, have_devices_flag, shutdown_err, emitted_shutdown_cb, got_rescan_event,
      signalled} \subseteq BOOLEAN
  /\ {ready_devices_info, safe_devices_info, devices_info} \subseteq (SUBSET Files) \union {NoInfo}
  /\ pending_files \in [Files -> Nat]
  /\ dpc \in {"none", "poll", "test", "inotify", "scan", "publish", "done"}
  /\ revents \subseteq {"inotify", "pipe", "EINTR", "ENOMEM"}
  /\ cpc \in {"off", "idle", "flush", "between", "wait", "shutdown", "change", "waking", "joining"}
  /\ call \in {"none", "flush_events", "wait_events 1", "wait_events 2"}

\* The newest list of devices the thread has made, wherever it has come to.
Newest ==
  IF devices_info # NoInfo THEN devices_info
  ELSE IF ready_devices_info # NoInfo THEN ready_devices_info ELSE safe_devices_info

\* While the thread watches, a difference between the devices there are and the
\* newest list is never forgotten (alsa.c:830-926): an event about it is to be
\* read, a file is awaited, or a scan is asked for.
NoLostChange ==
  /\ TypeOK
  /\ Watching =>
       \/ Newest = present
       \/ events # <<>> \/ pipe \/ got_rescan_event \/ dpc = "scan"
       \/ ~NonePending

\* A scan begins after every request for one, however late in the thread's loop the request comes
\* (alsa.c:900-926), unless the thread is told to stop or fails.
ForcedScanIsMade == (pipe /\ Watching) ~> ((dpc = "scan" /\ ~pipe) \/ ~Watching)

\* CHANGELOG.md:19 says "ALSA: fix potential cleanup deadlock.": destroy_alsa
\* clears the flag and wakes the thread (alsa.c:53-55), so disconnect returns.
DisconnectCompletes == cpc \in {"waking", "joining"} ~> cpc = "off"

\* soundio.h:766 says "libsoundio listens to system events for device changes
\* and responds to them by rescanning devices": once every file there is has
\* been closed after it came, a client that keeps flushing sees them all, and
\* no other.
ClientSeesDevices ==
  (<>[](Watching /\ settled = present) /\ []<>(cpc = "idle"))
    => []<>(safe_devices_info = present)
=============================================================================
