----------------------------- MODULE RingBuffer -----------------------------
(***************************************************************************)
(* src/ring_buffer.c: the lock-free ring buffer over mirrored memory.      *)
(*                                                                         *)
(* Two threads share two atomic offsets.  Every atomic access is a step of *)
(* its own: soundio_ring_buffer_fill_count loads read_offset and then      *)
(* write_offset, and soundio_ring_buffer_clear loads read_offset and then  *)
(* stores write_offset, so the other thread may act in between.  The       *)
(* offsets are unsigned long and wrap around; the memory is mapped twice   *)
(* in a row, so an access that starts anywhere in the first mapping and    *)
(* runs past its end continues at its beginning.                           *)
(***************************************************************************)
EXTENDS Integers, Sequences

CONSTANTS Capacity,         \* rb->capacity, in items
          HalfRange,        \* unsigned long has 2 * HalfRange values
          Values,           \* what an item may be
          ConcurrentClear   \* may the reader run while the writer clears?

\* An int holds every count from -Capacity to Capacity.
ASSUME CapacityAssumption ==
  /\ Capacity \in Nat \ {0}
  /\ HalfRange \in Nat
  /\ Capacity < HalfRange

ASSUME ClearAssumption == ConcurrentClear \in BOOLEAN

VARIABLES write_offset, read_offset,
          mem,      \* the contents of the mirrored memory
          pc,       \* where each thread is in a call
          seen,     \* the value of read_offset each thread has loaded
          count,    \* the last result of fill_count in each thread
          chunk,    \* the items each thread is copying in or out
          last      \* the last call that completed, and what it moved

\* seen and chunk are locals of a call: they go back to 0 and <<>> when dead.

vars == <<write_offset, read_offset, mem, pc, seen, count, chunk, last>>

Threads == {"writer", "reader"}
Modulus == 2 * HalfRange
Offsets == 0..(Modulus - 1)
Cells == 0..(Capacity - 1)
Chunks == UNION {[1..n -> Values] : n \in 0..Capacity}

\* The places in a call: between two of fill_count's loads on the client's
\* behalf ("loaded") or for the assertion of an advance ("checking"), with its
\* result in hand ("counted"), with the items copied ("copied"), just after the
\* fetch-and-add of an advance ("advanced"), between clear's load and store.
Places == {"idle", "loaded", "counted", "copied", "advanced", "checking", "clearing"}

-----------------------------------------------------------------------------
(* Offsets and addresses.                                                  *)

\* SOUNDIO_ATOMIC_FETCH_ADD on an unsigned long.
Plus(offset, n) == (offset + n) % Modulus

\* How far offset w is ahead of offset r, going round.
Distance(w, r) == (w - r) % Modulus

\* int count = write_offset - read_offset: the difference read as a signed number.
SignedDifference(w, r) ==
  IF Distance(w, r) < HalfRange THEN Distance(w, r) ELSE Distance(w, r) - Modulus

\* The item k places past an offset's address, in the mirrored memory.
Cell(offset, k) == ((offset % Capacity) + k) % Capacity

CopyIn(items) ==
  [c \in Cells |->
     IF \E k \in 1..Len(items) : Cell(write_offset, k - 1) = c
     THEN items[CHOOSE k \in 1..Len(items) : Cell(write_offset, k - 1) = c]
     ELSE mem[c]]

CopyOut(n) == [k \in 1..n |-> mem[Cell(read_offset, k - 1)]]

\* Mutant: forgets what is in the buffer.
FreeCount_ignores_fill(fill_count) == Capacity

\* soundio_ring_buffer_free_count of the fill count a thread has in hand.
FreeCount(fill_count) == Capacity - fill_count

-----------------------------------------------------------------------------
Init ==
  /\ write_offset = 0
  /\ read_offset = 0
  /\ mem \in [Cells -> Values]
  /\ pc = [t \in Threads |-> "idle"]
  /\ seen = [t \in Threads |-> 0]
  /\ count = [t \in Threads |-> 0]
  /\ chunk = [t \in Threads |-> <<>>]
  /\ last = <<"clear", <<>>>>

Goto(t, place) == pc' = [pc EXCEPT ![t] = place]

\* The reader stays out of the buffer while it is cleared, unless the run asks
\* what happens when it does not.
ReaderMayRun == ConcurrentClear \/ pc["writer"] # "clearing"

\* The first load of fill_count.
LoadReadOffset(t) ==
  /\ \/ pc[t] = "idle" /\ Goto(t, "loaded")
     \/ pc[t] = "advanced" /\ Goto(t, "checking")
  /\ t = "reader" => ReaderMayRun
  /\ seen' = [seen EXCEPT ![t] = read_offset]
  /\ UNCHANGED <<write_offset, read_offset, mem, count, chunk, last>>

\* The second load of fill_count, and the result.
LoadWriteOffset(t) ==
  /\ \/ pc[t] = "loaded" /\ Goto(t, "counted")
     \/ pc[t] = "checking" /\ Goto(t, "idle")
  /\ count' = [count EXCEPT ![t] = SignedDifference(write_offset, seen[t])]
  /\ seen' = [seen EXCEPT ![t] = 0]
  /\ UNCHANGED <<write_offset, read_offset, mem, chunk, last>>

\* The caller of fill_count or free_count does nothing with the result.
Discard(t) ==
  /\ pc[t] = "counted"
  /\ Goto(t, "idle")
  /\ UNCHANGED <<write_offset, read_offset, mem, seen, count, chunk, last>>

\* The writer puts items behind write_ptr, no more than free_count told it.
WriterCopy(items) ==
  /\ pc["writer"] = "counted"
  /\ Len(items) <= FreeCount(count["writer"])
  /\ mem' = CopyIn(items)
  /\ chunk' = [chunk EXCEPT !["writer"] = items]
  /\ Goto("writer", "copied")
  /\ UNCHANGED <<write_offset, read_offset, seen, count, last>>

AdvanceWrite ==
  /\ pc["writer"] = "copied"
  /\ write_offset' = Plus(write_offset, Len(chunk["writer"]))
  /\ last' = <<"put", chunk["writer"]>>
  /\ chunk' = [chunk EXCEPT !["writer"] = <<>>]
  /\ Goto("writer", "advanced")
  /\ UNCHANGED <<read_offset, mem, seen, count>>

\* The reader takes items from read_ptr, no more than fill_count told it.
ReaderCopy(n) ==
  /\ pc["reader"] = "counted"
  /\ n <= count["reader"]
  /\ chunk' = [chunk EXCEPT !["reader"] = CopyOut(n)]
  /\ Goto("reader", "copied")
  /\ UNCHANGED <<write_offset, read_offset, mem, seen, count, last>>

\* Mutant: gives back everything fill_count saw, not what was read.
AdvanceRead_by_count ==
  /\ pc["reader"] = "copied"
  /\ read_offset' = Plus(read_offset, count["reader"])
  /\ last' = <<"get", chunk["reader"]>>
  /\ chunk' = [chunk EXCEPT !["reader"] = <<>>]
  /\ Goto("reader", "advanced")
  /\ UNCHANGED <<write_offset, mem, seen, count>>

AdvanceRead ==
  /\ pc["reader"] = "copied"
  /\ read_offset' = Plus(read_offset, Len(chunk["reader"]))
  /\ last' = <<"get", chunk["reader"]>>
  /\ chunk' = [chunk EXCEPT !["reader"] = <<>>]
  /\ Goto("reader", "advanced")
  /\ UNCHANGED <<write_offset, mem, seen, count>>

\* clear's load.  The one caller in the library (dummy.c:36) is the only thread
\* that uses its buffer, so nothing is half read; soundio.h:1204 asks only that
\* the caller be the writer, which is the case of ConcurrentClear.
ClearLoad ==
  /\ pc["writer"] = "idle"
  /\ ConcurrentClear \/ pc["reader"] = "idle"
  /\ seen' = [seen EXCEPT !["writer"] = read_offset]
  /\ Goto("writer", "clearing")
  /\ UNCHANGED <<write_offset, read_offset, mem, count, chunk, last>>

\* Mutant: clear rewinds to the beginning of the memory.
ClearStore_rewinds ==
  /\ pc["writer"] = "clearing"
  /\ write_offset' = 0
  /\ last' = <<"clear", <<>>>>
  /\ seen' = [seen EXCEPT !["writer"] = 0]
  /\ Goto("writer", "idle")
  /\ UNCHANGED <<read_offset, mem, count, chunk>>

\* clear's store.
ClearStore ==
  /\ pc["writer"] = "clearing"
  /\ write_offset' = seen["writer"]
  /\ last' = <<"clear", <<>>>>
  /\ seen' = [seen EXCEPT !["writer"] = 0]
  /\ Goto("writer", "idle")
  /\ UNCHANGED <<read_offset, mem, count, chunk>>

Next ==
  \/ \E t \in Threads : LoadReadOffset(t) \/ LoadWriteOffset(t) \/ Discard(t)
  \/ \E items \in Chunks : WriterCopy(items)
  \/ AdvanceWrite
  \/ \E n \in 0..Capacity : ReaderCopy(n)
  \/ AdvanceRead
  \/ ClearLoad
  \/ ClearStore

Spec == Init /\ [][Next]_vars

-----------------------------------------------------------------------------
\* The offsets stay in their type and every local in its range; count may be
\* any int that the subtraction of two offsets yields.
TypeOK ==
  /\ write_offset \in Offsets
  /\ read_offset \in Offsets
  /\ mem \in [Cells -> Values]
  /\ pc \in [Threads -> Places]
  /\ seen \in [Threads -> Offsets]
  /\ count \in [Threads -> (-HalfRange)..(HalfRange - 1)]
  /\ chunk \in [Threads -> Chunks]

\* What is in the buffer.
Fill == Distance(write_offset, read_offset)

\* The assertions of fill_count (ring_buffer.c:71-72), and those of the two
\* advances, hold for the result of every call, whatever the other thread did
\* between the two loads.
FillCountAsserts ==
  /\ TypeOK
  /\ \A t \in Threads : count[t] \in 0..Capacity

\* A count may be old by the time it is used, but it is wrong only on the safe
\* side: the writer never thinks more is free than is, and the reader never
\* thinks more is filled than is, up to the moment they advance.
CountsAreConservative ==
  /\ pc["writer"] = "counted" => Fill <= count["writer"]
  /\ pc["writer"] = "copied" => Fill + Len(chunk["writer"]) <= Capacity
  /\ pc["reader"] = "counted" => count["reader"] <= Fill
  /\ pc["reader"] = "copied" => Len(chunk["reader"]) <= Fill

\* The queue the buffer stands for: the items between the two offsets.
Contents == [k \in 1..Fill |-> mem[Cell(read_offset, k - 1)]]

Fifo == INSTANCE BoundedFifo WITH queue <- Contents

\* The ring buffer is a bounded queue: every item put comes out once, in
\* order and unaltered, although items are copied outside of the atomic steps.
RefinesFifo == Fifo!FifoSpec
=============================================================================
