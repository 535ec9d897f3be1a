------------------------- MODULE RingBufferProofs -------------------------
(***************************************************************************)
(* The ring buffer's counts are right for every capacity, every width of   *)
(* the offsets and every interleaving of the two threads' atomic accesses, *)
(* as long as the reader stays away during a clear; and the buffer is a    *)
(* queue, as long as the offsets wrap at a multiple of the capacity.       *)
(***************************************************************************)
EXTENDS RingBuffer, SequenceTheorems, TLAPS

\* What a thread has loaded and not used up yet, and what that still says of
\* the present: this is what makes the counts' bounds inductive.
LoadsAreOrdered ==
  /\ pc["writer"] \in {"loaded", "checking"} =>
       /\ Distance(write_offset, seen["writer"]) <= Capacity
       /\ Fill <= Distance(write_offset, seen["writer"])
  /\ pc["reader"] \in {"loaded", "checking"} => seen["reader"] = read_offset
  /\ pc["writer"] = "clearing" =>
       /\ seen["writer"] = read_offset
       /\ pc["reader"] = "idle"

CountsInRange == \A t \in Threads : count[t] \in 0..Capacity

IInv ==
  /\ TypeOK
  /\ Fill <= Capacity
  /\ LoadsAreOrdered
  /\ CountsAreConservative
  /\ CountsInRange

-----------------------------------------------------------------------------
(* Arithmetic of wrapping offsets.                                         *)

\* The fetch-and-add of an advance wraps at most once.
LEMMA PlusWraps ==
  ASSUME NEW a \in Offsets, NEW n \in 0..Capacity
  PROVE  /\ Plus(a, n) \in Offsets
         /\ Plus(a, n) = IF a + n < Modulus THEN a + n ELSE a + n - Modulus
  BY CapacityAssumption DEF Plus, Offsets, Modulus

\* Subtracting offsets as fill_count does is taking the distance.
LEMMA DistanceWraps ==
  ASSUME NEW w \in Offsets, NEW r \in Offsets
  PROVE  /\ Distance(w, r) \in Offsets
         /\ Distance(w, r) = IF w >= r THEN w - r ELSE w - r + Modulus
  BY CapacityAssumption DEF Distance, Offsets, Modulus

\* The writer's advance adds to the distance what it adds to the offset.
LEMMA DistanceOfAdvancedWriter ==
  ASSUME NEW w \in Offsets, NEW r \in Offsets, NEW n \in 0..Capacity,
         Distance(w, r) + n <= Capacity
  PROVE  Distance(Plus(w, n), r) = Distance(w, r) + n
  <1>1. /\ Plus(w, n) \in Offsets
        /\ Plus(w, n) = IF w + n < Modulus THEN w + n ELSE w + n - Modulus
    BY PlusWraps
  <1>2. Distance(w, r) = IF w >= r THEN w - r ELSE w - r + Modulus
    BY DistanceWraps
  <1>3. Distance(Plus(w, n), r)
          = IF Plus(w, n) >= r THEN Plus(w, n) - r ELSE Plus(w, n) - r + Modulus
    BY <1>1, DistanceWraps
  <1> QED
    BY <1>1, <1>2, <1>3, CapacityAssumption DEF Offsets, Modulus

\* The reader's advance takes from the distance what it adds to the offset.
LEMMA DistanceOfAdvancedReader ==
  ASSUME NEW w \in Offsets, NEW r \in Offsets, NEW n \in 0..Capacity,
         n <= Distance(w, r)
  PROVE  Distance(w, Plus(r, n)) = Distance(w, r) - n
  <1>1. /\ Plus(r, n) \in Offsets
        /\ Plus(r, n) = IF r + n < Modulus THEN r + n ELSE r + n - Modulus
    BY PlusWraps
  <1>2. Distance(w, r) = IF w >= r THEN w - r ELSE w - r + Modulus
    BY DistanceWraps
  <1>3. Distance(w, Plus(r, n))
          = IF w >= Plus(r, n) THEN w - Plus(r, n) ELSE w - Plus(r, n) + Modulus
    BY <1>1, DistanceWraps
  <1> QED
    BY <1>1, <1>2, <1>3, CapacityAssumption DEF Offsets, Modulus

\* A count within the capacity is the distance itself: the int does not overflow.
LEMMA SignedDifferenceInRange ==
  ASSUME NEW w \in Offsets, NEW r \in Offsets
  PROVE  /\ SignedDifference(w, r) \in (-HalfRange)..(HalfRange - 1)
         /\ Distance(w, r) <= Capacity => SignedDifference(w, r) = Distance(w, r)
  <1>1. Distance(w, r) \in Offsets
    BY DistanceWraps
  <1> QED
    BY <1>1, CapacityAssumption DEF SignedDifference, Offsets, Modulus

\* A chunk is a sequence no longer than the buffer.
LEMMA ChunkLength ==
  ASSUME NEW items \in Chunks
  PROVE  Len(items) \in 0..Capacity
  BY CapacityAssumption DEF Chunks

-----------------------------------------------------------------------------
\* The invariant holds of a buffer that was just initialised.
LEMMA InitIInv == Init => IInv
  <1> SUFFICES ASSUME Init PROVE IInv
    OBVIOUS
  <1>1. 0 \in Offsets /\ Distance(0, 0) = 0
    BY CapacityAssumption, DistanceWraps DEF Offsets, Modulus
  <1>2. <<>> \in Chunks
    BY CapacityAssumption DEF Chunks
  <1>3. TypeOK
    BY <1>1, <1>2, CapacityAssumption DEF Init, TypeOK, Places
  <1> QED
    BY <1>1, <1>3, CapacityAssumption
    DEF Init, IInv, Fill, LoadsAreOrdered, CountsAreConservative, CountsInRange, Threads

\* Every step of either thread keeps the invariant, if no step clears the
\* buffer under the reader.
LEMMA NextIInv ==
  ASSUME ConcurrentClear = FALSE, IInv, [Next]_vars
  PROVE  IInv'
  <1> USE DEF IInv
  <1>t. /\ write_offset \in Offsets /\ read_offset \in Offsets
        /\ \A t \in Threads : seen[t] \in Offsets /\ chunk[t] \in Chunks
        /\ "writer" \in Threads /\ "reader" \in Threads
    BY DEF TypeOK, Threads
  <1>f. /\ Fill \in Nat
        /\ \A t \in Threads : /\ Distance(write_offset, seen[t]) \in Nat
                              /\ Len(chunk[t]) \in Nat
    <2>1. Fill \in Offsets /\ \A t \in Threads : Distance(write_offset, seen[t]) \in Offsets
      BY <1>t, DistanceWraps DEF Fill
    <2>2. \A t \in Threads : Len(chunk[t]) \in 0..Capacity
      BY <1>t, ChunkLength
    <2> QED
      BY <2>1, <2>2 DEF Offsets
  <1>1. ASSUME NEW t \in Threads, LoadReadOffset(t)
        PROVE  IInv'
    <2>1. TypeOK'
      BY <1>1, <1>t DEF LoadReadOffset, Goto, TypeOK, Places
    <2>2. Fill' = Fill
      BY <1>1 DEF LoadReadOffset, Fill
    <2>3. LoadsAreOrdered'
      <3>1. t = "reader" => pc["writer"] # "clearing"
        BY <1>1 DEF LoadReadOffset, ReaderMayRun
      <3>2. CASE t = "writer"
        <4>1. seen'["writer"] = read_offset /\ seen'["reader"] = seen["reader"]
          BY <1>1, <3>2 DEF LoadReadOffset, TypeOK, Threads
        <4>2. Distance(write_offset', seen'["writer"]) = Fill
          BY <1>1, <4>1 DEF LoadReadOffset, Fill
        <4> QED
          BY <1>1, <1>f, <2>2, <3>2, <4>1, <4>2
          DEF LoadReadOffset, Goto, TypeOK, LoadsAreOrdered, Threads
      <3>3. CASE t = "reader"
        BY <1>1, <2>2, <3>1, <3>3
        DEF LoadReadOffset, Goto, TypeOK, LoadsAreOrdered, Threads
      <3> QED
        BY <3>2, <3>3 DEF Threads
    <2>4. CountsAreConservative' /\ CountsInRange'
      BY <1>1, <2>2
      DEF LoadReadOffset, Goto, TypeOK, CountsAreConservative, CountsInRange, Threads
    <2> QED
      BY <2>1, <2>2, <2>3, <2>4
  <1>2. ASSUME NEW t \in Threads, LoadWriteOffset(t)
        PROVE  IInv'
    <2>1. /\ SignedDifference(write_offset, seen[t]) \in (-HalfRange)..(HalfRange - 1)
          /\ Distance(write_offset, seen[t]) <= Capacity =>
               SignedDifference(write_offset, seen[t]) = Distance(write_offset, seen[t])
      BY <1>t, SignedDifferenceInRange
    <2>2. Distance(write_offset, seen[t]) <= Capacity
      BY <1>2 DEF LoadWriteOffset, LoadsAreOrdered, Fill, Threads
    <2>3. 0 \in Offsets
      BY CapacityAssumption DEF Offsets, Modulus
    <2>4. TypeOK'
      BY <1>2, <1>t, <2>1, <2>3 DEF LoadWriteOffset, Goto, TypeOK, Places
    <2>5. Fill' = Fill
      BY <1>2 DEF LoadWriteOffset, Fill
    <2>6. CountsInRange'
      BY <1>2, <1>f, <2>1, <2>2, CapacityAssumption DEF LoadWriteOffset, CountsInRange, TypeOK
    <2>7. LoadsAreOrdered'
      BY <1>2, <2>5 DEF LoadWriteOffset, Goto, TypeOK, LoadsAreOrdered, Threads, Places
    <2>8. CountsAreConservative'
      BY <1>2, <1>f, <2>1, <2>2, <2>5
      DEF LoadWriteOffset, Goto, TypeOK, LoadsAreOrdered, CountsAreConservative, Threads, Fill
    <2> QED
      BY <2>4, <2>5, <2>6, <2>7, <2>8
  <1>3. ASSUME NEW t \in Threads, Discard(t)
        PROVE  IInv'
    BY <1>3
    DEF Discard, Goto, TypeOK, Fill, LoadsAreOrdered, CountsAreConservative,
        CountsInRange, Threads, Places
  <1>4. ASSUME NEW items \in Chunks, WriterCopy(items)
        PROVE  IInv'
    <2>1. Len(items) \in 0..Capacity
      BY ChunkLength
    <2>2. mem' \in [Cells -> Values]
      <3>1. \A k \in 1..Len(items) : items[k] \in Values
        BY DEF Chunks
      <3>2. \A c \in Cells : mem[c] \in Values
        BY DEF TypeOK
      <3> QED
        BY <1>4, <3>1, <3>2 DEF WriterCopy, CopyIn
    <2>3. TypeOK'
      BY <1>4, <2>2 DEF WriterCopy, Goto, TypeOK, Places
    <2>4. Fill' = Fill
      BY <1>4 DEF WriterCopy, Fill
    <2>5. Fill + Len(items) <= Capacity
      BY <1>4, <1>f, <2>1, CapacityAssumption
      DEF WriterCopy, FreeCount, CountsAreConservative, CountsInRange, Threads
    <2> QED
      BY <1>4, <2>3, <2>4, <2>5
      DEF WriterCopy, Goto, TypeOK, LoadsAreOrdered, CountsAreConservative,
          CountsInRange, Threads
  <1>5. ASSUME AdvanceWrite
        PROVE  IInv'
    <2> DEFINE n == Len(chunk["writer"])
    <2>1. n \in 0..Capacity
      BY <1>t, ChunkLength
    <2>2. Fill + n <= Capacity
      BY <1>5 DEF AdvanceWrite, CountsAreConservative
    <2>3. write_offset' \in Offsets
      BY <1>5, <1>t, <2>1, PlusWraps DEF AdvanceWrite
    <2>4. Fill' = Fill + n
      BY <1>5, <1>t, <2>1, <2>2, DistanceOfAdvancedWriter DEF AdvanceWrite, Fill
    <2>5. <<>> \in Chunks
      BY CapacityAssumption DEF Chunks
    <2>6. TypeOK'
      BY <1>5, <2>3, <2>5 DEF AdvanceWrite, Goto, TypeOK, Places
    <2> QED
      BY <1>5, <1>f, <2>1, <2>2, <2>4, <2>6, CapacityAssumption
      DEF AdvanceWrite, Goto, TypeOK, LoadsAreOrdered, CountsAreConservative,
          CountsInRange, Threads
  <1>6. ASSUME NEW n \in 0..Capacity, ReaderCopy(n)
        PROVE  IInv'
    <2>1. n <= Fill
      BY <1>6, <1>f DEF ReaderCopy, CountsAreConservative, CountsInRange, Threads
    <2>2. CopyOut(n) \in [1..n -> Values]
      <3>1. \A k \in 1..n : Cell(read_offset, k - 1) \in Cells
        BY <1>t, CapacityAssumption DEF Cell, Cells, Offsets
      <3> QED
        BY <3>1 DEF CopyOut, TypeOK
    <2>3. CopyOut(n) \in Chunks /\ Len(CopyOut(n)) = n
      BY <2>2 DEF Chunks
    <2>4. TypeOK'
      BY <1>6, <2>3 DEF ReaderCopy, Goto, TypeOK, Places
    <2>5. Fill' = Fill
      BY <1>6 DEF ReaderCopy, Fill
    <2> QED
      BY <1>6, <2>1, <2>3, <2>4, <2>5
      DEF ReaderCopy, Goto, TypeOK, LoadsAreOrdered, CountsAreConservative,
          CountsInRange, Threads
  <1>7. ASSUME AdvanceRead
        PROVE  IInv'
    <2> DEFINE n == Len(chunk["reader"])
    <2>1. n \in 0..Capacity
      BY <1>t, ChunkLength
    <2>2. n <= Fill
      BY <1>7 DEF AdvanceRead, CountsAreConservative
    <2>3. read_offset' \in Offsets
      BY <1>7, <1>t, <2>1, PlusWraps DEF AdvanceRead
    <2>4. Fill' = Fill - n
      BY <1>7, <1>t, <2>1, <2>2, DistanceOfAdvancedReader DEF AdvanceRead, Fill
    <2>5. <<>> \in Chunks
      BY CapacityAssumption DEF Chunks
    <2>6. TypeOK'
      BY <1>7, <2>3, <2>5 DEF AdvanceRead, Goto, TypeOK, Places
    <2>7. pc' = [pc EXCEPT !["reader"] = "advanced"] /\ UNCHANGED <<write_offset, seen, count>>
      BY <1>7 DEF AdvanceRead, Goto
    <2>8. LoadsAreOrdered'
      BY <1>7, <1>f, <2>1, <2>2, <2>4, <2>7
      DEF AdvanceRead, TypeOK, LoadsAreOrdered, Threads
    <2>9. chunk'["writer"] = chunk["writer"]
      BY <1>7 DEF AdvanceRead, TypeOK, Threads
    <2>10. CountsAreConservative'
      BY <1>7, <1>t, <1>f, <2>1, <2>2, <2>4, <2>7, <2>9, CapacityAssumption
      DEF TypeOK, CountsAreConservative, CountsInRange, Threads
    <2> QED
      BY <1>f, <2>1, <2>2, <2>4, <2>6, <2>7, <2>8, <2>10, CapacityAssumption
      DEF CountsInRange
  <1>8. CASE ClearLoad
    <2>1. TypeOK'
      BY <1>8, <1>t DEF ClearLoad, Goto, TypeOK, Places
    <2>2. Fill' = Fill
      BY <1>8 DEF ClearLoad, Fill
    <2> QED
      BY <1>8, <2>1, <2>2
      DEF ClearLoad, Goto, TypeOK, LoadsAreOrdered, CountsAreConservative,
          CountsInRange, Threads
  <1>9. CASE ClearStore
    <2>1. 0 \in Offsets
      BY CapacityAssumption DEF Offsets, Modulus
    <2>2. TypeOK'
      BY <1>9, <1>t, <2>1 DEF ClearStore, Goto, TypeOK, Places
    <2>3. write_offset' = read_offset /\ read_offset' = read_offset
      BY <1>9 DEF ClearStore, LoadsAreOrdered
    <2>4. Fill' = 0
      BY <1>t, <2>3, DistanceWraps DEF Fill, Offsets
    <2> QED
      BY <1>9, <2>2, <2>4, CapacityAssumption
      DEF ClearStore, Goto, TypeOK, LoadsAreOrdered, CountsAreConservative,
          CountsInRange, Threads
  <1>10. CASE UNCHANGED vars
    BY <1>10
    DEF vars, TypeOK, Fill, LoadsAreOrdered, CountsAreConservative, CountsInRange
  <1> QED
    BY <1>1, <1>2, <1>3, <1>4, <1>5, <1>6, <1>7, <1>8, <1>9, <1>10 DEF Next

-----------------------------------------------------------------------------
\* The inductive invariant, for every capacity and width of the offsets.
THEOREM Safety == ConcurrentClear = FALSE => (Spec => []IInv)
  <1> SUFFICES ASSUME ConcurrentClear = FALSE PROVE Spec => []IInv
    OBVIOUS
  <1>1. IInv /\ [Next]_vars => IInv'
    BY NextIInv
  <1> QED
    BY <1>1, InitIInv, PTL DEF Spec

\* The offsets keep their type and every local its range.
THEOREM TypeCorrect == ConcurrentClear = FALSE => (Spec => []TypeOK)
  <1>1. IInv => TypeOK
    BY DEF IInv
  <1> QED
    BY <1>1, Safety, PTL

\* The assertions of ring_buffer.c never fail.
THEOREM AssertsNeverFail == ConcurrentClear = FALSE => (Spec => []FillCountAsserts)
  <1>1. IInv => FillCountAsserts
    BY DEF IInv, FillCountAsserts, CountsInRange
  <1> QED
    BY <1>1, Safety, PTL

\* A thread that acts on an old count neither overwrites unread items nor
\* reads items that were never written.
THEOREM CountsStaySafe == ConcurrentClear = FALSE => (Spec => []CountsAreConservative)
  <1>1. IInv => CountsAreConservative
    BY DEF IInv
  <1> QED
    BY <1>1, Safety, PTL

-----------------------------------------------------------------------------
(* Cells of the mirrored memory, and the queue.                             *)

\* What a thread has copied stays as it is until it advances.
ChunksAreCopied ==
  /\ pc["writer"] = "copied" =>
       \A k \in 1..Len(chunk["writer"]) : mem[Cell(write_offset, k - 1)] = chunk["writer"][k]
  /\ pc["reader"] = "copied" =>
       \A k \in 1..Len(chunk["reader"]) : mem[Cell(read_offset, k - 1)] = chunk["reader"][k]

\* What division by the capacity leaves over.
LEMMA Quotient ==
  ASSUME NEW x \in Nat
  PROVE  /\ x \div Capacity \in Nat
         /\ x % Capacity \in 0..(Capacity - 1)
         /\ x = (x \div Capacity) * Capacity + (x % Capacity)
  BY CapacityAssumption, SMT

\* No number has two rests.
LEMMA RemainderIsUnique ==
  ASSUME NEW p \in Int, NEW q \in Int, NEW r \in 0..(Capacity - 1), NEW s \in 0..(Capacity - 1),
         p * Capacity + r = q * Capacity + s
  PROVE  r = s
  <1>1. (p - q) * Capacity = s - r
    BY CapacityAssumption, SMT
  <1> DEFINE d == p - q
  <1>2. d \in Int
    OBVIOUS
  <1>3. d * Capacity = s - r
    BY <1>1
  <1> HIDE DEF d
  <1>4. d = 0
    BY <1>2, <1>3, CapacityAssumption, SMT
  <1> QED
    BY <1>3, <1>4, CapacityAssumption

\* A multiple of the capacity, such as the wrap of an offset, changes no rest.
LEMMA ModAdd ==
  ASSUME NEW x \in Nat, NEW y \in Nat, y % Capacity = 0
  PROVE  (x + y) % Capacity = x % Capacity
  <1>1. PICK p \in Nat : x + y = p * Capacity + ((x + y) % Capacity)
    BY Quotient
  <1>2. PICK q \in Nat : x = q * Capacity + (x % Capacity)
    BY Quotient
  <1>3. PICK n \in Nat : y = n * Capacity
    <2>1. PICK n \in Nat : y = n * Capacity + (y % Capacity)
      BY Quotient
    <2>2. n * Capacity \in Int
      BY CapacityAssumption
    <2>3. y = n * Capacity
      BY <2>1, <2>2
    <2> QED
      BY <2>3
  <1>4. (x + y) % Capacity \in 0..(Capacity - 1) /\ x % Capacity \in 0..(Capacity - 1)
    BY Quotient
  <1> DEFINE r == (x + y) % Capacity
             s == x % Capacity
  <1>6. p * Capacity + r = (q + n) * Capacity + s
    <2>1. (q + n) * Capacity = q * Capacity + n * Capacity
      BY CapacityAssumption
    <2> HIDE DEF r, s
    <2>2. x + y = p * Capacity + r /\ x = q * Capacity + s /\ r \in Int /\ s \in Int
      BY <1>1, <1>2, <1>4, CapacityAssumption DEF r, s
    <2>3. p * Capacity \in Int /\ q * Capacity \in Int /\ n * Capacity \in Int
      BY CapacityAssumption
    <2> QED
      BY <2>1, <2>2, <2>3, <1>3
  <1> HIDE DEF r, s
  <1>7. r \in 0..(Capacity - 1) /\ s \in 0..(Capacity - 1)
    BY <1>4 DEF r, s
  <1>8. q + n \in Int
    OBVIOUS
  <1>9. r = s
    BY <1>6, <1>7, <1>8, RemainderIsUnique
  <1> QED
    BY <1>9 DEF r, s

\* A multiple of the capacity has no rest.
LEMMA Multiples ==
  ASSUME NEW q \in Nat
  PROVE  q * Capacity \in Nat /\ (q * Capacity) % Capacity = 0
  <1> DEFINE x == q * Capacity
             r == x % Capacity
  <1>1. x \in Nat
    BY CapacityAssumption
  <1>2. r \in 0..(Capacity - 1)
    BY <1>1, Quotient
  <1>3. PICK p \in Nat : x = p * Capacity + r
    BY <1>1, Quotient
  <1>4. p * Capacity + r = q * Capacity + 0
    BY <1>1, <1>3
  <1> HIDE DEF r
  <1>5. 0 \in 0..(Capacity - 1)
    BY CapacityAssumption
  <1>6. r = 0
    BY <1>2, <1>4, <1>5, RemainderIsUnique
  <1> QED
    BY <1>1, <1>6 DEF r

\* The place in the mirrored memory depends only on the sum of offset and index.
LEMMA CellIsRemainder ==
  ASSUME NEW a \in Nat, NEW k \in Nat
  PROVE  Cell(a, k) = (a + k) % Capacity
  <1> DEFINE s == a % Capacity
  <1>1. PICK q \in Nat : a = q * Capacity + s
    BY Quotient
  <1>2. s \in Nat
    BY Quotient
  <1> HIDE DEF s
  <1>3. q * Capacity \in Nat /\ (q * Capacity) % Capacity = 0
    BY Multiples
  <1>4. a + k = (s + k) + q * Capacity /\ s + k \in Nat
    BY <1>1, <1>2, <1>3
  <1>5. ((s + k) + q * Capacity) % Capacity = (s + k) % Capacity
    BY <1>3, <1>4, ModAdd
  <1> QED
    BY <1>4, <1>5 DEF Cell, s

\* An offset that was advanced addresses the cells that followed it, across the
\* wrap of the unsigned long as well.
LEMMA CellPastAdvance ==
  ASSUME Modulus % Capacity = 0,
         NEW a \in Offsets, NEW n \in 0..Capacity, NEW k \in Nat
  PROVE  Cell(Plus(a, n), k) = Cell(a, n + k)
  <1> DEFINE p == Plus(a, n)
  <1>1. /\ p \in Nat /\ a \in Nat /\ n \in Nat /\ Modulus \in Nat
        /\ p = a + n \/ p + Modulus = a + n
    <2>1. p \in Offsets /\ p = IF a + n < Modulus THEN a + n ELSE a + n - Modulus
      BY PlusWraps
    <2> HIDE DEF p
    <2> QED
      BY <2>1, CapacityAssumption DEF Offsets, Modulus
  <1> HIDE DEF p
  <1>2. n + k \in Nat /\ p + k \in Nat
    BY <1>1
  <1>3. Cell(p, k) = (p + k) % Capacity
    BY <1>1, CellIsRemainder
  <1>4. Cell(a, n + k) = (a + (n + k)) % Capacity
    BY <1>1, <1>2, CellIsRemainder
  <1>5. CASE p = a + n
    <2>1. p + k = a + (n + k)
      BY <1>1, <1>5
    <2> QED
      BY <1>3, <1>4, <2>1 DEF p
  <1>6. CASE p + Modulus = a + n
    <2>1. a + (n + k) = (p + k) + Modulus
      BY <1>1, <1>6
    <2>2. ((p + k) + Modulus) % Capacity = (p + k) % Capacity
      BY <1>1, <1>2, ModAdd
    <2> QED
      BY <1>3, <1>4, <2>1, <2>2 DEF p
  <1> QED
    BY <1>1, <1>5, <1>6

\* Fewer than a capacity of cells in a row are all different.
LEMMA CellsDiffer ==
  ASSUME NEW a \in Nat, NEW i \in Nat, NEW j \in Nat, i < j, j < i + Capacity
  PROVE  Cell(a, i) # Cell(a, j)
  <1> SUFFICES ASSUME Cell(a, i) = Cell(a, j) PROVE FALSE
    OBVIOUS
  <1> DEFINE r == (a + i) % Capacity
  <1>1. a + i \in Nat /\ a + j \in Nat
    OBVIOUS
  <1>2. r = (a + j) % Capacity
    BY CellIsRemainder
  <1>3. PICK p \in Nat : a + i = p * Capacity + r
    BY <1>1, Quotient
  <1>4. PICK q \in Nat : a + j = q * Capacity + r
    BY <1>1, <1>2, Quotient
  <1>5. r \in Nat
    BY <1>1, Quotient
  <1> HIDE DEF r
  <1> DEFINE d == q - p
  <1>6. d \in Int
    OBVIOUS
  <1>7. d * Capacity = j - i
    <2>1. d * Capacity = q * Capacity - p * Capacity
      BY CapacityAssumption
    <2>2. q * Capacity \in Int /\ p * Capacity \in Int
      BY CapacityAssumption
    <2> HIDE DEF d
    <2> QED
      BY <2>1, <2>2, <1>3, <1>4, <1>5
  <1> HIDE DEF d
  <1> QED
    BY <1>6, <1>7, CapacityAssumption, SMT

\* Every access is within the memory.
LEMMA CellInRange ==
  ASSUME NEW a \in Nat, NEW k \in Nat
  PROVE  Cell(a, k) \in Cells
  <1>1. a + k \in Nat
    OBVIOUS
  <1> QED
    BY <1>1, CellIsRemainder, Quotient DEF Cells

\* The writer's next cell is the one behind the last that is filled.
LEMMA WriterIsAhead ==
  ASSUME Modulus % Capacity = 0, IInv, NEW k \in Nat
  PROVE  /\ Fill \in 0..Capacity
         /\ read_offset \in Nat /\ write_offset \in Nat
         /\ Cell(write_offset, k) = Cell(read_offset, Fill + k)
  <1>1. write_offset \in Offsets /\ read_offset \in Offsets
    BY DEF IInv, TypeOK
  <1>2. /\ Fill \in Offsets
        /\ Fill = IF write_offset >= read_offset THEN write_offset - read_offset
                                                ELSE write_offset - read_offset + Modulus
    BY <1>1, DistanceWraps DEF Fill
  <1>3. Fill \in 0..Capacity
    BY <1>2, CapacityAssumption DEF IInv, Offsets
  <1>4. /\ Plus(read_offset, Fill) \in Offsets
        /\ Plus(read_offset, Fill) = IF read_offset + Fill < Modulus THEN read_offset + Fill
                                    ELSE read_offset + Fill - Modulus
    BY <1>1, <1>3, PlusWraps
  <1>5. Plus(read_offset, Fill) = write_offset
    BY <1>1, <1>2, <1>4, CapacityAssumption DEF Offsets, Modulus
  <1>6. Cell(Plus(read_offset, Fill), k) = Cell(read_offset, Fill + k)
    BY <1>1, <1>3, CellPastAdvance
  <1> QED
    BY <1>1, <1>3, <1>5, <1>6 DEF Offsets

\* A write that fits leaves the items in the queue alone and stores every item.
LEMMA CopyIsBehindContents ==
  ASSUME Modulus % Capacity = 0, IInv, NEW items \in Chunks, Fill + Len(items) <= Capacity
  PROVE  /\ \A k \in 1..Fill :
              CopyIn(items)[Cell(read_offset, k - 1)] = mem[Cell(read_offset, k - 1)]
         /\ \A k \in 1..Len(items) : CopyIn(items)[Cell(write_offset, k - 1)] = items[k]
  <1>1. Len(items) \in 0..Capacity
    BY ChunkLength
  <1>2. Fill \in 0..Capacity /\ read_offset \in Nat /\ write_offset \in Nat
    <2>1. 0 \in Nat
      OBVIOUS
    <2> QED
      BY <2>1, WriterIsAhead
  <1>3. \A k \in 1..Len(items) : /\ Cell(write_offset, k - 1) = Cell(read_offset, Fill + (k - 1))
                                 /\ Cell(write_offset, k - 1) \in Cells
    <2> SUFFICES ASSUME NEW k \in 1..Len(items)
                 PROVE  /\ Cell(write_offset, k - 1) = Cell(read_offset, Fill + (k - 1))
                        /\ Cell(write_offset, k - 1) \in Cells
      OBVIOUS
    <2>1. k - 1 \in Nat
      BY <1>1
    <2>2. Cell(write_offset, k - 1) = Cell(read_offset, Fill + (k - 1))
      BY <2>1, WriterIsAhead
    <2>3. Cell(write_offset, k - 1) \in Cells
      BY <1>2, <2>1, CellInRange
    <2> QED
      BY <2>2, <2>3
  <1>4. ASSUME NEW k \in 1..Fill
        PROVE  CopyIn(items)[Cell(read_offset, k - 1)] = mem[Cell(read_offset, k - 1)]
    <2>1. k - 1 \in Nat /\ Cell(read_offset, k - 1) \in Cells
      <3>1. k - 1 \in Nat
        BY <1>2
      <3> QED
        BY <3>1, <1>2, CellInRange
    <2>2. ASSUME NEW j \in 1..Len(items)
          PROVE  Cell(write_offset, j - 1) # Cell(read_offset, k - 1)
      <3>1. Fill + (j - 1) \in Nat /\ k - 1 < Fill + (j - 1) /\ Fill + (j - 1) < (k - 1) + Capacity
        BY <1>1, <1>2, CapacityAssumption
      <3>2. Cell(read_offset, k - 1) # Cell(read_offset, Fill + (j - 1))
        BY <1>2, <2>1, <3>1, CellsDiffer
      <3> QED
        BY <1>3, <3>2
    <2> QED
      BY <2>1, <2>2, Zenon DEF CopyIn
  <1>5. ASSUME NEW k \in 1..Len(items)
        PROVE  CopyIn(items)[Cell(write_offset, k - 1)] = items[k]
    <2> DEFINE c == Cell(write_offset, k - 1)
               S == {j \in 1..Len(items) : Cell(write_offset, j - 1) = c}
    <2>1. c \in Cells
      BY <1>3
    <2>2. ASSUME NEW j \in 1..Len(items), Cell(write_offset, j - 1) = c
          PROVE  j = k
      <3>1. CASE j < k
        <4>1. /\ Fill + (j - 1) \in Nat /\ Fill + (k - 1) \in Nat
              /\ Fill + (j - 1) < Fill + (k - 1) /\ Fill + (k - 1) < (Fill + (j - 1)) + Capacity
          BY <1>1, <1>2, <3>1, CapacityAssumption
        <4>2. Cell(read_offset, Fill + (j - 1)) # Cell(read_offset, Fill + (k - 1))
          BY <1>2, <4>1, CellsDiffer
        <4> QED
          BY <1>3, <2>2, <4>2
      <3>2. CASE k < j
        <4>1. /\ Fill + (j - 1) \in Nat /\ Fill + (k - 1) \in Nat
              /\ Fill + (k - 1) < Fill + (j - 1) /\ Fill + (j - 1) < (Fill + (k - 1)) + Capacity
          BY <1>1, <1>2, <3>2, CapacityAssumption
        <4>2. Cell(read_offset, Fill + (k - 1)) # Cell(read_offset, Fill + (j - 1))
          BY <1>2, <4>1, CellsDiffer
        <4> QED
          BY <1>3, <2>2, <4>2
      <3> QED
        BY <3>1, <3>2
    <2>3. (CHOOSE j \in 1..Len(items) : Cell(write_offset, j - 1) = c) = k
      BY <2>2, Zenon
    <2> QED
      BY <2>1, <2>3, Zenon DEF CopyIn
  <1> QED
    BY <1>4, <1>5

\* The queue of a buffer is a sequence of items, one for each cell that is filled.
LEMMA ContentsAreItems ==
  ASSUME Modulus % Capacity = 0, IInv
  PROVE  /\ Contents \in [1..Fill -> Values] /\ Contents \in Seq(Values)
         /\ Len(Contents) = Fill
         /\ \A k \in 1..Fill : Contents[k] = mem[Cell(read_offset, k - 1)]
  <1>1. Fill \in 0..Capacity /\ read_offset \in Nat
    <2>1. 0 \in Nat
      OBVIOUS
    <2> QED
      BY <2>1, WriterIsAhead
  <1>2. ASSUME NEW k \in 1..Fill PROVE mem[Cell(read_offset, k - 1)] \in Values
    <2>1. k - 1 \in Nat
      BY <1>1
    <2> QED
      BY <1>1, <2>1, CellInRange DEF IInv, TypeOK
  <1>3. Contents \in [1..Fill -> Values]
    BY <1>2 DEF Contents
  <1>4. Fill \in Nat
    BY <1>1, CapacityAssumption
  <1>5. \A k \in 1..Fill : Contents[k] = mem[Cell(read_offset, k - 1)]
    BY DEF Contents
  <1> HIDE DEF Contents
  <1> QED
    BY <1>3, <1>4, <1>5

\* How a sequence is recognised as a concatenation.
LEMMA IsConcat ==
  ASSUME NEW S, NEW s \in Seq(S), NEW t \in Seq(S), NEW u \in Seq(S),
         Len(u) = Len(s) + Len(t),
         \A k \in 1..Len(u) : u[k] = IF k <= Len(s) THEN s[k] ELSE t[k - Len(s)]
  PROVE  u = s \o t
  <1>1. /\ s \o t \in Seq(S) /\ Len(s \o t) = Len(s) + Len(t)
        /\ \A i \in 1..(Len(s) + Len(t)) :
             (s \o t)[i] = IF i <= Len(s) THEN s[i] ELSE t[i - Len(s)]
    BY ConcatProperties
  <1> QED
    BY <1>1, SeqEqual

\* A suffix.
LEMMA IsSuffix ==
  ASSUME NEW S, NEW s \in Seq(S), NEW u \in Seq(S), NEW n \in 0..Len(s),
         Len(u) = Len(s) - n, \A k \in 1..Len(u) : u[k] = s[n + k]
  PROVE  u = SubSeq(s, n + 1, Len(s))
  <1> DEFINE v == SubSeq(s, n + 1, Len(s))
  <1>1. Len(s) \in Nat /\ n + 1 \in Int /\ \A i \in (n + 1)..Len(s) : s[i] \in S
    BY LenProperties
  <1>2. /\ v \in Seq(S) /\ Len(v) = IF n + 1 <= Len(s) THEN Len(s) - (n + 1) + 1 ELSE 0
        /\ \A i \in 1..(Len(s) - (n + 1) + 1) : v[i] = s[(n + 1) + i - 1]
    BY <1>1, SubSeqProperties
  <1> HIDE DEF v
  <1>3. Len(v) = Len(u)
    BY <1>1, <1>2
  <1>4. ASSUME NEW k \in 1..Len(u) PROVE u[k] = v[k]
    <2>1. k \in 1..(Len(s) - (n + 1) + 1) /\ (n + 1) + k - 1 = n + k
      BY <1>1
    <2> QED
      BY <1>2, <2>1
  <1>5. u = v
    BY <1>2, <1>3, <1>4, SeqEqual
  <1> QED
    BY <1>5 DEF v

\* A prefix.
LEMMA IsPrefix ==
  ASSUME NEW S, NEW s \in Seq(S), NEW u \in Seq(S),
         Len(u) <= Len(s), \A k \in 1..Len(u) : u[k] = s[k]
  PROVE  u = SubSeq(s, 1, Len(u))
  <1> DEFINE v == SubSeq(s, 1, Len(u))
  <1>1. Len(s) \in Nat /\ Len(u) \in Nat /\ \A i \in 1..Len(u) : s[i] \in S
    BY LenProperties
  <1>2. /\ v \in Seq(S) /\ Len(v) = IF 1 <= Len(u) THEN Len(u) - 1 + 1 ELSE 0
        /\ \A i \in 1..(Len(u) - 1 + 1) : v[i] = s[1 + i - 1]
    BY <1>1, SubSeqProperties
  <1> HIDE DEF v
  <1>3. Len(v) = Len(u)
    BY <1>1, <1>2
  <1>4. ASSUME NEW k \in 1..Len(u) PROVE u[k] = v[k]
    <2>1. k \in 1..(Len(u) - 1 + 1) /\ 1 + k - 1 = k
      BY <1>1
    <2> QED
      BY <1>2, <2>1
  <1>5. u = v
    BY <1>2, <1>3, <1>4, SeqEqual
  <1> QED
    BY <1>5 DEF v

\* Every step keeps the copies as they were made, and is a call on the queue or
\* leaves it alone: a copy is invisible until the advance that publishes it.
LEMMA CopiesStep ==
  ASSUME ConcurrentClear = FALSE, Modulus % Capacity = 0, IInv, IInv', ChunksAreCopied, [Next]_vars
  PROVE  ChunksAreCopied' /\ [Fifo!FifoNext]_(Fifo!fifoVars)
  <1> DEFINE Goal == ChunksAreCopied' /\ [Fifo!FifoNext]_(Fifo!fifoVars)
  <1>s. ASSUME UNCHANGED <<write_offset, read_offset, mem, last>>
        PROVE  UNCHANGED Fifo!fifoVars
    BY <1>s DEF Fifo!fifoVars, Contents, Fill, Cell
  <1>q. /\ Contents \in [1..Fill -> Values] /\ Contents \in Seq(Values)
        /\ Len(Contents) = Fill
        /\ \A k \in 1..Fill : Contents[k] = mem[Cell(read_offset, k - 1)]
    BY ContentsAreItems
  <1>f. Fill \in 0..Capacity /\ Fill \in Nat
    <2>1. 0 \in Nat
      OBVIOUS
    <2> QED
      BY <2>1, WriterIsAhead, CapacityAssumption
  <1>t. pc \in [Threads -> Places] /\ chunk \in [Threads -> Chunks]
    BY DEF IInv, TypeOK
  <1>1. ASSUME NEW t \in Threads, LoadReadOffset(t) \/ LoadWriteOffset(t) \/ Discard(t) PROVE Goal
    <2>1. UNCHANGED <<write_offset, read_offset, mem, last, chunk>>
      BY <1>1 DEF LoadReadOffset, LoadWriteOffset, Discard
    <2>2. \A u \in Threads : pc'[u] = "copied" => pc[u] = "copied"
      BY <1>1, <1>t DEF LoadReadOffset, LoadWriteOffset, Discard, Goto
    <2> QED
      BY <1>s, <2>1, <2>2 DEF ChunksAreCopied, Threads, Cell
  <1>2. ASSUME NEW items \in Chunks, WriterCopy(items) PROVE Goal
    <2>1. Len(items) \in 0..Capacity
      BY ChunkLength
    <2>2. Fill + Len(items) <= Capacity
      BY <1>2, <1>f, <2>1, CapacityAssumption
      DEF IInv, WriterCopy, FreeCount, CountsAreConservative, CountsInRange, Threads
    <2>3. /\ \A k \in 1..Fill : mem'[Cell(read_offset, k - 1)] = mem[Cell(read_offset, k - 1)]
          /\ \A k \in 1..Len(items) : mem'[Cell(write_offset, k - 1)] = items[k]
      BY <1>2, <2>2, CopyIsBehindContents DEF WriterCopy
    <2>4. UNCHANGED <<write_offset, read_offset, last>> /\ Fill' = Fill
      BY <1>2 DEF WriterCopy, Fill
    <2>5. Contents' = Contents
      BY <2>3, <2>4 DEF Contents, Cell
    <2>6. /\ chunk'["writer"] = items /\ chunk'["reader"] = chunk["reader"]
          /\ pc'["reader"] = pc["reader"]
      BY <1>2, <1>t DEF WriterCopy, Goto, Threads
    <2>7. pc["reader"] = "copied" => Len(chunk["reader"]) \in Nat /\ Len(chunk["reader"]) <= Fill
      <3>1. Len(chunk["reader"]) \in 0..Capacity
        BY <1>t, ChunkLength DEF Threads
      <3> QED
        BY <3>1, CapacityAssumption DEF IInv, CountsAreConservative
    <2>8. ChunksAreCopied'
      BY <1>f, <2>3, <2>4, <2>6, <2>7 DEF ChunksAreCopied, Cell
    <2> QED
      BY <2>4, <2>5, <2>8 DEF Fifo!fifoVars
  <1>3. ASSUME AdvanceWrite PROVE Goal
    <2> DEFINE items == chunk["writer"]
    <2>1. items \in Chunks /\ Len(items) \in 0..Capacity
      BY <1>t, ChunkLength DEF Threads
    <2>2. Fill + Len(items) <= Capacity
      BY <1>3 DEF IInv, AdvanceWrite, CountsAreConservative
    <2>3. Fill' = Fill + Len(items)
      BY <1>3, <2>1, <2>2, DistanceOfAdvancedWriter DEF IInv, TypeOK, AdvanceWrite, Fill
    <2>4. \A k \in 1..Len(items) : mem[Cell(read_offset, Fill + (k - 1))] = items[k]
      <3> SUFFICES ASSUME NEW k \in 1..Len(items)
                   PROVE  mem[Cell(read_offset, Fill + (k - 1))] = items[k]
        OBVIOUS
      <3>1. k - 1 \in Nat
        BY <2>1
      <3>2. Cell(write_offset, k - 1) = Cell(read_offset, Fill + (k - 1))
        BY <3>1, WriterIsAhead
      <3> QED
        BY <1>3, <3>2 DEF AdvanceWrite, ChunksAreCopied
    <2>5. UNCHANGED <<read_offset, mem>>
      BY <1>3 DEF AdvanceWrite
    <2>6. Contents' = [k \in 1..(Fill + Len(items)) |-> mem[Cell(read_offset, k - 1)]]
      BY <2>3, <2>5 DEF Contents, Cell
    <2>7. items \in Seq(Values)
      BY <2>1 DEF Chunks
    <2> HIDE DEF items
    <2>8. \A k \in 1..(Fill + Len(items)) :
            mem[Cell(read_offset, k - 1)] = IF k <= Fill THEN Contents[k] ELSE items[k - Fill]
      <3> SUFFICES ASSUME NEW k \in 1..(Fill + Len(items))
                   PROVE  mem[Cell(read_offset, k - 1)]
                            = IF k <= Fill THEN Contents[k] ELSE items[k - Fill]
        OBVIOUS
      <3>1. CASE k <= Fill
        BY <1>q, <1>f, <2>1, <3>1
      <3>2. CASE k > Fill
        <4>1. k - Fill \in 1..Len(items) /\ Fill + ((k - Fill) - 1) = k - 1 /\ ~(k <= Fill)
          BY <1>f, <2>1, <3>2
        <4> QED
          BY <2>4, <4>1
      <3> QED
        BY <1>f, <2>1, <3>1, <3>2
    <2>9. /\ Contents' \in Seq(Values) /\ Len(Contents') = Fill + Len(items)
          /\ \A k \in 1..(Fill + Len(items)) :
               Contents'[k] = IF k <= Fill THEN Contents[k] ELSE items[k - Fill]
      <3>1. Contents' = [k \in 1..(Fill + Len(items)) |->
                           IF k <= Fill THEN Contents[k] ELSE items[k - Fill]]
        BY <2>6, <2>8
      <3>2. \A k \in 1..(Fill + Len(items)) :
              (IF k <= Fill THEN Contents[k] ELSE items[k - Fill]) \in Values
        BY <1>q, <1>f, <2>1, <2>7, ElementOfSeq
      <3>3. Fill + Len(items) \in Nat
        BY <1>f, <2>1
      <3> QED
        BY <3>1, <3>2, <3>3
    <2>10. Contents' = Contents \o items
      BY <1>q, <2>7, <2>9, IsConcat
    <2>11. Fifo!Put(items)
      BY <1>3, <1>q, <2>2, <2>10 DEF AdvanceWrite, Fifo!Put, items
    <2>12. Fifo!FifoNext
      BY <2>1, <2>11 DEF Fifo!FifoNext, Fifo!Chunks, Chunks
    <2>13. ChunksAreCopied'
      BY <1>3, <1>t DEF AdvanceWrite, Goto, ChunksAreCopied, Threads, Cell
    <2> QED
      BY <2>12, <2>13
  <1>4. ASSUME NEW n \in 0..Capacity, ReaderCopy(n) PROVE Goal
    <2>1. UNCHANGED <<write_offset, read_offset, mem, last>>
      BY <1>4 DEF ReaderCopy
    <2>2. /\ chunk'["reader"] = CopyOut(n) /\ chunk'["writer"] = chunk["writer"]
          /\ pc'["writer"] = pc["writer"]
      BY <1>4, <1>t DEF ReaderCopy, Goto, Threads
    <2>3. /\ n \in Nat /\ Len(CopyOut(n)) = n
          /\ \A k \in 1..n : CopyOut(n)[k] = mem[Cell(read_offset, k - 1)]
      BY CapacityAssumption DEF CopyOut
    <2>4. ChunksAreCopied'
      BY <2>1, <2>2, <2>3 DEF ChunksAreCopied, Cell
    <2> QED
      BY <1>s, <2>1, <2>4
  <1>5. ASSUME AdvanceRead PROVE Goal
    <2> DEFINE items == chunk["reader"]
               n == Len(items)
    <2>1. items \in Chunks /\ n \in 0..Capacity
      BY <1>t, ChunkLength DEF Threads
    <2>2. n <= Fill
      BY <1>5 DEF IInv, AdvanceRead, CountsAreConservative
    <2>3. Fill' = Fill - n
      BY <1>5, <2>1, <2>2, DistanceOfAdvancedReader DEF IInv, TypeOK, AdvanceRead, Fill
    <2>4. ASSUME NEW k \in Nat PROVE Cell(read_offset', k) = Cell(read_offset, n + k)
      BY <1>5, <2>1, CellPastAdvance DEF IInv, TypeOK, AdvanceRead
    <2>5. mem' = mem
      BY <1>5 DEF AdvanceRead
    <2>6. Contents' = [k \in 1..(Fill - n) |-> mem[Cell(read_offset', k - 1)]]
      BY <2>3, <2>5 DEF Contents, Cell
    <2>7. items \in Seq(Values) /\ \A k \in 1..n : items[k] = mem[Cell(read_offset, k - 1)]
      <3>1. items \in Seq(Values)
        BY <2>1 DEF Chunks
      <3>2. pc["reader"] = "copied"
        BY <1>5 DEF AdvanceRead
      <3> QED
        BY <3>1, <3>2 DEF ChunksAreCopied
    <2> HIDE DEF items
    <2>8. \A k \in 1..(Fill - n) : mem[Cell(read_offset', k - 1)] = Contents[n + k]
      <3> SUFFICES ASSUME NEW k \in 1..(Fill - n)
                   PROVE  mem[Cell(read_offset', k - 1)] = Contents[n + k]
        OBVIOUS
      <3>1. k - 1 \in Nat /\ n + k \in 1..Fill /\ n + (k - 1) = (n + k) - 1
        BY <1>f, <2>1, CapacityAssumption
      <3>2. Cell(read_offset', k - 1) = Cell(read_offset, n + (k - 1))
        BY <2>4, <3>1
      <3> QED
        BY <1>q, <3>1, <3>2
    <2>9. Contents' = SubSeq(Contents, n + 1, Len(Contents))
      <3>1. Contents' = [k \in 1..(Fill - n) |-> Contents[n + k]]
        BY <2>6, <2>8
      <3>2. Fill - n \in Nat /\ \A k \in 1..(Fill - n) : Contents[n + k] \in Values
        BY <1>q, <1>f, <2>1, <2>2
      <3>3. Contents' \in Seq(Values) /\ Len(Contents') = Fill - n
        BY <3>1, <3>2
      <3>4. \A k \in 1..(Fill - n) : Contents'[k] = Contents[n + k]
        BY <3>1
      <3>5. n \in 0..Len(Contents)
        BY <1>q, <1>f, <2>1, <2>2
      <3> QED
        BY <1>q, <3>3, <3>4, <3>5, IsSuffix
    <2>10. items = SubSeq(Contents, 1, n)
      <3>1. Len(items) <= Len(Contents)
        BY <1>q, <2>2
      <3>2. \A k \in 1..Len(items) : items[k] = Contents[k]
        BY <1>q, <1>f, <2>1, <2>2, <2>7
      <3> QED
        BY <1>q, <2>7, <3>1, <3>2, IsPrefix
    <2>11. Fifo!Get(n)
      BY <1>5, <1>q, <2>2, <2>9, <2>10 DEF AdvanceRead, Fifo!Get, items
    <2>12. Fifo!FifoNext
      BY <2>1, <2>11 DEF Fifo!FifoNext
    <2>13. ChunksAreCopied'
      BY <1>5, <1>t DEF AdvanceRead, Goto, ChunksAreCopied, Threads, Cell
    <2> QED
      BY <2>12, <2>13
  <1>6. CASE ClearLoad
    <2>1. UNCHANGED <<write_offset, read_offset, mem, last, chunk>>
      BY <1>6 DEF ClearLoad
    <2>2. \A u \in Threads : pc'[u] = "copied" => pc[u] = "copied"
      BY <1>6, <1>t DEF ClearLoad, Goto
    <2> QED
      BY <1>s, <2>1, <2>2 DEF ChunksAreCopied, Threads, Cell
  <1>7. CASE ClearStore
    <2>1. write_offset' = read_offset /\ read_offset' = read_offset /\ read_offset \in Offsets
      BY <1>7 DEF ClearStore, IInv, TypeOK, LoadsAreOrdered
    <2>2. Fill' = 0
      BY <2>1, DistanceWraps DEF Fill, Offsets
    <2>3. Contents' = <<>>
      BY <2>2 DEF Contents
    <2>4. Fifo!Clear
      BY <1>7, <2>3 DEF ClearStore, Fifo!Clear
    <2>5. pc'["writer"] # "copied" /\ pc'["reader"] = "idle"
      BY <1>7, <1>t DEF ClearStore, Goto, IInv, LoadsAreOrdered, Threads
    <2> QED
      BY <2>4, <2>5 DEF Fifo!FifoNext, ChunksAreCopied
  <1>8. CASE UNCHANGED vars
    BY <1>8, <1>s DEF vars, ChunksAreCopied, Cell
  <1> QED
    BY <1>1, <1>2, <1>3, <1>4, <1>5, <1>6, <1>7, <1>8 DEF Next

\* The ring buffer is the bounded queue soundio.h:1172 promises: whatever the
\* interleaving of loads, copies and advances, items come out once, in order and
\* unaltered.  That the capacity divides the range of the offsets is needed: at
\* the wrap of an unsigned long the address of an offset would jump otherwise.
THEOREM BufferIsAQueue ==
  (ConcurrentClear = FALSE /\ Modulus % Capacity = 0) => (Spec => RefinesFifo)
  <1> SUFFICES ASSUME ConcurrentClear = FALSE, Modulus % Capacity = 0 PROVE Spec => RefinesFifo
    OBVIOUS
  <1>1. Init => IInv /\ ChunksAreCopied /\ Fifo!FifoInit
    <2> SUFFICES ASSUME Init PROVE IInv /\ ChunksAreCopied /\ Fifo!FifoInit
      OBVIOUS
    <2>1. IInv
      BY InitIInv
    <2>2. ChunksAreCopied
      BY DEF Init, ChunksAreCopied, Threads
    <2>3. Fill = 0
      BY DistanceWraps, CapacityAssumption DEF Init, Fill, Offsets, Modulus
    <2>4. Contents = <<>>
      BY <2>3 DEF Contents
    <2> QED
      BY <2>1, <2>2, <2>4 DEF Init, Fifo!FifoInit
  <1>2. IInv /\ ChunksAreCopied /\ [Next]_vars
          => IInv' /\ ChunksAreCopied' /\ [Fifo!FifoNext]_(Fifo!fifoVars)
    BY NextIInv, CopiesStep
  <1> QED
    BY <1>1, <1>2, PTL DEF Spec, RefinesFifo, Fifo!FifoSpec
=============================================================================
