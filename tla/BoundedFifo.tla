---------------------------- MODULE BoundedFifo ----------------------------
(***************************************************************************)
(* What soundio.h promises of a ring buffer (soundio/soundio.h:1172): a    *)
(* single-reader single-writer queue of fixed size.  Whole calls are       *)
(* atomic here: a put appends a chunk that fits, a get removes and returns *)
(* a prefix, a clear empties the queue.                                    *)
(***************************************************************************)
EXTENDS Integers, Sequences

CONSTANTS Capacity,  \* the number of items the queue holds
          Values     \* the items

VARIABLES queue,     \* the items in it, oldest first
          last       \* the last call that completed and the items it moved

fifoVars == <<queue, last>>

Chunks == UNION {[1..n -> Values] : n \in 0..Capacity}

FifoInit ==
  /\ queue = <<>>
  /\ last = <<"clear", <<>>>>

Put(items) ==
  /\ Len(queue) + Len(items) <= Capacity
  /\ queue' = queue \o items
  /\ last' = <<"put", items>>

Get(n) ==
  /\ n <= Len(queue)
  /\ queue' = SubSeq(queue, n + 1, Len(queue))
  /\ last' = <<"get", SubSeq(queue, 1, n)>>

Clear ==
  /\ queue' = <<>>
  /\ last' = <<"clear", <<>>>>

FifoNext ==
  \/ \E items \in Chunks : Put(items)
  \/ \E n \in 0..Capacity : Get(n)
  \/ Clear

FifoSpec == FifoInit /\ [][FifoNext]_fifoVars
=============================================================================
