------------------------------- MODULE RdmaRing -------------------------------
(***************************************************************************)
(* Offset arithmetic of struct rdma_queue (include/rdma_queue.h and        *)
(* lib/utils/rdma_queue.c).  An offset is a byte position in               *)
(* 0 .. buffer_size: an operation that ends exactly at the end of the      *)
(* buffer leaves the offset at buffer_size and the next one wraps, so 0    *)
(* and buffer_size name the same slot and 0 only occurs before the first   *)
(* lap.                                                                    *)
(***************************************************************************)
EXTENDS Integers

CONSTANTS buffer_size,       \* bytes in the data area of the queue
          RDMA_QUEUE_PAD     \* the dummy bytes that keep full and empty apart

ASSUME RingAssumption ==
  /\ buffer_size \in Nat
  /\ RDMA_QUEUE_PAD \in Nat \ {0}
  /\ RDMA_QUEUE_PAD < buffer_size

Offset == 0 .. buffer_size
Slot == 0 .. buffer_size - 1

\* Bytes from one offset forward to another; "same" is what equal offsets mean.
Distance(from, to, same) ==
  IF from < to THEN to - from
  ELSE IF from > to THEN buffer_size - from + to
  ELSE same

rq_nbytes(from, to, inner) ==
  Distance(from, to, IF inner THEN 0 ELSE buffer_size - RDMA_QUEUE_PAD)

\* The bytes an operation of sz bytes handles before the end of the buffer (b1)
\* and after wrapping (b2), and the offset it leaves behind.
FirstPart(offset, sz) == IF offset + sz > buffer_size THEN buffer_size - offset ELSE sz
SecondPart(offset, sz) == sz - FirstPart(offset, sz)
Advance(offset, sz) ==
  IF SecondPart(offset, sz) > 0 THEN SecondPart(offset, sz)
  ELSE offset + FirstPart(offset, sz)

\* The slot of the i-th byte (from 0) at or after an offset.
SlotAt(offset, i) == IF offset + i >= buffer_size THEN offset + i - buffer_size ELSE offset + i

\* Which byte at or after an offset a slot holds: the inverse of SlotAt.
SlotIndex(offset, s) == IF s >= offset THEN s - offset ELSE s - offset + buffer_size

\* The slots of the sz bytes at or after an offset.
SlotsFrom(offset, sz) == {s \in Slot : SlotIndex(offset, s) < sz}
===============================================================================
