---------------------------- MODULE RdmaQueueLocal ----------------------------
(***************************************************************************)
(* An unpaired rdma_queue: one queue object in shared memory, a producer   *)
(* and a consumer that run concurrently and share nothing else.            *)
(*                                                                         *)
(* Two kinds of producer use it.  Control queues (krx, ktx, kin, kout,     *)
(* arx, atx) reserve, copy a structure in with rq_try_enqueue and flush;   *)
(* the transmit buffer of a connection is filled in place by the           *)
(* application between flextcp_connection_tx_alloc2 and _tx_send, which    *)
(* enqueues with a NULL source.  Each store to an offset is a step of its  *)
(* own; between the check of the free space and that store the other side  *)
(* may run.                                                                *)
(*                                                                         *)
(* A byte is identified by its place in the stream of bytes enqueued, so   *)
(* a buffer slot holds a natural number, or Junk when what was copied      *)
(* there is not a byte of the message.                                     *)
(***************************************************************************)
EXTENDS RdmaRing, Sequences

CONSTANTS StructSizes,    \* sizes of the structures enqueued on a control queue
          AllocSizes,     \* amounts of payload asked for with tx_alloc
          Alloc2Sizes,    \* amounts of payload asked for with tx_alloc2
          ReadSizes,      \* amounts the consumer dequeues or peeks at
          MaxBytes        \* bound: bytes enqueued in a behaviour

ASSUME LocalAssumption ==
  /\ StructSizes \subseteq Nat \ {0}
  /\ AllocSizes \subseteq Nat \ {0}
  /\ Alloc2Sizes \subseteq Nat \ {0}
  /\ ReadSizes \subseteq Nat \ {0}
  /\ MaxBytes \in Nat

VARIABLES
  rx_offset, tx_offset, flush_offset,  \* endpoints.rx/tx.offset and flush_offset
  buffer,                              \* the data area
  pstep, psize,     \* the producer: where it is, bytes it reserved or allocated
  cstep, csize,     \* the consumer: where it is, bytes it is dequeuing
  got,              \* what the consumer's last copy produced
  enqueued, dequeued  \* history: bytes ever enqueued and ever dequeued

shared == <<rx_offset, tx_offset, flush_offset, buffer>>
pvars == <<pstep, psize>>
cvars == <<cstep, csize, got>>
vars == <<rx_offset, tx_offset, flush_offset, buffer, pstep, psize,
          cstep, csize, got, enqueued, dequeued>>

Junk == -1
Byte == Nat \cup {Junk}

-------------------------------------------------------------------------------
(* What the two sides compute from the offsets. *)

rq_nbytes_to_flush == rq_nbytes(flush_offset, tx_offset, TRUE)
\* Mutants: equal offsets mean full; bytes not yet flushed are counted.
EnqueuedFullWhenEqual == rq_nbytes(rx_offset, flush_offset, FALSE)
EnqueuedUnflushed == rq_nbytes(rx_offset, tx_offset, TRUE)
rq_nbytes_enqueued == rq_nbytes(rx_offset, flush_offset, TRUE)
\* Mutant: the formula of a paired queue is used.
EmptyAsPaired == buffer_size - rq_nbytes_to_flush - RDMA_QUEUE_PAD
rq_nbytes_empty ==
  buffer_size - rq_nbytes(rx_offset, tx_offset, TRUE) - RDMA_QUEUE_PAD
rq_nbytes_max_flush == rq_nbytes(flush_offset, rx_offset, FALSE)
rq_nbytes_can_reserve == rq_nbytes_max_flush - rq_nbytes_to_flush

\* rq_nflush of n bytes: the offset it stores.
FlushedTo(n) ==
  LET bytes == IF rq_nbytes_to_flush > n THEN n ELSE rq_nbytes_to_flush
  IN  IF flush_offset + bytes > buffer_size
      THEN flush_offset + bytes - buffer_size
      ELSE flush_offset + bytes

-------------------------------------------------------------------------------
\* rq_allocate_in_place clears the header.
Init ==
  /\ rx_offset = 0 /\ tx_offset = 0 /\ flush_offset = 0
  /\ buffer = [s \in Slot |-> Junk]
  /\ pstep = "idle" /\ psize = 0
  /\ cstep = "idle" /\ csize = 0 /\ got = <<>>
  /\ enqueued = 0 /\ dequeued = 0

\* rq_try_reserve_flush returning 1; returning 0 changes nothing.
ReserveFlush(sz) ==
  /\ pstep = "idle"
  /\ enqueued + sz <= MaxBytes
  /\ rq_nbytes_max_flush >= rq_nbytes_to_flush + sz
  /\ pstep' = "reserved" /\ psize' = sz
  /\ UNCHANGED <<shared, cvars, enqueued, dequeued>>

\* rq_try_enqueue of the reserved structure: the check of the free space.
EnqueueCheck ==
  /\ pstep = "reserved"
  /\ psize <= rq_nbytes_empty
  /\ pstep' = "copying"
  /\ UNCHANGED <<shared, psize, cvars, enqueued, dequeued>>

\* rq_try_enqueue when the structure does not fit: it flushes and returns 1,
\* which every caller that holds a reservation answers with abort().
EnqueueFull ==
  /\ pstep = "reserved"
  /\ psize > rq_nbytes_empty
  /\ flush_offset' = FlushedTo(rq_nbytes_to_flush)
  /\ pstep' = "aborted"
  /\ UNCHANGED <<rx_offset, tx_offset, buffer, psize, cvars, enqueued, dequeued>>

\* The two memcpy of rq_try_enqueue.  The second one reads the structure from
\* byte b2 on; beyond the structure's end there is only other memory.
StructByte(k) ==
  LET b1 == FirstPart(tx_offset, psize)
      source == IF k < b1 THEN k ELSE SecondPart(tx_offset, psize) + (k - b1)
  IN  IF source < psize THEN enqueued + source ELSE Junk
EnqueueCopy ==
  /\ pstep = "copying"
  /\ buffer' = [s \in Slot |-> IF s \in SlotsFrom(tx_offset, psize)
                               THEN StructByte(SlotIndex(tx_offset, s))
                               ELSE buffer[s]]
  /\ pstep' = "copied"
  /\ UNCHANGED <<rx_offset, tx_offset, flush_offset, psize, cvars, enqueued, dequeued>>

\* The store that ends rq_try_enqueue.
EnqueuePublish ==
  /\ pstep = "copied"
  /\ tx_offset' = Advance(tx_offset, psize)
  /\ enqueued' = enqueued + psize
  /\ pstep' = "idle" /\ psize' = 0
  /\ UNCHANGED <<rx_offset, flush_offset, buffer, cvars, dequeued>>

\* The request, cut to what can be reserved.
Available(len) == IF rq_nbytes_can_reserve < len THEN rq_nbytes_can_reserve ELSE len

\* flextcp_connection_tx_alloc: cut once more at the end of the buffer.  An
\* allocation of no bytes gives the application nothing to fill.
TxAlloc(len) ==
  /\ pstep = "idle"
  /\ enqueued + len <= MaxBytes
  /\ psize' = FirstPart(tx_offset, Available(len))
  /\ psize' > 0
  /\ pstep' = "allocated"
  /\ UNCHANGED <<shared, cvars, enqueued, dequeued>>

\* Mutant: tx_alloc2 stops at the end of the buffer, as tx_alloc does.
TxAlloc2OnePiece(len) == TxAlloc(len)
\* flextcp_connection_tx_alloc2: one or two pieces.
TxAlloc2(len) ==
  /\ pstep = "idle"
  /\ enqueued + len <= MaxBytes
  /\ psize' = Available(len)
  /\ psize' > 0
  /\ pstep' = "allocated"
  /\ UNCHANGED <<shared, cvars, enqueued, dequeued>>

\* The application writes the piece or pieces it was given.
FillPayload ==
  /\ pstep = "allocated"
  /\ buffer' = [s \in Slot |-> IF s \in SlotsFrom(tx_offset, psize)
                               THEN enqueued + SlotIndex(tx_offset, s)
                               ELSE buffer[s]]
  /\ pstep' = "filled"
  /\ UNCHANGED <<rx_offset, tx_offset, flush_offset, psize, cvars, enqueued, dequeued>>

\* flextcp_connection_tx_send: rq_try_enqueue(tx, NULL, len), which has nothing
\* to copy; when it fails tx_send aborts.
TxSend ==
  /\ pstep = "filled"
  /\ psize <= rq_nbytes_empty
  /\ pstep' = "copied"
  /\ UNCHANGED <<shared, psize, cvars, enqueued, dequeued>>

TxSendFull ==
  /\ pstep = "filled"
  /\ psize > rq_nbytes_empty
  /\ flush_offset' = FlushedTo(rq_nbytes_to_flush)
  /\ pstep' = "aborted"
  /\ UNCHANGED <<rx_offset, tx_offset, buffer, psize, cvars, enqueued, dequeued>>

\* rq_nflush, by conns_bump with txb_bump bytes or through rq_flush with all.
NFlush(n) ==
  /\ pstep = "idle"
  /\ rq_nbytes_to_flush > 0
  /\ flush_offset' = FlushedTo(n)
  /\ UNCHANGED <<rx_offset, tx_offset, buffer, pvars, cvars, enqueued, dequeued>>

-------------------------------------------------------------------------------
(* The consumer: rq_try_possible_dequeue. *)

DequeueCheck(sz) ==
  /\ cstep = "idle"
  /\ rq_nbytes_enqueued >= sz
  /\ cstep' = "reading" /\ csize' = sz
  /\ UNCHANGED <<shared, pvars, got, enqueued, dequeued>>

DequeueCopy ==
  /\ cstep = "reading"
  /\ got' = [i \in 1 .. csize |-> buffer[SlotAt(rx_offset, i - 1)]]
  /\ cstep' = "read"
  /\ UNCHANGED <<shared, pvars, csize, enqueued, dequeued>>

\* rq_try_dequeue stores the new offset; rq_try_peek leaves it.
Dequeue ==
  /\ cstep = "read"
  /\ rx_offset' = Advance(rx_offset, csize)
  /\ dequeued' = dequeued + csize
  /\ cstep' = "idle" /\ csize' = 0 /\ got' = <<>>
  /\ UNCHANGED <<tx_offset, flush_offset, buffer, pvars, enqueued>>

Peek ==
  /\ cstep = "read"
  /\ cstep' = "idle" /\ csize' = 0 /\ got' = <<>>
  /\ UNCHANGED <<shared, pvars, enqueued, dequeued>>

-------------------------------------------------------------------------------
Producer ==
  \/ \E sz \in StructSizes : ReserveFlush(sz)
  \/ EnqueueCheck \/ EnqueueFull \/ EnqueueCopy \/ EnqueuePublish
  \/ \E len \in AllocSizes : TxAlloc(len)
  \/ \E len \in Alloc2Sizes : TxAlloc2(len)
  \/ FillPayload \/ TxSend \/ TxSendFull
  \/ \E n \in StructSizes \cup AllocSizes \cup Alloc2Sizes : NFlush(n)

Consumer ==
  \/ \E sz \in ReadSizes : DequeueCheck(sz)
  \/ DequeueCopy \/ Dequeue \/ Peek

Next == Producer \/ Consumer
Spec == Init /\ [][Next]_vars

-------------------------------------------------------------------------------
(* Properties. *)

TypeOK ==
  /\ rx_offset \in Offset /\ tx_offset \in Offset /\ flush_offset \in Offset
  /\ buffer \in [Slot -> Byte]
  /\ pstep \in {"idle", "reserved", "copying", "allocated", "filled", "copied", "aborted"}
  /\ cstep \in {"idle", "reading", "read"}
  /\ psize \in 0 .. buffer_size /\ csize \in 0 .. buffer_size
  /\ enqueued \in Nat /\ dequeued \in Nat

\* The bytes enqueued and not yet dequeued.
Unread == enqueued - dequeued

\* The offsets account for every byte: the distances that the two sides compute
\* from offsets that the other side moves concurrently are exactly the bytes
\* enqueued and not dequeued, the flushed part plus the unflushed part, and they
\* never exceed what keeps a full buffer apart from an empty one (the PAD of
\* rq_nbytes_empty).
OffsetsAccountForBytes ==
  /\ rq_nbytes(rx_offset, tx_offset, TRUE) = Unread
  /\ rq_nbytes_enqueued + rq_nbytes_to_flush = Unread
  /\ 0 <= Unread /\ Unread <= buffer_size - RDMA_QUEUE_PAD

\* The bytes the producer is about to publish: it may be storing to them now.
InWriting ==
  IF pstep \in {"copying", "copied", "allocated", "filled"}
  THEN SlotsFrom(tx_offset, psize) ELSE {}

\* The producer never stores to a slot whose byte the consumer has not taken,
\* although it decides where to write from an rx_offset that it read earlier
\* (rq_try_enqueue, tx_alloc2).
WriterAvoidsUnread == InWriting \cap SlotsFrom(rx_offset, Unread) = {}

\* The assertion of rq_nbytes_can_reserve for unpaired queues.
CanReserveAssertion == rq_nbytes_max_flush >= rq_nbytes_to_flush

\* Every payload byte that was sent and not read is in its slot.
UnreadIntact ==
  \A i \in 0 .. Unread - 1 : buffer[SlotAt(rx_offset, i)] = dequeued + i

\* What the consumer copies out are the next bytes of the stream, in order, none
\* lost, repeated or overwritten while the producer keeps running.
ReadsInOrder ==
  cstep = "read" => \A i \in 1 .. csize : got[i] = dequeued + i - 1

\* The queue implements the bounded byte stream that its users rely on: every step
\* of either side is a step of the stream or changes nothing in it.
Stream == INSTANCE ByteStream WITH
  Capacity <- buffer_size - RDMA_QUEUE_PAD, sent <- enqueued,
  visible <- dequeued + rq_nbytes_enqueued, taken <- dequeued, reading <- got
ImplementsStream == Stream!Spec

\* An application that keeps asking for buffer space while the fast path keeps
\* consuming sends all it has, unless tx_send aborts: tx_alloc2 gives it space
\* where tx_alloc has none left before the end of the buffer.
KeepsSending ==
  <>(pstep = "aborted" \/ \A len \in AllocSizes \cup Alloc2Sizes : enqueued + len > MaxBytes)

\* Both sides keep running; the consumer may peek (fastpath_poll does) but does not
\* peek forever.
Fairness ==
  /\ WF_vars(Producer)
  /\ WF_vars(\E sz \in ReadSizes : DequeueCheck(sz))
  /\ WF_vars(DequeueCopy) /\ SF_vars(Dequeue)
FairSpec == Spec /\ Fairness
===============================================================================
