---------------------------- MODULE RdmaQueuePaired ---------------------------
(***************************************************************************)
(* A paired rdma_queue: the sender and the receiver each have a queue      *)
(* object of the same size, and the sender's rq_nflush copies bytes and    *)
(* offsets to the receiver's object with one-sided RDMA operations.        *)
(*                                                                         *)
(* rdma_write and rdma_read only post a work request.  The adapter         *)
(* executes the requests of a queue pair in order, each at some later      *)
(* time, and reads the sender's memory when it does (the requests are not  *)
(* posted inline).  With PromptDma the adapter is assumed to have executed *)
(* everything posted before the sender starts its next operation.          *)
(*                                                                         *)
(* Bytes are identified by their place in the stream, as in                *)
(* RdmaQueueLocal.  Two senders are modelled: the application, which fills *)
(* the transmit buffer of a connection in place (Spec), and the fast path, *)
(* which enqueues received payload that it has already written in place    *)
(* and checks it against rq_nbytes_empty only (SegmentSpec).               *)
(***************************************************************************)
EXTENDS RdmaRing, Sequences

CONSTANTS AllocSizes,      \* amounts an application asks for with tx_alloc2
          SegmentSizes,    \* payload sizes enqueued by the fast path
          ReadSizes,       \* sizes the receiver dequeues
          PromptDma,       \* BOOLEAN, see above
          MaxUnread,       \* bound: bytes that may be underway or unread at a time
          MaxPosted,       \* bound: work requests posted and not executed
          MaxBytes         \* bound: bytes enqueued in a behaviour

ASSUME PairedAssumption ==
  /\ AllocSizes \subseteq Nat \ {0} /\ SegmentSizes \subseteq Nat \ {0}
  /\ ReadSizes \subseteq Nat \ {0}
  /\ PromptDma \in BOOLEAN
  /\ MaxUnread \in Nat /\ MaxPosted \in Nat /\ MaxBytes \in Nat

VARIABLES
  tx_offset, flush_offset, rx_seen, sbuffer,  \* the sender's object; rx_seen is
                                              \* its copy of the receiver's rx.offset
  rx_offset, tx_seen, rbuffer,                \* the receiver's object; tx_seen is
                                              \* its copy of the sender's tx.offset
  posted,             \* work requests not yet executed, oldest first
  sstep,              \* where the sender's rq_nflush is
  max_flush, flushed, \* the amount it was given and the amount it has flushed
  cstep, csize, got,  \* the receiver's dequeue in progress
  enqueued, dequeued  \* history: bytes ever enqueued and ever dequeued

sender == <<tx_offset, flush_offset, rx_seen, sbuffer>>
receiver == <<rx_offset, tx_seen, rbuffer>>
svars == <<sstep, max_flush, flushed>>
cvars == <<cstep, csize, got>>
vars == <<tx_offset, flush_offset, rx_seen, sbuffer, rx_offset, tx_seen, rbuffer,
          posted, sstep, max_flush, flushed, cstep, csize, got, enqueued, dequeued>>

Junk == -1
MinOf(a, b) == IF a < b THEN a ELSE b

-------------------------------------------------------------------------------
rq_nbytes_to_flush == rq_nbytes(flush_offset, tx_offset, TRUE)
rq_nbytes_empty == buffer_size - rq_nbytes_to_flush - RDMA_QUEUE_PAD
\* Mutant: equal offsets mean full.
EnqueuedFullWhenEqual == rq_nbytes(rx_offset, tx_seen, FALSE)
rq_nbytes_enqueued == rq_nbytes(rx_offset, tx_seen, TRUE)
rq_nbytes_max_flush(flush) == rq_nbytes(flush, rx_seen, FALSE)

\* Work requests: copy n bytes from an offset on, publish tx.offset, fetch rx.offset.
Data(offset, n) == [op |-> "data", offset |-> offset, n |-> n]
WriteTxOffset == [op |-> "tx", offset |-> 0, n |-> 0]
ReadRxOffset == [op |-> "rx", offset |-> 0, n |-> 0]

\* One pass of the loop of rq_nflush with the flush offset at flush: the bytes it
\* posts and the requests for them (two when the piece wraps).
PassBytes(flush, max_bytes) == MinOf(max_bytes, rq_nbytes_max_flush(flush))
\* Mutant: the piece after the wrap is not posted.
PostsFirstPiece(flush, bytes) ==
  IF bytes > 0 THEN <<Data(flush, FirstPart(flush, bytes))>> ELSE <<>>
PassPosts(flush, bytes) ==
  (IF bytes > 0 THEN <<Data(flush, FirstPart(flush, bytes))>> ELSE <<>>)
  \o (IF SecondPart(flush, bytes) > 0 THEN <<Data(0, SecondPart(flush, bytes))>> ELSE <<>>)

\* The number of requests that one pass posts at most: two for the bytes and one
\* for an offset.
PostsPerPass == 3

\* The sender is between two operations, and the queue pair has room.
SenderIdle(posts) ==
  /\ sstep = "idle"
  /\ IF PromptDma THEN posted = <<>> ELSE Len(posted) + posts <= MaxPosted

\* The sender's buffer once the next sz bytes of the stream are in place.
Filled(sz) ==
  [s \in Slot |-> IF s \in SlotsFrom(tx_offset, sz)
                  THEN enqueued + SlotIndex(tx_offset, s)
                  ELSE sbuffer[s]]

-------------------------------------------------------------------------------
Init ==
  /\ tx_offset = 0 /\ flush_offset = 0 /\ rx_seen = 0
  /\ rx_offset = 0 /\ tx_seen = 0
  /\ sbuffer = [s \in Slot |-> Junk] /\ rbuffer = [s \in Slot |-> Junk]
  /\ posted = <<>>
  /\ sstep = "idle" /\ max_flush = 0 /\ flushed = 0
  /\ cstep = "idle" /\ csize = 0 /\ got = <<>>
  /\ enqueued = 0 /\ dequeued = 0

\* Mutant: what is enqueued and not flushed is forgotten.
CanReserveUnflushed == rq_nbytes_max_flush(flush_offset)
\* rq_nbytes_can_reserve, where it does not post a read.
CanReserve == rq_nbytes_max_flush(flush_offset) - rq_nbytes_to_flush

\* flextcp_connection_tx_alloc2(len), the application filling what it was given
\* and flextcp_connection_tx_send for all of it (which aborts where rq_try_enqueue
\* has less room than was allocated, see TxSendFull in RdmaQueueLocal).
TxAllocSend(len) ==
  LET sz == MinOf(len, CanReserve)
  IN  /\ SenderIdle(0)
      /\ enqueued + sz <= MaxBytes /\ enqueued + sz - dequeued <= MaxUnread
      /\ sz > 0 /\ sz <= rq_nbytes_empty
      /\ sbuffer' = Filled(sz)
      /\ tx_offset' = Advance(tx_offset, sz)
      /\ enqueued' = enqueued + sz
      /\ UNCHANGED <<flush_offset, rx_seen, receiver, posted, svars, cvars, dequeued>>

\* tx_alloc2 when nothing can be reserved: it has posted a read of rx.offset.
TxAllocFails ==
  /\ SenderIdle(1)
  /\ CanReserve <= 0
  /\ posted' = Append(posted, ReadRxOffset)
  /\ UNCHANGED <<sender, receiver, svars, cvars, enqueued, dequeued>>

\* The first pass of rq_nflush for max_bytes of the bytes up to tx.  If the
\* receiver seems to have room for them it ends by publishing tx.offset; if not,
\* it flushes what fits, posts a read of rx.offset and goes into a second pass.
FirstPass(max_bytes) ==
  LET bytes == PassBytes(flush_offset, max_bytes)
      short == bytes # max_bytes
  IN  /\ flush_offset' = Advance(flush_offset, bytes)
      /\ posted' = posted \o PassPosts(flush_offset, bytes)
                   \o <<IF short THEN ReadRxOffset ELSE WriteTxOffset>>
      /\ sstep' = IF short THEN "second" ELSE "idle"
      /\ max_flush' = max_bytes /\ flushed' = bytes

\* The second pass, which is given the whole amount again.  The read that the
\* first pass posted may or may not have completed.
SecondPass ==
  /\ sstep = "second"
  /\ Len(posted) + PostsPerPass <= MaxPosted
  /\ LET bytes == PassBytes(flush_offset, max_flush)
     IN  /\ flush_offset' = Advance(flush_offset, bytes)
         /\ posted' = posted \o PassPosts(flush_offset, bytes)
                      \o (IF flushed + bytes > 0 THEN <<WriteTxOffset>> ELSE <<>>)
         /\ flushed' = flushed + bytes
  /\ sstep' = "idle"
  /\ UNCHANGED <<tx_offset, rx_seen, sbuffer, receiver, max_flush, cvars, enqueued, dequeued>>

\* conns_bump: rq_nflush of the txb_bump bytes that were sent since the last one.
ConnsBump ==
  /\ SenderIdle(PostsPerPass)
  /\ rq_nbytes_to_flush > 0
  /\ FirstPass(rq_nbytes_to_flush)
  /\ UNCHANGED <<tx_offset, rx_seen, sbuffer, receiver, cvars, enqueued, dequeued>>

\* fast_flows_packet with an in-order segment that fits what rq_nbytes_empty
\* leaves: rq_try_enqueue(rx, NULL, sz) and rq_nflush(rx, sz).
ReceiveSegment(sz) ==
  /\ SenderIdle(PostsPerPass)
  /\ enqueued + sz <= MaxBytes /\ enqueued + sz - dequeued <= MaxUnread
  /\ sz <= rq_nbytes_empty
  /\ sbuffer' = Filled(sz)
  /\ tx_offset' = Advance(tx_offset, sz)
  /\ FirstPass(MinOf(sz, rq_nbytes(flush_offset, tx_offset', TRUE)))
  /\ enqueued' = enqueued + sz
  /\ UNCHANGED <<rx_seen, receiver, cvars, dequeued>>

-------------------------------------------------------------------------------
\* The adapter executes the oldest request of the queue pair.
Execute ==
  /\ posted # <<>>
  /\ posted' = Tail(posted)
  /\ LET wr == Head(posted)
     IN  \/ /\ wr.op = "data"
            /\ rbuffer' = [s \in Slot |->
                 IF s \in SlotsFrom(wr.offset, wr.n) THEN sbuffer[s] ELSE rbuffer[s]]
            /\ UNCHANGED <<rx_seen, tx_seen>>
         \/ /\ wr.op = "tx" /\ tx_seen' = tx_offset
            /\ UNCHANGED <<rx_seen, rbuffer>>
         \/ /\ wr.op = "rx" /\ rx_seen' = rx_offset
            /\ UNCHANGED <<tx_seen, rbuffer>>
  /\ UNCHANGED <<tx_offset, flush_offset, sbuffer, rx_offset, svars, cvars, enqueued, dequeued>>

\* The receiver: rq_try_dequeue in its three steps.
DequeueCheck(sz) ==
  /\ cstep = "idle"
  /\ rq_nbytes_enqueued >= sz
  /\ cstep' = "reading" /\ csize' = sz
  /\ UNCHANGED <<sender, receiver, posted, svars, got, enqueued, dequeued>>

DequeueCopy ==
  /\ cstep = "reading"
  /\ got' = [i \in 1 .. csize |-> rbuffer[SlotAt(rx_offset, i - 1)]]
  /\ cstep' = "read"
  /\ UNCHANGED <<sender, receiver, posted, svars, csize, enqueued, dequeued>>

Dequeue ==
  /\ cstep = "read"
  /\ rx_offset' = Advance(rx_offset, csize)
  /\ dequeued' = dequeued + csize
  /\ cstep' = "idle" /\ csize' = 0 /\ got' = <<>>
  /\ UNCHANGED <<sender, tx_seen, rbuffer, posted, svars, enqueued>>

-------------------------------------------------------------------------------
\* The transmit buffer of a connection, whose sender is the application.  It has
\* no second pass because none is ever started: see FlushedInOnePass.
Sender ==
  \/ \E len \in AllocSizes : TxAllocSend(len)
  \/ TxAllocFails
  \/ ConnsBump
Receiver == (\E sz \in ReadSizes : DequeueCheck(sz)) \/ DequeueCopy \/ Dequeue
Next == Sender \/ Execute \/ Receiver
Spec == Init /\ [][Next]_vars

\* The receive buffer of a connection, whose sender is the fast path.
NextSegment == (\E sz \in SegmentSizes : ReceiveSegment(sz)) \/ SecondPass \/ Execute \/ Receiver
SegmentSpec == Init /\ [][NextSegment]_vars

-------------------------------------------------------------------------------
(* Properties. *)

TypeOK ==
  /\ tx_offset \in Offset /\ flush_offset \in Offset /\ rx_seen \in Offset
  /\ rx_offset \in Offset /\ tx_seen \in Offset
  /\ sbuffer \in [Slot -> -1 .. MaxBytes] /\ rbuffer \in [Slot -> -1 .. MaxBytes]
  /\ posted \in Seq([op : {"data", "tx", "rx"}, offset : Offset, n : Offset])
  /\ sstep \in {"idle", "second"} /\ max_flush \in Nat /\ flushed \in Nat
  /\ cstep \in {"idle", "reading", "read"}
  /\ enqueued \in 0 .. MaxBytes /\ dequeued \in Nat

\* The receiver copies out the next bytes of the stream in order: nothing it sees
\* published by tx.offset is missing, stale or overwritten in its own buffer.
ReadsInOrder ==
  cstep = "read" => \A i \in 1 .. csize : got[i] = dequeued + i - 1

\* Once the adapter is idle and everything is flushed, the receiver sees every
\* byte that it has not dequeued: a full queue does not look empty.
NothingHidden ==
  /\ TypeOK
  /\ (posted = <<>> /\ sstep = "idle" /\ rq_nbytes_to_flush = 0 /\ cstep = "idle")
       => rq_nbytes_enqueued = enqueued - dequeued

\* What tx_alloc2 handed out is flushed by one pass of rq_nflush: the sender's
\* possibly old copy of rx.offset is never too old for the bytes that it allowed.
FlushedInOnePass == sstep = "idle" /\ flushed = max_flush

\* The assertion after the rq_nflush of fast_flows_packet.
SegmentFlushed == sstep = "idle" => flushed = max_flush
===============================================================================
