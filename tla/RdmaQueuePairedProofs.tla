------------------------- MODULE RdmaQueuePairedProofs ------------------------
(***************************************************************************)
(* Proofs about the paired rdma_queue under the application's sender, for  *)
(* every buffer size, pad and set of request sizes, when the adapter is    *)
(* prompt and less than the buffer is underway or unread at a time.        *)
(***************************************************************************)
EXTENDS RdmaQueuePaired, ArithmeticProofs, SequenceTheorems, TLAPS

\* What the two theorems assume of the adapter and of the receiver.
PromptAndRead == PromptDma = TRUE /\ MaxUnread < buffer_size

Request == [op : {"data", "tx", "rx"}, offset : Offset, n : Offset]
Unread == enqueued - dequeued
Publishing == \E i \in 1 .. Len(posted) : posted[i].op = "tx"

\* The offsets of both objects, measured from the receiver's rx.offset, account for
\* every byte, and the sender's copy of rx.offset leaves room for what it took in.
OffsetInv ==
  /\ TypeOK /\ csize \in Nat
  /\ FlushedInOnePass
  /\ Ahead(rx_offset, tx_offset) = Unread
  /\ 0 <= Unread /\ Unread < buffer_size
  /\ Ahead(rx_offset, flush_offset) + Ahead(flush_offset, tx_offset) = Unread
  /\ Ahead(rx_offset, tx_seen) <= Ahead(rx_offset, flush_offset)
  /\ Ahead(flush_offset, tx_offset) <= buffer_size - RDMA_QUEUE_PAD
  /\ Ahead(flush_offset, tx_offset) <= Behind(flush_offset, rx_seen)
  /\ cstep # "idle" => csize <= Ahead(rx_offset, tx_seen)

\* The offset is posted behind the bytes that it publishes; while it is posted
\* nothing waits to be flushed, and otherwise the receiver has seen it.
PostedInv ==
  /\ \A i \in 1 .. Len(posted) : i < Len(posted) => posted[i].op = "data"
  /\ posted # <<>> => posted[Len(posted)].op # "data"
  /\ posted # <<>> /\ posted[Len(posted)].op = "rx" => Len(posted) = 1
  /\ IF Publishing THEN Ahead(flush_offset, tx_offset) = 0
     ELSE Ahead(rx_offset, tx_seen) = Ahead(rx_offset, flush_offset)

Pending(s) ==
  \E i \in 1 .. Len(posted) :
    posted[i].op = "data" /\ s \in SlotsFrom(posted[i].offset, posted[i].n)

\* The sender's buffer holds every byte that was not dequeued, and the receiver's
\* holds every flushed one that no posted request is still to copy.
ContentInv ==
  \A s \in Slot :
    LET index == SlotIndex(rx_offset, s)
    IN  /\ index < Unread => sbuffer[s] = dequeued + index
        /\ index < Ahead(rx_offset, tx_seen) => rbuffer[s] = dequeued + index
        /\ index < Ahead(rx_offset, flush_offset) /\ ~Pending(s)
             => rbuffer[s] = dequeued + index

PairedInv == OffsetInv /\ PostedInv /\ ContentInv /\ ReadsInOrder

-------------------------------------------------------------------------------
USE RingAssumption, PairedAssumption

\* What the queue computes of its offsets, as distances.
LEMMA QueueDistances ==
  /\ rq_nbytes_to_flush = Ahead(flush_offset, tx_offset)
  /\ rq_nbytes_enqueued = Ahead(rx_offset, tx_seen)
  /\ \A flush : rq_nbytes_max_flush(flush) = Behind(flush, rx_seen)
BY DEF rq_nbytes_to_flush, rq_nbytes_enqueued, rq_nbytes_max_flush, Ahead, Behind

\* Both objects start empty.
LEMMA InitPaired == PromptAndRead /\ Init => PairedInv
BY DEF PromptAndRead, Init, PairedInv, OffsetInv, TypeOK, FlushedInOnePass, PostedInv, ContentInv,
   ReadsInOrder, Publishing, Unread, rq_nbytes_enqueued, rq_nbytes_to_flush, rq_nbytes_max_flush,
   Ahead, rq_nbytes, Distance, Offset, Slot, SlotIndex, Junk

\* The requests of one pass: pieces of data, and none of them an offset.
LEMMA PassRequests ==
  ASSUME NEW flush \in Offset, NEW bytes \in Nat, bytes < buffer_size
  PROVE  /\ PassPosts(flush, bytes) \in Seq(Request)
         /\ \A i \in 1 .. Len(PassPosts(flush, bytes)) : PassPosts(flush, bytes)[i].op = "data"
         /\ \A s \in SlotsFrom(flush, bytes) : \E i \in 1 .. Len(PassPosts(flush, bytes)) :
              s \in SlotsFrom(PassPosts(flush, bytes)[i].offset, PassPosts(flush, bytes)[i].n)
<1> DEFINE b1 == FirstPart(flush, bytes)
           b2 == SecondPart(flush, bytes)
<1>1. b1 \in Offset /\ b2 \in Offset /\ b1 + b2 = bytes
  BY DEF FirstPart, SecondPart, Offset
<1>2. Data(flush, b1) \in Request /\ Data(0, b2) \in Request
  BY <1>1 DEF Data, Request, Offset
<1>3. \A s \in SlotsFrom(flush, bytes) : s \in SlotsFrom(flush, b1) \/ (b2 > 0 /\ s \in SlotsFrom(0, b2))
  BY <1>1 DEF SlotsFrom, SlotIndex, Slot, Offset, FirstPart, SecondPart
<1>4. Data(flush, b1).op = "data" /\ Data(flush, b1).offset = flush /\ Data(flush, b1).n = b1
      /\ Data(0, b2).op = "data" /\ Data(0, b2).offset = 0 /\ Data(0, b2).n = b2
  BY DEF Data
<1> HIDE DEF b1, b2
<1>5. CASE bytes = 0
  <2>1. b1 = 0 /\ b2 = 0
    BY <1>1, <1>5 DEF Offset
  <2>2. PassPosts(flush, bytes) = <<>>
    BY <2>1, <1>5 DEF PassPosts, b1, b2
  <2>3. SlotsFrom(flush, bytes) = {}
    BY <1>5 DEF SlotsFrom, SlotIndex, Slot, Offset
  <2> QED
    BY <2>2, <2>3
<1>6. CASE bytes > 0 /\ b2 = 0
  <2>1. PassPosts(flush, bytes) = <<Data(flush, b1)>>
    BY <1>6 DEF PassPosts, b1, b2
  <2> QED
    BY <2>1, <1>2, <1>3, <1>4, <1>6
<1>7. CASE bytes > 0 /\ b2 > 0
  <2>1. PassPosts(flush, bytes) = <<Data(flush, b1)>> \o <<Data(0, b2)>>
    BY <1>7 DEF PassPosts, b1, b2
  <2>2. Len(PassPosts(flush, bytes)) = 2 /\ PassPosts(flush, bytes)[1] = Data(flush, b1)
        /\ PassPosts(flush, bytes)[2] = Data(0, b2)
    BY <2>1
  <2> QED
    BY <2>1, <2>2, <1>2, <1>3, <1>4
<1> QED
  BY <1>1, <1>5, <1>6, <1>7 DEF Offset

\* Every step of the sender, the receiver and the NIC keeps the account of the bytes.
LEMMA NextOffset ==
  ASSUME PromptAndRead, OffsetInv, PostedInv, [Next]_vars PROVE OffsetInv'
<1> DEFINE unread == Ahead(rx_offset, tx_offset)
           ahead == Ahead(rx_offset, flush_offset)
           waiting == Ahead(flush_offset, tx_offset)
           seen == Ahead(rx_offset, tx_seen)
           room == Behind(flush_offset, rx_seen)
<1>0. /\ tx_offset \in Offset /\ flush_offset \in Offset /\ rx_seen \in Offset
      /\ rx_offset \in Offset /\ tx_seen \in Offset
      /\ enqueued \in Nat /\ dequeued \in Nat /\ csize \in Nat
  BY DEF OffsetInv, TypeOK
<1>d. unread \in Nat /\ ahead \in Nat /\ waiting \in Nat /\ seen \in Nat /\ room \in Nat
  BY <1>0, DistanceNat
<1>e. /\ unread = enqueued - dequeued /\ unread < buffer_size
      /\ ahead + waiting = unread /\ seen <= ahead
      /\ waiting <= buffer_size - RDMA_QUEUE_PAD /\ waiting <= room
      /\ cstep # "idle" => csize <= seen
  BY <1>0, <1>d DEF OffsetInv, Unread
<1>n. posted \in Seq(Request)
  BY DEF OffsetInv, TypeOK, Request
<1>q. rq_nbytes_to_flush = waiting /\ rq_nbytes_enqueued = seen
      /\ rq_nbytes_max_flush(flush_offset) = room
  BY QueueDistances
<1> USE DEF sender, receiver, svars, cvars
<1> HIDE DEF unread, ahead, waiting, seen, room
<1>1. ASSUME NEW len \in AllocSizes, TxAllocSend(len) PROVE OffsetInv'
  <2> DEFINE sz == MinOf(len, CanReserve)
  <2>1. /\ sz \in Nat /\ sz > 0 /\ sz <= buffer_size - waiting - RDMA_QUEUE_PAD
        /\ sz <= room - waiting
        /\ enqueued + sz <= MaxBytes /\ enqueued + sz - dequeued <= MaxUnread
    BY <1>d, <1>q, <1>1 DEF TxAllocSend, CanReserve, MinOf, rq_nbytes_empty
  <2>2. /\ sbuffer' = Filled(sz) /\ tx_offset' = Advance(tx_offset, sz) /\ enqueued' = enqueued + sz
        /\ UNCHANGED <<flush_offset, rx_seen, receiver, posted, svars, cvars, dequeued>>
    BY <1>1 DEF TxAllocSend
  <2> HIDE DEF sz
  <2>3. sbuffer' \in [Slot -> -1 .. MaxBytes]
    <3>1. sbuffer \in [Slot -> -1 .. MaxBytes]
      BY DEF OffsetInv, TypeOK
    <3> QED
      BY <1>0, <2>1, <2>2, <3>1, IndexNat DEF Filled, SlotsFrom
  <2>4. unread + sz < buffer_size /\ waiting + sz < buffer_size
    BY <1>0, <1>d, <1>e, <2>1 DEF PromptAndRead
  <2>5. /\ tx_offset' \in Offset /\ Ahead(rx_offset, tx_offset') = unread + sz
        /\ Ahead(flush_offset, tx_offset') = waiting + sz
    BY <1>0, <2>1, <2>2, <2>4, AdvanceTo DEF unread, waiting
  <2>6. TypeOK' /\ csize' \in Nat /\ FlushedInOnePass'
    BY <1>0, <2>1, <2>2, <2>3, <2>5 DEF OffsetInv, TypeOK, FlushedInOnePass
  <2>7. /\ unread + sz = (enqueued + sz) - dequeued /\ 0 <= unread + sz
        /\ ahead + (waiting + sz) = unread + sz
        /\ waiting + sz <= buffer_size - RDMA_QUEUE_PAD /\ waiting + sz <= room
    BY <1>0, <1>d, <1>e, <2>1
  <2> QED
    BY <1>0, <1>e, <2>2, <2>4, <2>5, <2>6, <2>7
       DEF OffsetInv, Unread, ahead, seen, room
<1>2. CASE TxAllocFails
  <2>1. posted' \in Seq(Request)
    BY <1>0, <1>2, <1>n, AppendProperties DEF TxAllocFails, ReadRxOffset, Request, Offset
  <2> QED
    BY <1>2, <2>1 DEF TxAllocFails, OffsetInv, TypeOK, FlushedInOnePass, Unread, Request
<1>3. CASE ConnsBump
  <2>1. PassBytes(flush_offset, waiting) = waiting
    BY <1>d, <1>e, <1>q DEF PassBytes, MinOf
  <2>2. /\ flush_offset' = Advance(flush_offset, waiting)
        /\ posted' = posted \o PassPosts(flush_offset, waiting) \o <<WriteTxOffset>>
        /\ sstep' = "idle" /\ max_flush' = waiting /\ flushed' = waiting
        /\ UNCHANGED <<tx_offset, rx_seen, sbuffer, receiver, cvars, enqueued, dequeued>>
    BY <1>3, <1>q, <2>1 DEF ConnsBump, FirstPass
  <2>3. waiting < buffer_size
    BY <1>d, <1>e
  <2>4. posted' \in Seq(Request)
    <3>1. PassPosts(flush_offset, waiting) \in Seq(Request)
      BY <1>0, <1>d, <2>3, PassRequests
    <3>2. <<WriteTxOffset>> \in Seq(Request)
      BY DEF WriteTxOffset, Request, Offset
    <3> QED
      BY <1>n, <2>2, <3>1, <3>2, ConcatProperties
  <2>5. /\ flush_offset' \in Offset /\ Ahead(rx_offset, flush_offset') = ahead + waiting
        /\ Ahead(flush_offset', tx_offset) = waiting - waiting
    BY <1>0, <1>d, <1>e, <2>2, <2>3, AdvanceTo, AdvanceFrom DEF waiting, ahead
  <2>6. Behind(flush_offset', rx_seen) \in Nat
    BY <1>0, <2>5, DistanceNat
  <2> QED
    BY <1>0, <1>d, <1>e, <2>2, <2>3, <2>4, <2>5, <2>6
       DEF OffsetInv, TypeOK, FlushedInOnePass, Unread, Request, unread, ahead, waiting, seen, room
<1>4. CASE Execute
  <2>1. posted' \in Seq(Request) /\ Head(posted) = posted[1] /\ 1 \in 1 .. Len(posted)
    BY <1>4, <1>n, HeadTailProperties DEF Execute
  <2>2. UNCHANGED <<tx_offset, flush_offset, sbuffer, rx_offset, svars, cvars, enqueued, dequeued>>
    BY <1>4 DEF Execute
  <2>3. CASE Head(posted).op = "data"
    <3>1. rbuffer' \in [Slot -> -1 .. MaxBytes] /\ UNCHANGED <<rx_seen, tx_seen>>
      BY <1>4, <2>3 DEF Execute, OffsetInv, TypeOK
    <3> QED
      BY <2>1, <2>2, <3>1 DEF OffsetInv, TypeOK, FlushedInOnePass, Unread, Request
  <2>4. CASE Head(posted).op = "tx"
    <3>1. tx_seen' = tx_offset /\ UNCHANGED <<rx_seen, rbuffer>>
      BY <1>4, <2>4 DEF Execute
    <3>2. waiting = 0
      BY <2>1, <2>4 DEF PostedInv, Publishing, waiting
    <3>3. seen <= unread /\ ahead = unread
      BY <1>d, <1>e, <3>2
    <3> QED
      BY <1>0, <1>d, <1>e, <2>1, <2>2, <3>1, <3>3
         DEF OffsetInv, TypeOK, FlushedInOnePass, Unread, Request, unread, ahead, waiting, seen, room
  <2>5. CASE Head(posted).op = "rx"
    <3>1. rx_seen' = rx_offset /\ UNCHANGED <<tx_seen, rbuffer>>
      BY <1>4, <2>5 DEF Execute
    <3>2. waiting <= Behind(flush_offset, rx_offset)
      BY <1>0, <1>d, <1>e, RoomBehind DEF ahead
    <3> QED
      BY <1>0, <1>d, <1>e, <2>1, <2>2, <3>1, <3>2
         DEF OffsetInv, TypeOK, FlushedInOnePass, Unread, Request, unread, ahead, waiting, seen, room
  <2> QED
    BY <1>4, <2>3, <2>4, <2>5 DEF Execute
<1>5. ASSUME NEW sz \in ReadSizes, DequeueCheck(sz) PROVE OffsetInv'
  <2>1. sz \in Nat /\ csize' = sz /\ sz <= seen
    BY <1>d, <1>q, <1>5 DEF DequeueCheck
  <2> QED
    BY <1>5, <2>1 DEF DequeueCheck, OffsetInv, TypeOK, FlushedInOnePass, Unread, seen
<1>6. CASE DequeueCopy
  BY <1>6 DEF DequeueCopy, OffsetInv, TypeOK, FlushedInOnePass, Unread
<1>7. CASE Dequeue
  <2>1. /\ rx_offset' = Advance(rx_offset, csize) /\ dequeued' = dequeued + csize
        /\ cstep' = "idle" /\ csize' = 0
        /\ UNCHANGED <<sender, tx_seen, rbuffer, posted, svars, enqueued>>
    BY <1>7 DEF Dequeue
  <2>2. /\ csize <= seen /\ csize <= ahead /\ csize <= unread
        /\ seen < buffer_size /\ ahead < buffer_size
    BY <1>0, <1>d, <1>e, <1>7 DEF Dequeue
  <2>3. /\ rx_offset' \in Offset /\ Ahead(rx_offset', tx_offset) = unread - csize
        /\ Ahead(rx_offset', flush_offset) = ahead - csize
        /\ Ahead(rx_offset', tx_seen) = seen - csize
    BY <1>0, <1>e, <2>1, <2>2, AdvanceFrom DEF unread, ahead, seen
  <2>4. TypeOK' /\ csize' \in Nat /\ FlushedInOnePass'
    BY <1>0, <2>1, <2>3 DEF OffsetInv, TypeOK, FlushedInOnePass
  <2>5. /\ unread - csize = enqueued - (dequeued + csize) /\ 0 <= unread - csize
        /\ (ahead - csize) + waiting = unread - csize /\ unread - csize < buffer_size
        /\ seen - csize <= ahead - csize
    BY <1>0, <1>d, <1>e, <2>2
  <2> QED
    BY <1>0, <1>e, <2>1, <2>3, <2>4, <2>5 DEF OffsetInv, Unread, waiting, room
<1>8. CASE UNCHANGED vars
  BY <1>8 DEF vars, OffsetInv, TypeOK, FlushedInOnePass, Unread
<1> QED
  BY <1>1, <1>2, <1>3, <1>4, <1>5, <1>6, <1>7, <1>8 DEF Next, Sender, Receiver

\* What the invariant says of the distances, with their types.
LEMMA Distances ==
  ASSUME OffsetInv
  PROVE  /\ tx_offset \in Offset /\ flush_offset \in Offset
         /\ rx_offset \in Offset /\ tx_seen \in Offset
         /\ enqueued \in Nat /\ dequeued \in Nat /\ csize \in Nat
         /\ Ahead(rx_offset, tx_offset) \in Nat /\ Ahead(rx_offset, flush_offset) \in Nat
         /\ Ahead(flush_offset, tx_offset) \in Nat /\ Ahead(rx_offset, tx_seen) \in Nat
         /\ Ahead(rx_offset, tx_offset) = enqueued - dequeued
         /\ Ahead(rx_offset, tx_offset) < buffer_size
         /\ Ahead(rx_offset, flush_offset) + Ahead(flush_offset, tx_offset)
              = Ahead(rx_offset, tx_offset)
         /\ Ahead(rx_offset, tx_seen) <= Ahead(rx_offset, flush_offset)
         /\ Ahead(rx_offset, flush_offset) <= Ahead(rx_offset, tx_offset)
         /\ cstep # "idle" => csize <= Ahead(rx_offset, tx_seen)
<1>1. /\ tx_offset \in Offset /\ flush_offset \in Offset
      /\ rx_offset \in Offset /\ tx_seen \in Offset
      /\ enqueued \in Nat /\ dequeued \in Nat /\ csize \in Nat
  BY DEF OffsetInv, TypeOK
<1>2. /\ Ahead(rx_offset, tx_offset) \in Nat /\ Ahead(rx_offset, flush_offset) \in Nat
      /\ Ahead(flush_offset, tx_offset) \in Nat /\ Ahead(rx_offset, tx_seen) \in Nat
  BY <1>1, DistanceNat
<1> QED
  BY <1>1, <1>2 DEF OffsetInv, Unread

\* The store of rx.offset at the end of a dequeue brings every other offset nearer by
\* the bytes that were dequeued.
LEMMA DequeueNearer ==
  ASSUME OffsetInv, Dequeue
  PROVE  /\ Ahead(rx_offset', tx_offset) = Ahead(rx_offset, tx_offset) - csize
         /\ Ahead(rx_offset', flush_offset) = Ahead(rx_offset, flush_offset) - csize
         /\ Ahead(rx_offset', tx_seen) = Ahead(rx_offset, tx_seen) - csize
         /\ csize <= Ahead(rx_offset, tx_offset)
<1>1. /\ rx_offset' = Advance(rx_offset, csize)
      /\ csize <= Ahead(rx_offset, tx_seen) /\ csize <= Ahead(rx_offset, flush_offset)
      /\ csize <= Ahead(rx_offset, tx_offset) /\ Ahead(rx_offset, tx_seen) < buffer_size
      /\ Ahead(rx_offset, flush_offset) < buffer_size
  BY Distances DEF Dequeue
<1> QED
  BY <1>1, Distances, AdvanceFrom

\* Every step keeps the offset behind the bytes it publishes.
LEMMA NextPosted ==
  ASSUME PromptAndRead, OffsetInv, PostedInv, [Next]_vars PROVE PostedInv'
<1>n. posted \in Seq(Request)
  BY DEF OffsetInv, TypeOK, Request
<1> USE DEF sender, receiver, svars, cvars
<1>s. ASSUME UNCHANGED <<posted, flush_offset, tx_offset, tx_seen, rx_offset>> PROVE PostedInv'
  BY <1>s DEF PostedInv, Publishing
<1>1. ASSUME NEW len \in AllocSizes, TxAllocSend(len) PROVE PostedInv'
  BY <1>1 DEF TxAllocSend, SenderIdle, PromptAndRead, PostedInv, Publishing
<1>2. CASE TxAllocFails
  <2>1. posted = <<>> /\ posted' = <<ReadRxOffset>>
    BY <1>2 DEF TxAllocFails, SenderIdle, PromptAndRead
  <2>2. Len(posted') = 1 /\ posted'[1].op = "rx"
    BY <2>1 DEF ReadRxOffset
  <2> QED
    BY <1>2, <2>1, <2>2 DEF TxAllocFails, PostedInv, Publishing
<1>3. CASE ConnsBump
  <2> DEFINE waiting == Ahead(flush_offset, tx_offset)
             posts == PassPosts(flush_offset, waiting)
  <2>1. waiting \in Nat /\ waiting < buffer_size /\ waiting <= Behind(flush_offset, rx_seen)
        /\ Behind(flush_offset, rx_seen) \in Nat
    <3>1. rx_seen \in Offset /\ waiting <= Behind(flush_offset, rx_seen)
      BY DEF OffsetInv, TypeOK
    <3> QED
      BY <3>1, Distances, DistanceNat
  <2>2. PassBytes(flush_offset, waiting) = waiting
    BY <2>1, QueueDistances DEF PassBytes, MinOf
  <2>3. posted' = posts \o <<WriteTxOffset>> /\ flush_offset' = Advance(flush_offset, waiting)
    <3>1. posted' = posted \o posts \o <<WriteTxOffset>>
          /\ flush_offset' = Advance(flush_offset, waiting)
      BY <1>3, <2>2, QueueDistances DEF ConnsBump, FirstPass
    <3>2. posted = <<>> /\ posts \in Seq(Request)
      BY <1>3, <2>1, PassRequests, Distances DEF ConnsBump, SenderIdle, PromptAndRead
    <3> QED
      BY <3>1, <3>2, ConcatEmptySeq
  <2>4. posts \in Seq(Request) /\ \A i \in 1 .. Len(posts) : posts[i].op = "data"
    BY <2>1, PassRequests, Distances, Zenon
  <2> HIDE DEF waiting, posts
  <2>5. <<WriteTxOffset>> \in Seq(Request) /\ Len(<<WriteTxOffset>>) = 1
        /\ <<WriteTxOffset>>[1].op = "tx"
    BY DEF WriteTxOffset, Request, Offset
  <2>6. /\ Len(posted') = Len(posts) + 1 /\ Len(posts) \in Nat
        /\ \A i \in 1 .. Len(posts) : posted'[i].op = "data"
        /\ posted'[Len(posts) + 1].op = "tx"
    BY <2>3, <2>4, <2>5, ConcatProperties
  <2>7. Ahead(flush_offset', tx_offset') = 0
    <3>1. Ahead(flush_offset', tx_offset') = waiting - waiting
      BY <1>3, <2>1, <2>3, Distances, AdvanceFrom DEF ConnsBump, waiting
    <3> QED
      BY <2>1, <3>1
  <2> QED
    BY <2>6, <2>7 DEF PostedInv, Publishing
<1>4. CASE Execute
  <2>1. /\ Head(posted) = posted[1] /\ Len(posted) \in Nat /\ Len(posted) >= 1
        /\ Len(posted') = Len(posted) - 1
        /\ \A i \in 1 .. Len(posted') : posted'[i] = posted[i + 1]
        /\ posted' \in Seq(Request)
    BY <1>4, <1>n, HeadTailProperties DEF Execute
  <2>2. UNCHANGED <<tx_offset, flush_offset, rx_offset>>
    BY <1>4 DEF Execute
  <2>3. CASE Head(posted).op = "data"
    <3>1. tx_seen' = tx_seen
      BY <1>4, <2>3 DEF Execute
    <3>2. Len(posted) > 1
      BY <2>1, <2>3 DEF PostedInv
    <3>3. Publishing' <=> Publishing
      <4>1. ASSUME NEW i \in 1 .. Len(posted), posted[i].op = "tx"
            PROVE  i - 1 \in 1 .. Len(posted') /\ posted'[i - 1].op = "tx"
        BY <2>1, <2>3, <4>1
      <4>2. ASSUME NEW i \in 1 .. Len(posted'), posted'[i].op = "tx"
            PROVE  i + 1 \in 1 .. Len(posted) /\ posted[i + 1].op = "tx"
        BY <2>1, <4>2
      <4> QED
        BY <4>1, <4>2 DEF Publishing
    <3>4. /\ \A i \in 1 .. Len(posted') : i < Len(posted') => posted'[i].op = "data"
          /\ posted'[Len(posted')] = posted[Len(posted)]
      BY <2>1, <3>2 DEF PostedInv
    <3> QED
      BY <2>1, <2>2, <3>1, <3>2, <3>3, <3>4 DEF PostedInv
  <2>4. CASE Head(posted).op = "tx" \/ Head(posted).op = "rx"
    <3>1. Len(posted) = 1
      BY <2>1, <2>4 DEF PostedInv
    <3>2. posted' = <<>> /\ ~Publishing'
      BY <2>1, <3>1, EmptySeq DEF Publishing
    <3>3. CASE Head(posted).op = "tx"
      <4>1. Ahead(flush_offset, tx_offset) = 0
        BY <2>1, <3>3 DEF PostedInv, Publishing
      <4>2. Ahead(rx_offset, tx_offset) = Ahead(rx_offset, flush_offset)
        BY <4>1, Distances
      <4>3. tx_seen' = tx_offset
        BY <1>4, <3>3 DEF Execute
      <4> QED
        BY <2>2, <3>2, <4>2, <4>3 DEF PostedInv
    <3>4. CASE Head(posted).op = "rx"
      <4>1. ~Publishing
        BY <2>1, <3>1, <3>4 DEF Publishing
      <4>2. tx_seen' = tx_seen
        BY <1>4, <3>4 DEF Execute
      <4> QED
        BY <2>2, <3>2, <4>1, <4>2 DEF PostedInv
    <3> QED
      BY <2>4, <3>3, <3>4
  <2> QED
    BY <1>4, <2>3, <2>4 DEF Execute
<1>5. ASSUME NEW sz \in ReadSizes, DequeueCheck(sz) PROVE PostedInv'
  BY <1>5, <1>s DEF DequeueCheck
<1>6. CASE DequeueCopy
  BY <1>6, <1>s DEF DequeueCopy
<1>7. CASE Dequeue
  <2>1. UNCHANGED <<tx_offset, flush_offset, tx_seen, posted>>
    BY <1>7 DEF Dequeue
  <2>2. Ahead(rx_offset, tx_seen) = Ahead(rx_offset, flush_offset)
          => Ahead(rx_offset', tx_seen) = Ahead(rx_offset', flush_offset)
    BY <1>7, DequeueNearer
  <2> QED
    BY <2>1, <2>2 DEF PostedInv, Publishing
<1>8. CASE UNCHANGED vars
  BY <1>8, <1>s DEF vars
<1> QED
  BY <1>1, <1>2, <1>3, <1>4, <1>5, <1>6, <1>7, <1>8 DEF Next, Sender, Receiver

\* What ContentInv says of one slot.
LEMMA ContentAt ==
  ASSUME OffsetInv, ContentInv, NEW s \in Slot
  PROVE  /\ SlotIndex(rx_offset, s) \in Nat
         /\ SlotIndex(rx_offset, s) < Ahead(rx_offset, tx_offset)
              => sbuffer[s] = dequeued + SlotIndex(rx_offset, s)
         /\ SlotIndex(rx_offset, s) < Ahead(rx_offset, tx_seen)
              => rbuffer[s] = dequeued + SlotIndex(rx_offset, s)
         /\ SlotIndex(rx_offset, s) < Ahead(rx_offset, flush_offset) /\ ~Pending(s)
              => rbuffer[s] = dequeued + SlotIndex(rx_offset, s)
BY IndexNat DEF OffsetInv, TypeOK, ContentInv, Unread

\* Every step keeps the bytes of both buffers, the copies the NIC makes included.
LEMMA NextContent ==
  ASSUME PromptAndRead, OffsetInv, PostedInv, ContentInv, [Next]_vars, OffsetInv' PROVE ContentInv'
<1>n. posted \in Seq(Request)
  BY DEF OffsetInv, TypeOK, Request
<1> SUFFICES ASSUME NEW s \in Slot
             PROVE  /\ SlotIndex(rx_offset', s) < Ahead(rx_offset', tx_offset')
                         => sbuffer'[s] = dequeued' + SlotIndex(rx_offset', s)
                    /\ SlotIndex(rx_offset', s) < Ahead(rx_offset', tx_seen')
                         => rbuffer'[s] = dequeued' + SlotIndex(rx_offset', s)
                    /\ SlotIndex(rx_offset', s) < Ahead(rx_offset', flush_offset') /\ ~Pending(s)'
                         => rbuffer'[s] = dequeued' + SlotIndex(rx_offset', s)
  BY DEF ContentInv, OffsetInv, Unread
<1> DEFINE index == SlotIndex(rx_offset, s)
           unread == Ahead(rx_offset, tx_offset)
           ahead == Ahead(rx_offset, flush_offset)
           waiting == Ahead(flush_offset, tx_offset)
           seen == Ahead(rx_offset, tx_seen)
           Sent == SlotIndex(rx_offset', s) < Ahead(rx_offset', tx_offset')
                     => sbuffer'[s] = dequeued' + SlotIndex(rx_offset', s)
           Seen == SlotIndex(rx_offset', s) < Ahead(rx_offset', tx_seen')
                     => rbuffer'[s] = dequeued' + SlotIndex(rx_offset', s)
           Copied == SlotIndex(rx_offset', s) < Ahead(rx_offset', flush_offset') /\ ~Pending(s)'
                       => rbuffer'[s] = dequeued' + SlotIndex(rx_offset', s)
<1>c. /\ index \in Nat
      /\ index < unread => sbuffer[s] = dequeued + index
      /\ index < seen => rbuffer[s] = dequeued + index
      /\ index < ahead /\ ~Pending(s) => rbuffer[s] = dequeued + index
  BY ContentAt
<1>d. /\ enqueued \in Nat /\ dequeued \in Nat /\ csize \in Nat
      /\ unread \in Nat /\ ahead \in Nat /\ waiting \in Nat /\ seen \in Nat
      /\ unread = enqueued - dequeued /\ unread < buffer_size
      /\ ahead + waiting = unread /\ seen <= ahead /\ ahead <= unread
  BY Distances
<1> USE DEF sender, receiver, svars, cvars
<1>s. ASSUME UNCHANGED <<posted, flush_offset, tx_offset, tx_seen, rx_offset, sbuffer, rbuffer, dequeued>>
      PROVE  Sent /\ Seen /\ Copied
  BY <1>s, <1>c DEF Pending
<1>1. ASSUME NEW len \in AllocSizes, TxAllocSend(len) PROVE Sent /\ Seen /\ Copied
  <2> DEFINE sz == MinOf(len, CanReserve)
  <2>1. /\ sbuffer' = Filled(sz) /\ tx_offset' = Advance(tx_offset, sz)
        /\ UNCHANGED <<flush_offset, receiver, posted, dequeued>>
        /\ sz > 0 /\ enqueued + sz - dequeued <= MaxUnread
    BY <1>1 DEF TxAllocSend
  <2>2. sz \in Nat
    <3>1. len \in Nat /\ Behind(flush_offset, rx_seen) \in Nat
      BY DistanceNat DEF OffsetInv, TypeOK
    <3>2. CanReserve \in Int
      BY <1>d, <3>1, QueueDistances DEF CanReserve
    <3> QED
      BY <2>1, <3>1, <3>2 DEF MinOf
  <2> HIDE DEF sz
  <2>3. unread + sz < buffer_size
    BY <1>d, <2>1, <2>2 DEF PromptAndRead
  <2>4. Ahead(rx_offset, tx_offset') = unread + sz
    BY <2>1, <2>2, <2>3, Distances, AdvanceTo
  <2>5. sbuffer'[s] = IF SlotIndex(tx_offset, s) < sz THEN enqueued + SlotIndex(tx_offset, s)
                      ELSE sbuffer[s]
    BY <2>1 DEF Filled, SlotsFrom
  <2>6. SlotIndex(tx_offset, s) \in Nat
    BY Distances, IndexNat
  <2>7. /\ SlotIndex(tx_offset, s) < sz <=> index >= unread /\ index < unread + sz
        /\ SlotIndex(tx_offset, s) < sz => index = unread + SlotIndex(tx_offset, s)
    BY <2>2, <2>3, Distances, IndexAhead, IndexShifts
  <2> HIDE DEF index, unread, ahead, waiting, seen
  <2>8. ASSUME index < unread + sz PROVE sbuffer'[s] = dequeued + index
    <3>1. CASE index < unread
      <4>1. ~(SlotIndex(tx_offset, s) < sz)
        BY <1>c, <1>d, <2>7, <3>1
      <4> QED
        BY <1>c, <2>5, <3>1, <4>1
    <3>2. CASE ~(index < unread)
      <4>1. SlotIndex(tx_offset, s) < sz /\ index = unread + SlotIndex(tx_offset, s)
        BY <1>c, <1>d, <2>7, <2>8, <3>2
      <4>2. enqueued + SlotIndex(tx_offset, s) = dequeued + index
        BY ONLY <1>c, <1>d, <2>6, <4>1
      <4> QED
        BY <2>5, <4>1, <4>2
    <3> QED
      BY <3>1, <3>2
  <2> QED
    BY <1>c, <2>1, <2>4, <2>8 DEF Pending, index, unread, ahead, waiting, seen
<1>2. CASE TxAllocFails
  <2>1. posted = <<>>
    BY <1>2 DEF TxAllocFails, SenderIdle, PromptAndRead
  <2>2. ~Pending(s)
    BY <2>1 DEF Pending
  <2>3. UNCHANGED <<flush_offset, tx_offset, tx_seen, rx_offset, sbuffer, rbuffer, dequeued>>
    BY <1>2 DEF TxAllocFails
  <2> QED
    BY <1>c, <2>2, <2>3
<1>3. CASE ConnsBump
  <2> DEFINE posts == PassPosts(flush_offset, waiting)
  <2>1. waiting < buffer_size /\ waiting <= Behind(flush_offset, rx_seen)
        /\ Behind(flush_offset, rx_seen) \in Nat
    <3>1. rx_seen \in Offset /\ flush_offset \in Offset /\ waiting <= Behind(flush_offset, rx_seen)
      BY DEF OffsetInv, TypeOK
    <3> QED
      BY <1>d, <3>1, DistanceNat
  <2>2. PassBytes(flush_offset, waiting) = waiting
    BY <1>d, <2>1, QueueDistances DEF PassBytes, MinOf
  <2>3. /\ posts \in Seq(Request)
        /\ \A i \in 1 .. Len(posts) : posts[i].op = "data"
        /\ \A t \in SlotsFrom(flush_offset, waiting) : \E i \in 1 .. Len(posts) :
             t \in SlotsFrom(posts[i].offset, posts[i].n)
    BY <1>d, <2>1, PassRequests, Distances
  <2>4. posted = <<>> /\ posted' = posts \o <<WriteTxOffset>>
        /\ flush_offset' = Advance(flush_offset, waiting)
    <3>1. posted' = posted \o posts \o <<WriteTxOffset>>
          /\ flush_offset' = Advance(flush_offset, waiting)
      BY <1>3, <2>2, QueueDistances DEF ConnsBump, FirstPass
    <3>2. posted = <<>>
      BY <1>3 DEF ConnsBump, SenderIdle, PromptAndRead
    <3> QED
      BY <2>3, <3>1, <3>2, ConcatEmptySeq
  <2>5. Ahead(rx_offset, flush_offset') = ahead + waiting
    BY <1>d, <2>4, Distances, AdvanceTo
  <2> HIDE DEF posts
  <2>6. <<WriteTxOffset>> \in Seq(Request) /\ Len(<<WriteTxOffset>>) = 1
    BY DEF WriteTxOffset, Request, Offset
  <2>7. /\ Len(posted') = Len(posts) + 1 /\ Len(posts) \in Nat
        /\ \A i \in 1 .. Len(posts) : posted'[i] = posts[i]
    <3>1. posts \in Seq(Request) /\ posted' = posts \o <<WriteTxOffset>>
      BY <2>3, <2>4
    <3>2. /\ Len(posts \o <<WriteTxOffset>>) = Len(posts) + 1
          /\ \A i \in 1 .. Len(posts) + 1 :
               (posts \o <<WriteTxOffset>>)[i]
                 = IF i <= Len(posts) THEN posts[i] ELSE <<WriteTxOffset>>[i - Len(posts)]
      BY ONLY <2>6, <3>1, ConcatProperties
    <3>3. Len(posts) \in Nat
      BY ONLY <3>1, LenProperties
    <3> QED
      BY ONLY <3>1, <3>2, <3>3
  <2>8. ASSUME s \in SlotsFrom(flush_offset, waiting) PROVE Pending(s)'
    <3>1. PICK i \in 1 .. Len(posts) : s \in SlotsFrom(posts[i].offset, posts[i].n)
      BY <2>3, <2>8, Zenon
    <3>2. i \in 1 .. Len(posted')
      BY ONLY <2>7, i \in 1 .. Len(posts)
    <3>3. posted'[i] = posts[i] /\ posts[i].op = "data"
      BY <2>3, <2>7, Zenon
    <3> QED
      BY <3>1, <3>2, <3>3, Zenon DEF Pending
  <2>9. s \in SlotsFrom(flush_offset, waiting) <=> index >= ahead /\ index < ahead + waiting
    <3>1. SlotIndex(flush_offset, s) < waiting <=> index >= ahead /\ index < ahead + waiting
      BY <1>d, Distances, IndexAhead
    <3> QED
      BY <3>1 DEF SlotsFrom
  <2>10. ~Pending(s)
    BY <2>4 DEF Pending
  <2>11. UNCHANGED <<tx_offset, sbuffer, receiver, dequeued>>
    BY <1>3 DEF ConnsBump
  <2> HIDE DEF index, unread, ahead, waiting, seen
  <2>12. index < ahead + waiting /\ ~Pending(s)' => rbuffer[s] = dequeued + index
    BY <1>c, <1>d, <2>8, <2>9, <2>10
  <2> QED
    BY <1>c, <2>5, <2>11, <2>12 DEF index, unread, ahead, waiting, seen
<1>4. CASE Execute
  <2>1. /\ Head(posted) = posted[1] /\ Len(posted) \in Nat /\ Len(posted) >= 1
        /\ Len(posted') = Len(posted) - 1
        /\ \A i \in 1 .. Len(posted') : posted'[i] = posted[i + 1]
    BY <1>4, <1>n, HeadTailProperties DEF Execute
  <2>2. UNCHANGED <<tx_offset, flush_offset, rx_offset, sbuffer, dequeued>>
    BY <1>4 DEF Execute
  <2>3. CASE Head(posted).op = "data"
    <3>1. /\ tx_seen' = tx_seen
          /\ rbuffer'[s] = IF s \in SlotsFrom(posted[1].offset, posted[1].n) THEN sbuffer[s]
                           ELSE rbuffer[s]
      BY <1>4, <2>1, <2>3 DEF Execute
    <3>2. Pending(s) => s \in SlotsFrom(posted[1].offset, posted[1].n) \/ Pending(s)'
      <4> SUFFICES ASSUME NEW i \in 1 .. Len(posted), posted[i].op = "data",
                          s \in SlotsFrom(posted[i].offset, posted[i].n), i # 1
                   PROVE  Pending(s)'
        BY DEF Pending
      <4>1. i - 1 \in 1 .. Len(posted') /\ posted'[i - 1] = posted[i]
        BY <2>1
      <4> QED
        BY <4>1 DEF Pending
    <3> HIDE DEF index, unread, ahead, waiting, seen
    <3>3. index < seen => index < unread /\ index < ahead
      BY <1>c, <1>d
    <3>4. index < ahead => index < unread
      BY <1>c, <1>d
    <3>5. index < seen => rbuffer'[s] = dequeued + index
      BY <1>c, <3>1, <3>3
    <3>6. index < ahead /\ ~Pending(s)' => rbuffer'[s] = dequeued + index
      BY <1>c, <3>1, <3>2, <3>4
    <3> QED
      BY <1>c, <2>2, <3>1, <3>5, <3>6 DEF index, unread, ahead, waiting, seen
  <2>4. CASE Head(posted).op = "tx" \/ Head(posted).op = "rx"
    <3>1. ~Pending(s) /\ rbuffer' = rbuffer
      BY <1>4, <2>1, <2>4 DEF PostedInv, Pending, Execute
    <3>2. CASE Head(posted).op = "tx"
      <4>1. waiting = 0
        BY <2>1, <3>2 DEF PostedInv, Publishing
      <4>2. unread = ahead
        BY <1>d, <4>1
      <4>3. tx_seen' = tx_offset
        BY <1>4, <3>2 DEF Execute
      <4> QED
        BY <1>c, <2>2, <3>1, <4>2, <4>3
    <3>3. CASE Head(posted).op = "rx"
      <4>1. tx_seen' = tx_seen
        BY <1>4, <3>3 DEF Execute
      <4> QED
        BY <1>c, <2>2, <3>1, <4>1
    <3> QED
      BY <2>4, <3>2, <3>3
  <2> QED
    BY <1>4, <2>3, <2>4 DEF Execute
<1>5. ASSUME NEW sz \in ReadSizes, DequeueCheck(sz) PROVE Sent /\ Seen /\ Copied
  BY <1>5, <1>s DEF DequeueCheck
<1>6. CASE DequeueCopy
  BY <1>6, <1>s DEF DequeueCopy
<1>7. CASE Dequeue
  <2>1. /\ rx_offset' = Advance(rx_offset, csize) /\ dequeued' = dequeued + csize
        /\ UNCHANGED <<sender, tx_seen, rbuffer, posted>>
    BY <1>7 DEF Dequeue
  <2> DEFINE next == SlotIndex(rx_offset', s)
             left == unread - csize
  <2>2. /\ Ahead(rx_offset', tx_offset) = left
        /\ Ahead(rx_offset', flush_offset) = ahead - csize
        /\ Ahead(rx_offset', tx_seen) = seen - csize
        /\ left \in Nat
    BY <1>7, <1>d, DequeueNearer
  <2>3. Ahead(rx_offset, rx_offset') = csize /\ rx_offset' \in Offset
    <3>1. Ahead(rx_offset, rx_offset) = 0
      BY Distances DEF Ahead, rq_nbytes, Distance, Offset
    <3>2. csize < buffer_size
      BY <1>d, <2>2
    <3> QED
      BY <1>d, <2>1, <3>1, <3>2, Distances, AdvanceTo
  <2>4. next \in Nat /\ (next < left => index = csize + next)
    <3>1. csize + left < buffer_size
      BY <1>d
    <3> QED
      BY <2>2, <2>3, <3>1, Distances, IndexNat, IndexShifts
  <2> HIDE DEF index, unread, ahead, waiting, seen, next
  <2>5. /\ next < unread - csize => sbuffer[s] = dequeued + csize + next
        /\ next < seen - csize => rbuffer[s] = dequeued + csize + next
        /\ next < ahead - csize /\ ~Pending(s) => rbuffer[s] = dequeued + csize + next
    BY <1>c, <1>d, <2>4
  <2> QED
    BY <2>1, <2>2, <2>5 DEF Pending, index, unread, ahead, waiting, seen, next
<1>8. CASE UNCHANGED vars
  BY <1>8, <1>s DEF vars
<1>9. Sent /\ Seen /\ Copied
  BY <1>1, <1>2, <1>3, <1>4, <1>5, <1>6, <1>7, <1>8, Zenon DEF Next, Sender, Receiver
<1> QED
  BY <1>9

\* The receiver reads the next byte of the stream.
LEMMA NextReads ==
  ASSUME OffsetInv, ContentInv, ReadsInOrder, [Next]_vars PROVE ReadsInOrder'
<1> USE DEF sender, receiver, svars, cvars
<1>s. ASSUME UNCHANGED <<cvars, dequeued>> PROVE ReadsInOrder'
  BY <1>s DEF ReadsInOrder
<1>1. CASE Sender \/ Execute
  BY <1>1, <1>s DEF Sender, TxAllocSend, TxAllocFails, ConnsBump, Execute
<1>2. ASSUME NEW sz \in ReadSizes, DequeueCheck(sz) PROVE ReadsInOrder'
  BY <1>2 DEF DequeueCheck, ReadsInOrder
<1>3. CASE DequeueCopy
  <2>1. ASSUME NEW i \in 1 .. csize PROVE got'[i] = dequeued + i - 1
    <3>1. /\ i - 1 \in Nat /\ i - 1 < Ahead(rx_offset, tx_seen) /\ i - 1 < buffer_size
          /\ csize \in Nat /\ dequeued \in Nat /\ rx_offset \in Offset
          /\ Ahead(rx_offset, tx_seen) \in Nat
      BY <1>3, Distances DEF DequeueCopy
    <3>2. SlotAt(rx_offset, i - 1) \in Slot /\ SlotIndex(rx_offset, SlotAt(rx_offset, i - 1)) = i - 1
      BY <3>1 DEF SlotAt, SlotIndex, Slot, Offset
    <3>3. rbuffer[SlotAt(rx_offset, i - 1)] = dequeued + (i - 1)
      BY <3>1, <3>2, ContentAt
    <3> QED
      BY <1>3, <3>1, <3>3 DEF DequeueCopy
  <2> QED
    BY <1>3, <2>1 DEF DequeueCopy, ReadsInOrder
<1>4. CASE Dequeue
  BY <1>4 DEF Dequeue, ReadsInOrder
<1>5. CASE UNCHANGED vars
  BY <1>5, <1>s DEF vars
<1> QED
  BY <1>1, <1>2, <1>3, <1>4, <1>5 DEF Next, Receiver

\* Every step keeps the whole invariant.
LEMMA NextPaired ==
  ASSUME PromptAndRead PROVE PairedInv /\ [Next]_vars => PairedInv'
BY NextOffset, NextPosted, NextContent, NextReads DEF PairedInv

\* The bytes of a connection's transmit buffer reach the receiver's copy of it in
\* order, none lost, stale or overwritten, and none stays hidden behind an offset
\* that the receiver has not seen, for every buffer size and whatever amounts are
\* allocated, flushed and read.
THEOREM PairedDelivers ==
  ASSUME PromptAndRead PROVE Spec => [](ReadsInOrder /\ NothingHidden)
<1>1. PairedInv => ReadsInOrder /\ NothingHidden
  <2> SUFFICES ASSUME PairedInv PROVE NothingHidden
    BY DEF PairedInv
  <2>1. TypeOK
    BY DEF PairedInv, OffsetInv
  <2>2. ASSUME posted = <<>>, rq_nbytes_to_flush = 0
        PROVE  rq_nbytes_enqueued = enqueued - dequeued
    <3>1. Ahead(rx_offset, tx_seen) = Ahead(rx_offset, flush_offset)
      BY <2>2 DEF PairedInv, PostedInv, Publishing
    <3> QED
      BY <2>2, <3>1, QueueDistances, Distances DEF PairedInv
  <2> QED
    BY <2>1, <2>2 DEF NothingHidden
<1> QED
  BY <1>1, InitPaired, NextPaired, PTL DEF Spec

\* rq_nflush of what tx_alloc2 handed out never meets a receiver without room: the
\* sender's copy of rx.offset, however old, covers the bytes that it allowed, so the
\* second pass is never entered.
THEOREM OnePassFlushes ==
  ASSUME PromptAndRead PROVE Spec => []FlushedInOnePass
<1>1. PairedInv => FlushedInOnePass
  BY DEF PairedInv, OffsetInv
<1> QED
  BY <1>1, InitPaired, NextPaired, PTL DEF Spec
===============================================================================
