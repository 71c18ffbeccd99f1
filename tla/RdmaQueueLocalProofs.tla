------------------------- MODULE RdmaQueueLocalProofs -------------------------
(***************************************************************************)
(* Proofs about the unpaired rdma_queue, for every buffer size, pad and    *)
(* set of request sizes.                                                   *)
(***************************************************************************)
EXTENDS RdmaQueueLocal, TLAPS

\* The sizes the two sides carry between their check and their store stay
\* justified while the other side moves its offset.
SizesJustified ==
  /\ pstep \in {"copying", "copied"} => psize <= rq_nbytes_empty
  /\ pstep \in {"allocated", "filled"} => psize + Unread <= buffer_size
  /\ cstep # "idle" => csize <= rq_nbytes_enqueued

\* The inductive invariant about offsets and sizes.
OffsetInv == TypeOK /\ OffsetsAccountForBytes /\ SizesJustified

USE RingAssumption, LocalAssumption

\* A queue starts empty.
LEMMA InitOffsetInv == Init => OffsetInv
BY DEF Init, OffsetInv, TypeOK, OffsetsAccountForBytes, SizesJustified, Unread,
   rq_nbytes_enqueued, rq_nbytes_to_flush, rq_nbytes_empty, rq_nbytes, Distance,
   Offset, Slot, Byte, Junk

\* Every step of the producer and of the consumer keeps the account of the bytes.
LEMMA NextOffsetInv == OffsetInv /\ [Next]_vars => OffsetInv'
<1> SUFFICES ASSUME OffsetInv, [Next]_vars PROVE OffsetInv'
  OBVIOUS
<1> USE DEF OffsetInv, TypeOK, OffsetsAccountForBytes, SizesJustified, Unread,
   rq_nbytes_enqueued, rq_nbytes_to_flush, rq_nbytes_empty, rq_nbytes, Distance,
   Offset, shared, pvars, cvars
<1>1. ASSUME NEW sz \in StructSizes, ReserveFlush(sz) PROVE OffsetInv'
  BY <1>1 DEF ReserveFlush, rq_nbytes_max_flush
<1>2. CASE EnqueueCheck
  BY <1>2 DEF EnqueueCheck
<1>3. CASE EnqueueFull
  BY <1>3 DEF EnqueueFull, FlushedTo
<1>4. CASE EnqueueCopy
  BY <1>4 DEF EnqueueCopy, StructByte, SlotIndex, SlotsFrom, Slot, Byte, Junk, FirstPart, SecondPart
<1>5. CASE EnqueuePublish
  BY <1>5 DEF EnqueuePublish, Advance, FirstPart, SecondPart
<1>6. ASSUME NEW len \in AllocSizes, TxAlloc(len) PROVE OffsetInv'
  BY <1>6 DEF TxAlloc, Available, rq_nbytes_can_reserve, rq_nbytes_max_flush, FirstPart
<1>7. ASSUME NEW len \in Alloc2Sizes, TxAlloc2(len) PROVE OffsetInv'
  BY <1>7 DEF TxAlloc2, Available, rq_nbytes_can_reserve, rq_nbytes_max_flush
<1>8. CASE FillPayload
  BY <1>8 DEF FillPayload, SlotIndex, SlotsFrom, Slot, Byte
<1>9. CASE TxSend
  BY <1>9 DEF TxSend
<1>10. CASE TxSendFull
  BY <1>10 DEF TxSendFull, FlushedTo
<1>11. ASSUME NEW n \in StructSizes \cup AllocSizes \cup Alloc2Sizes, NFlush(n) PROVE OffsetInv'
  BY <1>11 DEF NFlush, FlushedTo
<1>12. ASSUME NEW sz \in ReadSizes, DequeueCheck(sz) PROVE OffsetInv'
  BY <1>12 DEF DequeueCheck
<1>13. CASE DequeueCopy
  BY <1>13 DEF DequeueCopy
<1>14. CASE Dequeue
  BY <1>14 DEF Dequeue, Advance, FirstPart, SecondPart
<1>15. CASE Peek
  BY <1>15 DEF Peek
<1>16. CASE UNCHANGED vars
  BY <1>16 DEF vars
<1> QED
  BY <1>1, <1>2, <1>3, <1>4, <1>5, <1>6, <1>7, <1>8, <1>9, <1>10, <1>11, <1>12,
     <1>13, <1>14, <1>15, <1>16, Zenon DEF Next, Producer, Consumer

\* The offsets of an unpaired queue account for every byte, in every reachable
\* state and for every queue size.
THEOREM OffsetsCorrect == Spec => [](TypeOK /\ OffsetsAccountForBytes)
<1>1. OffsetInv => TypeOK /\ OffsetsAccountForBytes
  BY DEF OffsetInv
<1> QED
  BY <1>1, InitOffsetInv, NextOffsetInv, PTL DEF Spec

-------------------------------------------------------------------------------
\* The slots of the bytes about to be published start where the unread ones end.
LEMMA WriterBeyondUnread ==
  ASSUME OffsetInv, NEW s \in Slot, pstep \in {"copying", "copied", "allocated", "filled"},
         SlotIndex(tx_offset, s) < psize
  PROVE  SlotIndex(rx_offset, s) >= Unread
<1>1. psize + Unread <= buffer_size
  BY DEF OffsetInv, TypeOK, OffsetsAccountForBytes, SizesJustified, rq_nbytes_empty, Unread,
     rq_nbytes, Distance, Offset
<1> QED
  BY <1>1 DEF OffsetInv, TypeOK, OffsetsAccountForBytes, Unread, rq_nbytes, Distance,
     Offset, Slot, SlotIndex

\* The producer never stores to a byte that the consumer has not taken, although
\* the consumer moves rx_offset between the producer's check and its copy.
THEOREM WriterNeverOverwrites == Spec => []WriterAvoidsUnread
<1>1. OffsetInv => WriterAvoidsUnread
  <2> SUFFICES ASSUME OffsetInv, NEW s \in Slot, s \in InWriting,
                      SlotIndex(rx_offset, s) < Unread
               PROVE  FALSE
    BY DEF WriterAvoidsUnread, SlotsFrom
  <2>1. pstep \in {"copying", "copied", "allocated", "filled"}
        /\ SlotIndex(tx_offset, s) < psize
    BY DEF InWriting, SlotsFrom
  <2>2. SlotIndex(rx_offset, s) >= Unread
    BY <2>1, WriterBeyondUnread
  <2> QED
    BY <2>2 DEF OffsetInv, TypeOK, Unread, SlotIndex, Slot, Offset
<1> QED
  BY <1>1, InitOffsetInv, NextOffsetInv, PTL DEF Spec

\* The assertion in rq_nbytes_can_reserve never fails on an unpaired queue.
THEOREM CanReserveNeverAsserts == Spec => []CanReserveAssertion
<1>1. OffsetInv => CanReserveAssertion
  BY DEF CanReserveAssertion, rq_nbytes_max_flush, OffsetInv, TypeOK, OffsetsAccountForBytes,
   Unread, rq_nbytes_enqueued, rq_nbytes_to_flush, rq_nbytes, Distance, Offset
<1> QED
  BY <1>1, InitOffsetInv, NextOffsetInv, PTL DEF Spec

-------------------------------------------------------------------------------
\* The strengthening of UnreadIntact: payload that was filled and not yet sent is
\* in its slots too.  UnreadIntact is stated by slot rather than by index.
ContentInv ==
  /\ OffsetInv
  /\ pstep \notin {"reserved", "copying"}
  /\ \A s \in Slot : SlotIndex(rx_offset, s) < Unread
                     => buffer[s] = dequeued + SlotIndex(rx_offset, s)
  /\ pstep \in {"filled", "copied"} =>
       \A s \in Slot : SlotIndex(tx_offset, s) < psize
                      => buffer[s] = enqueued + SlotIndex(tx_offset, s)
  /\ ReadsInOrder

\* The contents of the slots say that the unread bytes are intact.
LEMMA ContentImpliesIntact == ContentInv => UnreadIntact
<1> SUFFICES ASSUME ContentInv, NEW i \in 0 .. Unread - 1
             PROVE  buffer[SlotAt(rx_offset, i)] = dequeued + i
  BY DEF UnreadIntact
<1>1. i \in Nat /\ i < Unread /\ i < buffer_size /\ rx_offset \in 0 .. buffer_size
  BY DEF ContentInv, OffsetInv, TypeOK, OffsetsAccountForBytes, Offset, Unread
<1>2. SlotAt(rx_offset, i) \in Slot /\ SlotIndex(rx_offset, SlotAt(rx_offset, i)) = i
  BY <1>1 DEF SlotAt, SlotIndex, Slot
<1> QED
  BY <1>1, <1>2 DEF ContentInv

\* An empty queue has no unread byte.
LEMMA InitContentInv == Init => ContentInv
BY InitOffsetInv DEF Init, ContentInv, ReadsInOrder, Unread, SlotIndex, Slot

\* Every step keeps the unread bytes, when producer and consumer move payload.
LEMMA NextContentInv ==
  ASSUME StructSizes = {} PROVE ContentInv /\ [Next]_vars => ContentInv'
<1> SUFFICES ASSUME ContentInv, [Next]_vars PROVE ContentInv'
  OBVIOUS
<1>0. OffsetInv /\ OffsetInv'
  BY NextOffsetInv DEF ContentInv
<1> USE <1>0 DEF ContentInv, ReadsInOrder, Unread, shared, pvars, cvars
<1>1. CASE EnqueuePublish
  <2>1. \A s \in Slot : SlotIndex(rx_offset, s) < Unread
          => buffer[s] = dequeued + SlotIndex(rx_offset, s)
    OBVIOUS
  <2>2. \A s \in Slot : SlotIndex(tx_offset, s) < psize
          => buffer[s] = enqueued + SlotIndex(tx_offset, s)
    BY <1>1 DEF EnqueuePublish
  <2>3. ASSUME NEW s \in Slot, SlotIndex(rx_offset, s) < enqueued + psize - dequeued
        PROVE  buffer[s] = dequeued + SlotIndex(rx_offset, s)
    <3>1. CASE SlotIndex(rx_offset, s) < enqueued - dequeued
      BY <2>1, <3>1
    <3>2. CASE ~(SlotIndex(rx_offset, s) < enqueued - dequeued)
      <4>1. /\ SlotIndex(tx_offset, s) < psize
            /\ enqueued + SlotIndex(tx_offset, s) = dequeued + SlotIndex(rx_offset, s)
        BY <2>3, <3>2 DEF OffsetInv, TypeOK, OffsetsAccountForBytes, rq_nbytes, Distance,
           Offset, Slot, SlotIndex
      <4> QED
        BY <2>2, <4>1
    <3> QED
      BY <3>1, <3>2
  <2>4. /\ rx_offset' = rx_offset /\ buffer' = buffer /\ dequeued' = dequeued
        /\ enqueued' = enqueued + psize /\ pstep' = "idle" /\ ReadsInOrder'
    BY <1>1 DEF EnqueuePublish
  <2>5. ASSUME NEW s \in Slot, SlotIndex(rx_offset', s) < enqueued' - dequeued'
        PROVE  buffer'[s] = dequeued' + SlotIndex(rx_offset', s)
    <3>1. SlotIndex(rx_offset', s) = SlotIndex(rx_offset, s)
      BY ONLY <2>4, Zenon
    <3>2. enqueued' - dequeued' = enqueued + psize - dequeued
      <4>1. enqueued \in Nat /\ psize \in Nat /\ dequeued \in Nat
        BY DEF OffsetInv, TypeOK
      <4> QED
        BY ONLY <2>4, <4>1
    <3>3. buffer[s] = dequeued + SlotIndex(rx_offset, s)
      BY ONLY <2>3, <2>5, <3>1, <3>2, s \in Slot, Zenon
    <3> QED
      BY ONLY <2>4, <3>1, <3>3, Zenon
  <2> QED
    BY ONLY <1>0, <2>4, <2>5, Zenon DEF ContentInv, Unread
<1>2. ASSUME NEW len \in AllocSizes, TxAlloc(len) PROVE ContentInv'
  BY <1>2 DEF TxAlloc
<1>3. ASSUME NEW len \in Alloc2Sizes, TxAlloc2(len) PROVE ContentInv'
  BY <1>3 DEF TxAlloc2
<1>4. CASE FillPayload
  <2>1. \A s \in Slot : SlotIndex(tx_offset, s) < psize => ~(SlotIndex(rx_offset, s) < Unread)
    <3> SUFFICES ASSUME NEW s \in Slot, SlotIndex(tx_offset, s) < psize
                 PROVE  ~(SlotIndex(rx_offset, s) < Unread)
      OBVIOUS
    <3>1. SlotIndex(rx_offset, s) >= Unread
      BY <1>4, WriterBeyondUnread DEF FillPayload
    <3> QED
      BY <3>1 DEF OffsetInv, TypeOK, SlotIndex, Slot, Offset
  <2>2. \A s \in Slot : buffer'[s] = IF SlotIndex(tx_offset, s) < psize
                                     THEN enqueued + SlotIndex(tx_offset, s) ELSE buffer[s]
    BY <1>4 DEF FillPayload, SlotsFrom
  <2> QED
    BY <1>4, <2>1, <2>2 DEF FillPayload, SlotIndex
<1>5. CASE TxSend
  BY <1>5 DEF TxSend
<1>6. CASE TxSendFull
  BY <1>6 DEF TxSendFull
<1>7. ASSUME NEW n \in StructSizes \cup AllocSizes \cup Alloc2Sizes, NFlush(n) PROVE ContentInv'
  BY <1>7 DEF NFlush
<1>8. ASSUME NEW sz \in ReadSizes, DequeueCheck(sz) PROVE ContentInv'
  BY <1>8 DEF DequeueCheck
<1>9. CASE DequeueCopy
  <2>1. csize \in Nat /\ csize <= Unread /\ Unread \in Int /\ dequeued \in Nat
    BY <1>9 DEF DequeueCopy, OffsetInv, TypeOK, SizesJustified, OffsetsAccountForBytes,
       rq_nbytes_enqueued, rq_nbytes_to_flush, rq_nbytes, Distance, Offset
  <2>2. UnreadIntact
    BY ContentImpliesIntact
  <2>3. ASSUME NEW i \in 1 .. csize PROVE got'[i] = dequeued + i - 1
    <3>1. i - 1 \in 0 .. Unread - 1
      BY <2>1
    <3>2. buffer[SlotAt(rx_offset, i - 1)] = dequeued + (i - 1)
      BY <3>1, <2>2 DEF UnreadIntact
    <3> QED
      BY <1>9, <2>1, <3>2 DEF DequeueCopy
  <2> QED
    BY <1>9, <2>3 DEF DequeueCopy
<1>10. CASE Dequeue
  <2>1. csize \in Nat /\ csize <= Unread /\ Unread <= buffer_size /\ rx_offset \in 0 .. buffer_size
        /\ enqueued \in Nat /\ dequeued \in Nat
    BY <1>10 DEF Dequeue, OffsetInv, TypeOK, SizesJustified, OffsetsAccountForBytes,
       rq_nbytes_enqueued, rq_nbytes_to_flush, rq_nbytes, Distance, Offset
  <2>2. \A s \in Slot : SlotIndex(rx_offset', s) < Unread - csize
          => SlotIndex(rx_offset, s) = SlotIndex(rx_offset', s) + csize
    BY <1>10, <2>1 DEF Dequeue, Slot, SlotIndex, Advance, FirstPart, SecondPart
  <2>3. Unread' = Unread - csize /\ dequeued' = dequeued + csize
    BY <1>10, <2>1 DEF Dequeue
  <2>4. \A s \in Slot : SlotIndex(rx_offset', s) \in Int
    BY <2>1, <1>0 DEF OffsetInv, TypeOK, Offset, SlotIndex, Slot
  <2>5. \A s \in Slot : SlotIndex(rx_offset', s) < Unread'
          => buffer[s] = dequeued' + SlotIndex(rx_offset', s)
    BY <2>1, <2>2, <2>3, <2>4
  <2> QED
    BY <1>10, <2>5 DEF Dequeue, SlotIndex
<1>11. CASE Peek
  BY <1>11 DEF Peek
<1>12. CASE UNCHANGED vars
  BY <1>12 DEF vars
<1>13. /\ \A sz \in StructSizes : ~ReserveFlush(sz)
       /\ ~EnqueueCheck /\ ~EnqueueFull /\ ~EnqueueCopy
  BY DEF EnqueueCheck, EnqueueFull, EnqueueCopy
<1> QED
  BY <1>1, <1>2, <1>3, <1>4, <1>5, <1>6, <1>7, <1>8, <1>9, <1>10, <1>11, <1>12, <1>13
     DEF Next, Producer, Consumer

\* A queue that is filled in place (the transmit buffer of a connection) delivers
\* its bytes in order, none lost, repeated or overwritten, for every buffer size
\* and whatever amounts are allocated, flushed and read.
THEOREM PayloadInOrder ==
  ASSUME StructSizes = {} PROVE Spec => [](UnreadIntact /\ ReadsInOrder)
<1>1. ContentInv => UnreadIntact /\ ReadsInOrder
  BY ContentImpliesIntact DEF ContentInv
<1> QED
  BY <1>1, InitContentInv, NextContentInv, PTL DEF Spec

-------------------------------------------------------------------------------
\* Between a copy and the store that follows it the consumer holds the next csize
\* bytes, and at no other time does it hold any.
HoldsNext ==
  /\ cstep # "read" => got = <<>>
  /\ cstep = "read" => got = [i \in 1 .. csize |-> dequeued + i - 1]
StreamInv == ContentInv /\ HoldsNext

\* Every step keeps what the consumer is about to read the next bytes of the stream.
LEMMA NextHoldsNext ==
  ASSUME StructSizes = {} PROVE StreamInv /\ [Next]_vars => StreamInv'
<1> SUFFICES ASSUME StreamInv, [Next]_vars PROVE HoldsNext'
  BY NextContentInv DEF StreamInv
<1> USE DEF HoldsNext, StreamInv, shared, pvars, cvars
<1>1. CASE Producer
  BY <1>1 DEF Producer, ReserveFlush, EnqueueCheck, EnqueueFull, EnqueueCopy, EnqueuePublish,
     TxAlloc, TxAlloc2, FillPayload, TxSend, TxSendFull, NFlush
<1>2. ASSUME NEW sz \in ReadSizes, DequeueCheck(sz) PROVE HoldsNext'
  BY <1>2 DEF DequeueCheck
<1>3. CASE DequeueCopy
  <2>1. ContentInv'
    BY NextContentInv
  <2>2. \A i \in 1 .. csize : got'[i] = dequeued + i - 1
    BY <1>3, <2>1 DEF ContentInv, ReadsInOrder, DequeueCopy
  <2>3. got' = [i \in 1 .. csize |-> got'[i]]
    BY <1>3 DEF DequeueCopy
  <2> QED
    BY <1>3, <2>2, <2>3 DEF DequeueCopy
<1>4. CASE Dequeue \/ Peek
  BY <1>4 DEF Dequeue, Peek
<1>5. CASE UNCHANGED vars
  BY <1>5 DEF vars
<1> QED
  BY <1>1, <1>2, <1>3, <1>4, <1>5 DEF Next, Consumer

\* A distance is a number of bytes.
LEMMA DistanceNat ==
  ASSUME NEW from \in Offset, NEW to \in Offset PROVE rq_nbytes(from, to, TRUE) \in Nat
BY DEF rq_nbytes, Distance, Offset

\* What a step of the queue does to the distances, from the invariant before and
\* after it.
LEMMA StepIsStreamStep ==
  ASSUME StructSizes = {}, StreamInv, StreamInv', [Next]_vars
  PROVE  [Stream!Next]_(Stream!vars)
<1> DEFINE Room == buffer_size - RDMA_QUEUE_PAD
<1>0. /\ OffsetInv /\ OffsetInv' /\ Room \in Nat
      /\ pstep \notin {"reserved", "copying"}
  BY DEF StreamInv, ContentInv
<1>a. /\ rq_nbytes_enqueued \in Nat /\ rq_nbytes_to_flush \in Nat
      /\ rq_nbytes_enqueued + rq_nbytes_to_flush = enqueued - dequeued
      /\ enqueued - dequeued <= Room
      /\ enqueued \in Nat /\ dequeued \in Nat /\ psize \in Nat /\ csize \in Nat
  <2>1. rq_nbytes_enqueued \in Nat /\ rq_nbytes_to_flush \in Nat
    BY <1>0 DEF OffsetInv, TypeOK, rq_nbytes_enqueued, rq_nbytes_to_flush, rq_nbytes,
       Distance, Offset
  <2> QED
    BY <1>0, <2>1 DEF OffsetInv, TypeOK, OffsetsAccountForBytes, Unread
<1>b. /\ rq_nbytes_enqueued' \in Nat /\ rq_nbytes_to_flush' \in Nat
      /\ rq_nbytes_enqueued' + rq_nbytes_to_flush' = enqueued' - dequeued'
      /\ enqueued' - dequeued' <= Room
      /\ enqueued' \in Nat /\ dequeued' \in Nat
  <2>0. rx_offset' \in Offset /\ tx_offset' \in Offset /\ flush_offset' \in Offset
    BY <1>0 DEF OffsetInv, TypeOK
  <2>1. rq_nbytes(rx_offset', flush_offset', TRUE) \in Nat
        /\ rq_nbytes(flush_offset', tx_offset', TRUE) \in Nat
    BY <2>0, DistanceNat, Zenon
  <2>2. rq_nbytes_enqueued' = rq_nbytes(rx_offset', flush_offset', TRUE)
        /\ rq_nbytes_to_flush' = rq_nbytes(flush_offset', tx_offset', TRUE)
    BY DEF rq_nbytes_enqueued, rq_nbytes_to_flush
  <2> QED
    BY <1>0, <2>1, <2>2, Zenon DEF OffsetInv, TypeOK, OffsetsAccountForBytes, Unread
<1>n. enqueued \in Nat /\ dequeued \in Nat /\ dequeued' \in Nat /\ Room \in Nat
  BY <1>0, <1>a, <1>b
<1>c. (UNCHANGED <<rx_offset, flush_offset>>) => rq_nbytes_enqueued' = rq_nbytes_enqueued
  BY DEF rq_nbytes_enqueued, rq_nbytes, Distance
<1> USE DEF shared, pvars, cvars
<1>s. ASSUME UNCHANGED <<rx_offset, flush_offset, got, enqueued, dequeued>>
      PROVE  UNCHANGED Stream!vars
  BY <1>s, <1>c DEF Stream!vars
<1>1. CASE EnqueuePublish
  <2>1. psize \in 0 .. Room /\ enqueued' = enqueued + psize /\ dequeued' = dequeued
        /\ got' = got /\ rq_nbytes_enqueued' = rq_nbytes_enqueued
    BY <1>1, <1>a, <1>b, <1>c DEF EnqueuePublish
  <2>2. CASE psize = 0
    BY <2>1, <2>2, <1>a DEF Stream!vars
  <2>3. CASE psize # 0
    <3>1. Stream!Send(psize) /\ psize \in 1 .. Room
      BY <2>1, <2>3, <1>a, <1>b DEF Stream!Send
    <3> QED
      BY <3>1 DEF Stream!Next
  <2> QED
    BY <2>2, <2>3
<1>2. CASE \/ \E len \in AllocSizes : TxAlloc(len)
           \/ \E len \in Alloc2Sizes : TxAlloc2(len)
           \/ FillPayload \/ TxSend
  BY <1>2, <1>s DEF TxAlloc, TxAlloc2, FillPayload, TxSend
<1>3. ASSUME UNCHANGED <<rx_offset, got, enqueued, dequeued>>,
             rq_nbytes_enqueued' >= rq_nbytes_enqueued
      PROVE  [Stream!Next]_(Stream!vars)
  <2>1. PICK n \in 0 .. Room : /\ rq_nbytes_enqueued' = rq_nbytes_enqueued + n
                               /\ dequeued + rq_nbytes_enqueued + n <= enqueued
    <3>1. PICK e \in Nat, e1 \in Nat, f1 \in Nat :
            /\ e = rq_nbytes_enqueued /\ e1 = rq_nbytes_enqueued' /\ f1 = rq_nbytes_to_flush'
            /\ e1 >= e
      BY <1>3, <1>a, <1>b
    <3>2. e1 + f1 = enqueued - dequeued /\ enqueued - dequeued <= Room
      BY <1>3, <1>a, <1>b, <3>1, Zenon
    <3>3. e1 - e \in 0 .. Room /\ e1 = e + (e1 - e) /\ dequeued + e + (e1 - e) <= enqueued
      <4>1. e \in Nat /\ e1 \in Nat /\ f1 \in Nat /\ e1 >= e
        BY <3>1
      <4> QED
        BY <4>1, <3>2, <1>n
    <3> QED
      BY <3>1, <3>3, Zenon
  <2>2. CASE n = 0
    BY <1>3, <1>a, <2>1, <2>2 DEF Stream!vars
  <2>3. CASE n # 0
    <3>0. dequeued' + rq_nbytes_enqueued' = (dequeued + rq_nbytes_enqueued) + n
      BY <1>3, <1>a, <2>1
    <3>1. Stream!Publish(n) /\ n \in 1 .. Room
      BY <1>3, <1>a, <2>1, <2>3, <3>0 DEF Stream!Publish
    <3> QED
      BY <3>1 DEF Stream!Next
  <2> QED
    BY <2>2, <2>3
<1>4. CASE TxSendFull \/ \E n \in StructSizes \cup AllocSizes \cup Alloc2Sizes : NFlush(n)
  <2>1. PICK n \in Nat : flush_offset' = FlushedTo(n)
                         /\ UNCHANGED <<rx_offset, tx_offset, got, enqueued, dequeued>>
    BY <1>4, <1>a DEF TxSendFull, NFlush
  <2>2. rq_nbytes_enqueued' >= rq_nbytes_enqueued
    BY <2>1, <1>0 DEF FlushedTo, OffsetInv, TypeOK, OffsetsAccountForBytes, Unread,
       rq_nbytes_enqueued, rq_nbytes_to_flush, rq_nbytes, Distance, Offset
  <2> QED
    BY <2>1, <2>2, <1>3
<1>5. CASE \E sz \in ReadSizes : DequeueCheck(sz)
  BY <1>5, <1>s DEF DequeueCheck
<1>6. CASE DequeueCopy
  <2>1. csize <= rq_nbytes_enqueued /\ csize <= Room
    BY <1>6, <1>0, <1>a DEF DequeueCopy, OffsetInv, SizesJustified
  <2>2. got = <<>> /\ got' = [i \in 1 .. csize |-> dequeued + i - 1]
    BY <1>6 DEF DequeueCopy, StreamInv, HoldsNext
  <2>3. UNCHANGED <<enqueued, dequeued>> /\ rq_nbytes_enqueued' = rq_nbytes_enqueued
    BY <1>6, <1>c DEF DequeueCopy
  <2>4. CASE csize = 0
    <3>1. got' = <<>>
      BY <2>2, <2>4
    <3> QED
      BY <2>2, <2>3, <3>1 DEF Stream!vars
  <2>5. CASE csize # 0
    <3>1. Stream!Read(csize) /\ csize \in 1 .. Room
      BY <2>1, <2>2, <2>3, <2>5, <1>a DEF Stream!Read
    <3> QED
      BY <3>1 DEF Stream!Next
  <2> QED
    BY <2>4, <2>5
<1>7. CASE Dequeue
  <2>1. got = [i \in 1 .. csize |-> dequeued + i - 1] /\ got' = <<>>
        /\ dequeued' = dequeued + csize /\ enqueued' = enqueued
    BY <1>7 DEF Dequeue, StreamInv, HoldsNext
  <2>2. Len(got) = csize
    BY <2>1, <1>a
  <2>3. rq_nbytes_to_flush' = rq_nbytes_to_flush
    BY <1>7 DEF Dequeue, rq_nbytes_to_flush, rq_nbytes, Distance
  <2>4. dequeued' + rq_nbytes_enqueued' = dequeued + rq_nbytes_enqueued
    <3>1. PICK e \in Nat, e1 \in Nat, f \in Nat :
            /\ e = rq_nbytes_enqueued /\ e1 = rq_nbytes_enqueued' /\ f = rq_nbytes_to_flush
      BY <1>a, <1>b
    <3>2. e + f = enqueued - dequeued /\ e1 + f = enqueued - (dequeued + csize)
      BY <1>a, <1>b, <2>1, <2>3, <3>1, Zenon
    <3>3. (dequeued + csize) + e1 = dequeued + e
      <4>1. e \in Nat /\ e1 \in Nat /\ f \in Nat /\ csize \in Nat
        BY <3>1, <1>a
      <4> QED
        BY <4>1, <3>2, <1>n
    <3> QED
      BY <3>1, <3>3, <2>1
  <2>5. Stream!Take
    BY <2>1, <2>2, <2>4, Zenon DEF Stream!Take
  <2> QED
    BY <2>5 DEF Stream!Next
<1>8. CASE Peek
  <2>1. Stream!PutBack
    BY <1>8, <1>c DEF Peek, Stream!PutBack
  <2> QED
    BY <2>1 DEF Stream!Next
<1>9. CASE UNCHANGED vars
  BY <1>9, <1>s DEF vars
<1>10. /\ \A sz \in StructSizes : ~ReserveFlush(sz)
       /\ ~EnqueueCheck /\ ~EnqueueFull /\ ~EnqueueCopy
  BY <1>0 DEF EnqueueCheck, EnqueueFull, EnqueueCopy
<1> QED
  BY <1>1, <1>2, <1>4, <1>5, <1>6, <1>7, <1>8, <1>9, <1>10 DEF Next, Producer, Consumer

\* A queue that is filled in place implements the bounded byte stream, for every
\* buffer size, pad and set of request sizes.
THEOREM PayloadQueueImplementsStream ==
  ASSUME StructSizes = {} PROVE Spec => ImplementsStream
<1>1. Init => Stream!Init /\ StreamInv
  <2>1. Init => Stream!Init
    BY DEF Init, Stream!Init, rq_nbytes_enqueued, rq_nbytes, Distance
  <2>2. Init => HoldsNext
    BY DEF Init, HoldsNext
  <2> QED
    BY <2>1, <2>2, InitContentInv DEF StreamInv
<1>2. StreamInv /\ [Next]_vars => StreamInv'
  BY NextHoldsNext
<1>3. StreamInv /\ StreamInv' /\ [Next]_vars => [Stream!Next]_(Stream!vars)
  BY StepIsStreamStep
<1> QED
  BY <1>1, <1>2, <1>3, PTL DEF Spec, ImplementsStream, Stream!Spec
===============================================================================
