--------------------------- MODULE FlowReceiveProofs --------------------------
(***************************************************************************)
(* Proofs about the receive half of a fast path flow, for every sequence   *)
(* space, first sequence number, stream, buffer, segment size and number   *)
(* of segments in the network.                                             *)
(***************************************************************************)
EXTENDS FlowReceive, ArithmeticProofs, TLAPS

\* What the theorem assumes: the stream and one buffer behind it fit the sequence
\* space, and the handshake announces no more than the buffer holds.
FitsAndHonest ==
  /\ StreamLen + buffer_size + 1 < SeqMod
  /\ \A w \in InitialWindows : w <= buffer_size - RDMA_QUEUE_PAD

Free == buffer_size - announced - RDMA_QUEUE_PAD
OooAhead == SeqDiff(rx_ooo_start, rx_next_seq)

\* The numbers: the application was told of what was accepted and not taken, the
\* offsets enclose it, and the sequence number stands behind it.
CountsInv ==
  /\ TypeOK
  /\ accepted = consumed + announced
  /\ announced <= buffer_size - RDMA_QUEUE_PAD
  /\ Ahead(rx_offset, tx_offset) = announced
  /\ rx_next_seq = SeqOf(NextPos)
  /\ rx_fin => accepted = StreamLen /\ rx_ooo_len = 0 /\ announced_fin

\* The peer and everything in the network keep to the stream and to the window.
Allowed(seg) ==
  /\ seg.pos + seg.len <= StreamLen /\ seg.pos + seg.len <= NextPos + Free
  /\ seg.fin => seg.pos + seg.len = StreamLen
PeerInv ==
  /\ acked <= NextPos /\ edge <= NextPos + Free
  /\ \A seg \in net : Allowed(seg)

\* The out-of-order interval is ahead of the next byte, in the stream and in the
\* free part of the buffer.
OooInv ==
  rx_ooo_len > 0 =>
    /\ OooAhead > 0 /\ OooAhead + rx_ooo_len <= Free
    /\ rx_ooo_start = SeqOf(accepted + OooAhead)
    /\ accepted + OooAhead + rx_ooo_len <= StreamLen

\* The slots of the unread bytes and of the out-of-order interval, by their index
\* from rx.offset, hold the bytes of the stream that belong there.
BufferInv ==
  \A s \in Slot :
    LET index == SlotIndex(rx_offset, s)
        held == index >= announced + OooAhead /\ index < announced + OooAhead + rx_ooo_len
    IN  index < announced \/ held => buffer[s] = consumed + index

ReceiveInv == CountsInv /\ PeerInv /\ OooInv /\ BufferInv

-------------------------------------------------------------------------------
USE SeqAssumption, RingAssumption, ReceiveAssumption

\* The sequence number of a byte wraps at most once.
LEMMA SeqOfWraps ==
  ASSUME NEW p \in Nat, p < SeqMod
  PROVE  SeqOf(p) \in SeqNo /\ SeqOf(p) = IF ISN + p < SeqMod THEN ISN + p ELSE ISN + p - SeqMod
<1>1. ISN \in 0 .. SeqMod - 1 /\ p \in 0 .. SeqMod - 1
  BY DEF SeqNo
<1>2. SeqOf(p) = IF ISN + p < SeqMod THEN ISN + p ELSE ISN + p - SeqMod
  BY <1>1, SeqWraps DEF SeqOf, SeqAdd
<1> QED
  BY <1>1, <1>2 DEF SeqNo

\* Sequence numbers of bytes that fit the sequence space add and subtract like the
\* positions of the bytes, and only equal positions have equal ones.
LEMMA SeqOfAdd ==
  ASSUME NEW p \in Nat, NEW n \in Nat, p + n < SeqMod
  PROVE  SeqAdd(SeqOf(p), n) = SeqOf(p + n)
<1>1. /\ SeqOf(p) \in 0 .. SeqMod - 1
      /\ SeqOf(p) = IF ISN + p < SeqMod THEN ISN + p ELSE ISN + p - SeqMod
      /\ SeqOf(p + n) = IF ISN + (p + n) < SeqMod THEN ISN + (p + n) ELSE ISN + (p + n) - SeqMod
  BY SeqOfWraps DEF SeqNo
<1>2. n \in 0 .. SeqMod - 1 /\ ISN \in 0 .. SeqMod - 1
  BY DEF SeqNo
<1>3. SeqAdd(SeqOf(p), n) = IF SeqOf(p) + n < SeqMod THEN SeqOf(p) + n ELSE SeqOf(p) + n - SeqMod
  BY <1>1, <1>2, SeqWraps DEF SeqAdd
<1> QED
  BY <1>1, <1>2, <1>3

\* Sequence numbers of positions are as far apart as the positions.
LEMMA SeqOfDiff ==
  ASSUME NEW p \in Nat, NEW q \in Nat, q <= p, p < SeqMod
  PROVE  SeqDiff(SeqOf(p), SeqOf(q)) = p - q
<1>1. /\ SeqOf(p) \in 0 .. SeqMod - 1 /\ SeqOf(q) \in 0 .. SeqMod - 1
      /\ SeqOf(p) = IF ISN + p < SeqMod THEN ISN + p ELSE ISN + p - SeqMod
      /\ SeqOf(q) = IF ISN + q < SeqMod THEN ISN + q ELSE ISN + q - SeqMod
  BY SeqOfWraps DEF SeqNo
<1>2. ISN \in 0 .. SeqMod - 1
  BY DEF SeqNo
<1>3. SeqDiff(SeqOf(p), SeqOf(q)) = IF SeqOf(p) >= SeqOf(q) THEN SeqOf(p) - SeqOf(q)
                                    ELSE SeqOf(p) - SeqOf(q) + SeqMod
  BY <1>1, SeqWraps, Zenon DEF SeqDiff
<1> QED
  BY <1>1, <1>2, <1>3

\* Positions less than a turn apart have different sequence numbers.
LEMMA SeqOfInjective ==
  ASSUME NEW p \in Nat, NEW q \in Nat, p < SeqMod, q < SeqMod, SeqOf(p) = SeqOf(q)
  PROVE  p = q
<1>1. (IF ISN + p < SeqMod THEN ISN + p ELSE ISN + p - SeqMod)
        = (IF ISN + q < SeqMod THEN ISN + q ELSE ISN + q - SeqMod)
  BY SeqOfWraps, Zenon
<1> QED
  BY <1>1 DEF SeqNo

\* A segment of l bytes at position p against e unused bytes at position n, in
\* numbers; it does not go beyond the unused part.
SegmentNumbers(M, isn, n, e, p, l, sa, sb, pa, pb) ==
  /\ M \in Int /\ isn \in Int /\ n \in Int /\ e \in Int /\ p \in Int /\ l \in Int
  /\ sa \in Int /\ sb \in Int /\ pa \in Int /\ pb \in Int
  /\ 0 <= isn /\ isn < M /\ 0 <= n /\ 0 <= e /\ 0 <= p /\ 0 <= l /\ p + l <= n + e /\ n + e < M
  /\ sa = IF isn + n < M THEN isn + n ELSE isn + n - M
  /\ sb = IF isn + n + e < M THEN isn + n + e ELSE isn + n + e - M
  /\ pa = IF isn + p < M THEN isn + p ELSE isn + p - M
  /\ pb = IF isn + p + l < M THEN isn + p + l ELSE isn + p + l - M

\* The comparisons of tcp_trim_rxbuf say where the segment lies in the stream.
LEMMA SegmentArithmetic ==
  ASSUME NEW M, NEW isn, NEW n, NEW e, NEW p, NEW l, NEW sa, NEW sb, NEW pa, NEW pb,
         SegmentNumbers(M, isn, n, e, p, l, sa, sb, pa, pb)
  PROVE  /\ TrimDrops(pa, pb, sa, sb) <=> p + l < n
         /\ ~TrimDrops(pa, pb, sa, sb) =>
              /\ TrimsStart(pa, pb, sa, sb) <=> p < n
              /\ TrimsEnd(pa, pb, sa, sb) => pb = sb
<1>1. CASE pa > pb
  BY <1>1 DEF SegmentNumbers, TrimDrops, TrimsStart, TrimsEnd
<1>2. CASE ~(pa > pb)
  BY <1>2 DEF SegmentNumbers, TrimDrops, TrimsStart, TrimsEnd
<1> QED
  BY <1>1, <1>2

\* tcp_trim_rxbuf in positions of the stream: it drops what ends before the next
\* byte, cuts what was received already, and cuts nothing of the end.
LEMMA TrimPositions ==
  ASSUME NEW n \in Nat, NEW e \in Nat, NEW p \in Nat, NEW l \in Nat, p + l <= n + e, n + e < SeqMod
  PROVE  LET trim == tcp_trim_rxbuf(SeqOf(n), e, SeqOf(p), l)
         IN  /\ trim.ok <=> p + l >= n
             /\ trim.ok => /\ trim.trim_start = IF p < n THEN n - p ELSE 0
                           /\ trim.trim_end = 0
<1> DEFINE sa == SeqOf(n)
           sb == SeqAdd(sa, e)
           pa == SeqOf(p)
           pb == SeqAdd(pa, l)
           trim == tcp_trim_rxbuf(SeqOf(n), e, SeqOf(p), l)
<1>1. /\ sa \in SeqNo /\ sa = IF ISN + n < SeqMod THEN ISN + n ELSE ISN + n - SeqMod
      /\ pa \in SeqNo /\ pa = IF ISN + p < SeqMod THEN ISN + p ELSE ISN + p - SeqMod
  BY SeqOfWraps
<1>2. sb = SeqOf(n + e) /\ pb = SeqOf(p + l)
  BY SeqOfAdd
<1>3. /\ sb \in SeqNo /\ sb = IF ISN + (n + e) < SeqMod THEN ISN + (n + e) ELSE ISN + (n + e) - SeqMod
      /\ pb \in SeqNo /\ pb = IF ISN + (p + l) < SeqMod THEN ISN + (p + l) ELSE ISN + (p + l) - SeqMod
  <2>1. n + e \in Nat /\ p + l \in Nat /\ p + l < SeqMod
    OBVIOUS
  <2> QED
    BY <1>2, <2>1, SeqOfWraps
<1>4. /\ trim.ok <=> ~TrimDrops(pa, pb, sa, sb)
      /\ trim.trim_start = IF TrimsStart(pa, pb, sa, sb) THEN SeqDiff(sa, pa) ELSE 0
      /\ trim.trim_end = IF TrimsEnd(pa, pb, sa, sb) THEN SeqDiff(pb, sb) ELSE 0
  BY Zenon DEF tcp_trim_rxbuf
<1>5. p < n => SeqDiff(sa, pa) = n - p
  BY SeqOfDiff
<1>6. pb = sb => SeqDiff(pb, sb) = 0
  <2> HIDE DEF pb, sb
  <2> QED
    BY <1>3 DEF SeqDiff, SeqNo
<1> HIDE DEF sa, sb, pa, pb, trim
<1>7. SegmentNumbers(SeqMod, ISN, n, e, p, l, sa, sb, pa, pb)
  BY <1>1, <1>3 DEF SegmentNumbers, SeqNo
<1>8. /\ TrimDrops(pa, pb, sa, sb) <=> p + l < n
      /\ ~TrimDrops(pa, pb, sa, sb) =>
           /\ TrimsStart(pa, pb, sa, sb) <=> p < n
           /\ TrimsEnd(pa, pb, sa, sb) => pb = sb
  BY <1>7, SegmentArithmetic
<1>9. trim.ok <=> p + l >= n
  <2>1. p + l < n <=> ~(p + l >= n)
    OBVIOUS
  <2> QED
    BY <1>4, <1>8, <2>1, Zenon
<1>10. trim.ok => trim.trim_end = 0 /\ trim.trim_start = IF p < n THEN n - p ELSE 0
  BY <1>4, <1>5, <1>6, <1>8, Zenon
<1> QED
  BY <1>9, <1>10, Zenon DEF trim

-------------------------------------------------------------------------------
\* The types and sums of the invariant that every step needs.
LEMMA Counts ==
  ASSUME FitsAndHonest, CountsInv
  PROVE  /\ accepted \in Nat /\ accepted <= StreamLen /\ consumed \in Nat /\ announced \in Nat
         /\ accepted = consumed + announced /\ Free \in Nat /\ Free + announced < buffer_size
         /\ NextPos \in Nat /\ NextPos >= accepted /\ NextPos <= StreamLen + 1
         /\ NextPos + Free < SeqMod /\ StreamLen + 1 < SeqMod
         /\ (~rx_fin => NextPos = accepted)
         /\ rx_offset \in Offset /\ tx_offset \in Offset
         /\ rx_ooo_len \in Nat /\ rx_ooo_start \in SeqNo /\ rx_next_seq \in SeqNo
         /\ rq_nbytes_empty = Free
<1>1. /\ accepted \in 0 .. StreamLen /\ consumed \in 0 .. StreamLen /\ announced \in 0 .. buffer_size
      /\ accepted = consumed + announced /\ announced <= buffer_size - RDMA_QUEUE_PAD
      /\ rx_offset \in Offset /\ tx_offset \in Offset
      /\ rx_ooo_len \in 0 .. buffer_size /\ rx_ooo_start \in SeqNo /\ rx_next_seq \in SeqNo
  BY DEF CountsInv, TypeOK
<1>2. rq_nbytes_empty = Free
  BY Zenon DEF rq_nbytes_empty, Free, CountsInv, Ahead
<1>3. NextPos = IF rx_fin THEN accepted + 1 ELSE accepted
  BY <1>1 DEF NextPos
<1>4. Free \in Nat /\ Free + announced < buffer_size
  BY <1>1 DEF Free
<1> HIDE DEF Free
<1>5. StreamLen + buffer_size + 1 < SeqMod
  BY DEF FitsAndHonest
<1>6. /\ NextPos \in Nat /\ NextPos >= accepted /\ NextPos <= StreamLen + 1
      /\ NextPos + Free < SeqMod /\ StreamLen + 1 < SeqMod
      /\ (~rx_fin => NextPos = accepted)
  BY <1>1, <1>3, <1>4, <1>5
<1> QED
  BY <1>1, <1>2, <1>4, <1>6

\* What tcp_trim_rxbuf leaves of a segment of the network, and what InOrder means.
LEMMA SegmentCut ==
  ASSUME FitsAndHonest, CountsInv, PeerInv, NEW seg \in net
  PROVE  /\ seg.pos \in Nat /\ seg.len \in Nat /\ seg.fin \in BOOLEAN
         /\ Trimmed(seg).ok /\ SeqOf(FirstPos(seg)) = rx_next_seq =>
              /\ ~rx_fin /\ FirstPos(seg) = accepted
              /\ seg.pos <= accepted /\ seg.pos + seg.len >= accepted
              /\ Payload(seg) = seg.pos + seg.len - accepted
         /\ Trimmed(seg).ok /\ SeqOf(FirstPos(seg)) # rx_next_seq =>
              /\ ~rx_fin /\ FirstPos(seg) = seg.pos /\ seg.pos > accepted
              /\ Payload(seg) = seg.len
<1> DEFINE p == seg.pos
           l == seg.len
<1>1. p \in Nat /\ l \in Nat /\ seg.fin \in BOOLEAN
  <2>1. seg \in Segment
    BY DEF CountsInv, TypeOK
  <2>2. seg.pos \in 0 .. StreamLen /\ seg.len \in {0} \cup SegSizes /\ seg.fin \in BOOLEAN
    BY <2>1, Zenon DEF Segment
  <2>3. seg.pos \in Nat
    <3>1. seg.pos \in 0 .. StreamLen
      BY <2>2
    <3> QED
      BY ONLY <3>1, ReceiveAssumption
  <2>4. seg.len \in Nat
    <3>1. seg.len = 0 \/ seg.len \in SegSizes
      BY <2>2, Zenon
    <3>2. 0 \in Nat /\ \A n \in SegSizes : n \in Nat
      OBVIOUS
    <3> QED
      BY <3>1, <3>2, Zenon
  <2> QED
    BY <2>2, <2>3, <2>4, Zenon
<1>2. p + l <= StreamLen /\ p + l <= NextPos + Free
  BY DEF PeerInv, Allowed
<1>3. rx_next_seq = SeqOf(NextPos)
  BY DEF CountsInv
<1>4. Trimmed(seg) = tcp_trim_rxbuf(SeqOf(NextPos), Free, SeqOf(p), l)
  BY <1>3, Counts DEF Trimmed
<1> HIDE DEF p, l
<1>5. /\ Trimmed(seg).ok <=> p + l >= NextPos
      /\ Trimmed(seg).ok => /\ Trimmed(seg).trim_start = IF p < NextPos THEN NextPos - p ELSE 0
                            /\ Trimmed(seg).trim_end = 0
  <2>1. NextPos \in Nat /\ Free \in Nat /\ NextPos + Free < SeqMod
    BY Counts
  <2> DEFINE trim == tcp_trim_rxbuf(SeqOf(NextPos), Free, SeqOf(p), l)
  <2>3. /\ trim.ok <=> p + l >= NextPos
        /\ trim.ok => /\ trim.trim_start = IF p < NextPos THEN NextPos - p ELSE 0
                      /\ trim.trim_end = 0
    BY ONLY <1>1, <1>2, <2>1, TrimPositions
  <2> QED
    BY <1>4, <2>3, Zenon
<1> SUFFICES ASSUME Trimmed(seg).ok
             PROVE  /\ SeqOf(FirstPos(seg)) = rx_next_seq =>
                         /\ ~rx_fin /\ FirstPos(seg) = accepted
                         /\ p <= accepted /\ p + l >= accepted
                         /\ Payload(seg) = p + l - accepted
                    /\ SeqOf(FirstPos(seg)) # rx_next_seq =>
                         ~rx_fin /\ FirstPos(seg) = p /\ p > accepted /\ Payload(seg) = l
  BY <1>1 DEF p, l
<1>6. p + l >= NextPos
  BY <1>5
<1>7. ~rx_fin
  <2>1. rx_fin => NextPos = StreamLen + 1
    BY DEF NextPos, CountsInv
  <2> QED
    BY <1>1, <1>2, <1>6, <2>1
<1>8. NextPos = accepted
  BY <1>7, Counts
<1>9. /\ FirstPos(seg) = IF p < accepted THEN p + (accepted - p) ELSE p + 0
      /\ Payload(seg) = IF p < accepted THEN l - (accepted - p) - 0 ELSE l - 0 - 0
  BY <1>5, <1>8 DEF FirstPos, Payload, p, l
<1>10. /\ FirstPos(seg) = IF p < accepted THEN accepted ELSE p
       /\ Payload(seg) = IF p < accepted THEN p + l - accepted ELSE l
  BY <1>1, <1>9, Counts
<1>11. CASE p <= accepted
  <2>1. FirstPos(seg) = accepted /\ Payload(seg) = p + l - accepted
    BY <1>1, <1>10, <1>11, Counts
  <2> QED
    BY <1>3, <1>6, <1>7, <1>8, <1>11, <2>1
<1>12. CASE p > accepted
  <2>1. FirstPos(seg) = p /\ Payload(seg) = l
    BY <1>1, <1>10, <1>12, Counts
  <2>2. p < SeqMod /\ accepted < SeqMod
    BY <1>1, <1>2, Counts
  <2>3. SeqOf(p) # SeqOf(accepted)
    BY <1>1, <1>12, <2>2, Counts, SeqOfInjective
  <2> QED
    BY <1>3, <1>7, <1>8, <1>12, <2>1, <2>3
<1> QED
  BY <1>1, <1>11, <1>12, Counts

\* Writing len bytes diff bytes after what is enqueued puts each of them where the
\* invariant wants it, and touches nothing else.
LEMMA WrittenAt ==
  ASSUME FitsAndHonest, CountsInv, NEW diff \in Nat, NEW len \in Nat, diff + len <= Free, NEW s \in Slot
  PROVE  Written(diff, accepted + diff, len)[s] =
           IF /\ SlotIndex(rx_offset, s) >= announced + diff
              /\ SlotIndex(rx_offset, s) < announced + diff + len
           THEN consumed + SlotIndex(rx_offset, s) ELSE buffer[s]
<1> DEFINE from == SlotAt(tx_offset, diff)
           k == SlotIndex(from, s)
           index == SlotIndex(rx_offset, s)
<1>1. Ahead(rx_offset, tx_offset) = announced
  BY DEF CountsInv
<1>2. announced + diff < buffer_size /\ announced + diff + len < buffer_size
  BY Counts
<1>3. from \in Offset /\ Ahead(rx_offset, from) = announced + diff
  BY <1>1, <1>2, Counts, SlotAtAhead
<1> HIDE DEF from
<1>4. index \in Nat /\ k \in Nat
  BY <1>3, Counts, IndexNat
<1>5. /\ k < len <=> index >= announced + diff /\ index < announced + diff + len
      /\ k < len => index = announced + diff + k
  BY <1>2, <1>3, Counts, IndexAhead, IndexShifts
<1>6. Written(diff, accepted + diff, len)[s] = IF k < len THEN (accepted + diff) + k ELSE buffer[s]
  BY DEF Written, from
<1> HIDE DEF k, index
<1>7. k < len => (accepted + diff) + k = consumed + index
  BY <1>4, <1>5, Counts
<1> QED
  BY <1>5, <1>6, <1>7 DEF index

\* The out-of-order interval after len bytes were received in order: it is left
\* where it was, joined to them, or gone, and what is joined fits the buffer.
LEMMA OooJoins ==
  ASSUME FitsAndHonest, CountsInv, OooInv, ~rx_fin,
         NEW len \in Nat, len <= Free, accepted + len <= StreamLen
  PROVE  LET ooo == OooAfter(len)
         IN  /\ ooo.joined \in Nat /\ ooo.len \in Nat /\ ooo.len <= rx_ooo_len /\ ooo.start \in SeqNo
             /\ len + ooo.joined <= Free /\ accepted + len + ooo.joined <= StreamLen
             /\ (ooo.joined > 0 => /\ ooo.len = 0 /\ rx_ooo_len > 0 /\ OooAhead <= len
                                   /\ len + ooo.joined = OooAhead + rx_ooo_len)
             /\ (ooo.len > 0 => /\ ooo.joined = 0 /\ ooo.start = rx_ooo_start
                                /\ ooo.len = rx_ooo_len /\ OooAhead > len)
<1> DEFINE next == SeqAdd(rx_next_seq, len)
           trim == tcp_trim_rxbuf(next, rq_nbytes_empty - len, rx_ooo_start, rx_ooo_len)
           start == SeqAdd(rx_ooo_start, trim.trim_start)
           left == rx_ooo_len - trim.trim_start - trim.trim_end
           ooo == OooAfter(len)
           n == accepted + len
           p == accepted + OooAhead
<1>1. ooo = IF len = 0 \/ rx_ooo_len = 0
            THEN [start |-> rx_ooo_start, len |-> rx_ooo_len, joined |-> 0]
            ELSE IF ~trim.ok THEN [start |-> rx_ooo_start, len |-> 0, joined |-> 0]
            ELSE IF left > 0 /\ start = next THEN [start |-> start, len |-> 0, joined |-> left]
            ELSE [start |-> start, len |-> left, joined |-> 0]
  BY DEF OooAfter
<1> HIDE DEF ooo, start, left, trim
<1>2. CASE rx_ooo_len = 0
  <2>1. ooo.start = rx_ooo_start /\ ooo.len = 0 /\ ooo.joined = 0
    BY <1>1, <1>2
  <2> QED
    BY <1>2, <2>1, Counts DEF ooo
<1>3. CASE rx_ooo_len # 0 /\ len = 0
  <2>1. ooo.start = rx_ooo_start /\ ooo.len = rx_ooo_len /\ ooo.joined = 0
    BY <1>1, <1>3
  <2>2. OooAhead > 0
    BY <1>3, Counts DEF OooInv
  <2> QED
    BY <1>3, <2>1, <2>2, Counts DEF ooo
<1>4. CASE rx_ooo_len # 0 /\ len # 0
  <2>1. /\ OooAhead > 0 /\ OooAhead + rx_ooo_len <= Free /\ rx_ooo_start = SeqOf(p)
        /\ accepted + OooAhead + rx_ooo_len <= StreamLen
    BY <1>4, Counts DEF OooInv
  <2>2. OooAhead \in Nat
    BY Counts DEF OooAhead, SeqDiff, SeqNo
  <2>3. next = SeqOf(n)
    <3>1. accepted + len < SeqMod /\ rx_next_seq = SeqOf(accepted)
      BY Counts DEF CountsInv
    <3> QED
      BY <3>1, Counts, SeqOfAdd
  <2>4. rq_nbytes_empty - len = Free - len
    BY Counts
  <2>5. n \in Nat /\ p \in Nat /\ Free - len \in Nat /\ p + rx_ooo_len <= n + (Free - len)
        /\ n + (Free - len) < SeqMod
    BY <2>1, <2>2, Counts
  <2>6. trim = tcp_trim_rxbuf(SeqOf(n), Free - len, SeqOf(p), rx_ooo_len)
    BY <2>1, <2>3, <2>4 DEF trim
  <2> HIDE DEF n, p, next
  <2>7. /\ trim.ok <=> p + rx_ooo_len >= n
        /\ trim.ok => /\ trim.trim_start = IF p < n THEN n - p ELSE 0
                      /\ trim.trim_end = 0
    <3>1. rx_ooo_len \in Nat
      BY Counts
    <3> DEFINE t == tcp_trim_rxbuf(SeqOf(n), Free - len, SeqOf(p), rx_ooo_len)
    <3>2. /\ t.ok <=> p + rx_ooo_len >= n
          /\ t.ok => t.trim_start = (IF p < n THEN n - p ELSE 0) /\ t.trim_end = 0
      BY ONLY <2>5, <3>1, TrimPositions
    <3> QED
      BY <2>6, <3>2, Zenon
  <2>8. CASE ~trim.ok
    <3>1. ooo.start = rx_ooo_start /\ ooo.len = 0 /\ ooo.joined = 0
      BY <1>1, <1>4, <2>8
    <3> QED
      BY <3>1, Counts DEF ooo
  <2>9. CASE trim.ok /\ OooAhead <= len
    <3>1. trim.trim_start = len - OooAhead /\ trim.trim_end = 0 /\ OooAhead + rx_ooo_len >= len
      BY <2>2, <2>7, <2>9, Counts DEF n, p
    <3>2. start = next
      <4>1. p + (len - OooAhead) = n /\ len - OooAhead \in Nat /\ n < SeqMod
        BY <2>2, <2>5, <2>9, Counts DEF n, p
      <4>2. SeqAdd(SeqOf(p), len - OooAhead) = SeqOf(n)
        BY <2>5, <4>1, SeqOfAdd
      <4> QED
        BY <2>1, <2>3, <3>1, <4>2 DEF start
    <3>3. left = rx_ooo_len + OooAhead - len
      BY <2>2, <3>1, Counts DEF left
    <3>4. CASE left > 0
      <4>1. ooo.start = start /\ ooo.len = 0 /\ ooo.joined = left
        BY <1>1, <1>4, <2>9, <3>2, <3>4
      <4>2. start \in SeqNo
        BY <2>3, <2>5, <3>2, SeqOfWraps
      <4>3. /\ left \in Nat /\ len + left = OooAhead + rx_ooo_len /\ len + left <= Free
            /\ accepted + len + left <= StreamLen
        BY <2>1, <2>2, <3>1, <3>3, Counts
      <4> QED
        BY <1>4, <2>9, <4>1, <4>2, <4>3, Counts DEF ooo
    <3>5. CASE ~(left > 0)
      <4>1. left = 0
        BY <2>2, <3>1, <3>3, <3>5, Counts
      <4>2. ooo.start = start /\ ooo.len = 0 /\ ooo.joined = 0
        BY <1>1, <1>4, <2>9, <3>5, <4>1
      <4>3. start \in SeqNo
        BY <2>3, <2>5, <3>2, SeqOfWraps
      <4> QED
        BY <4>2, <4>3, Counts DEF ooo
    <3> QED
      BY <3>4, <3>5
  <2>10. CASE trim.ok /\ ~(OooAhead <= len)
    <3>1. trim.trim_start = 0 /\ trim.trim_end = 0
      BY <2>2, <2>7, <2>10, Counts DEF n, p
    <3>2. start = rx_ooo_start
      <4>1. p + 0 = p /\ 0 \in Nat /\ p < SeqMod
        BY <2>5, Counts
      <4>2. SeqAdd(SeqOf(p), 0) = SeqOf(p)
        BY <2>5, <4>1, SeqOfAdd
      <4> QED
        BY <2>1, <3>1, <4>2 DEF start
    <3>3. left = rx_ooo_len
      BY <3>1, Counts DEF left
    <3>4. start # next
      <4>1. p # n /\ p < SeqMod /\ n < SeqMod
        BY <2>2, <2>5, <2>10, Counts DEF n, p
      <4> QED
        BY <2>1, <2>3, <2>5, <3>2, <4>1, SeqOfInjective
    <3>5. ooo.start = rx_ooo_start /\ ooo.len = rx_ooo_len /\ ooo.joined = 0
      BY <1>1, <1>4, <2>10, <3>2, <3>3, <3>4
    <3> QED
      BY <2>2, <2>10, <3>5, Counts DEF ooo
  <2> QED
    BY <2>8, <2>9, <2>10
<1> QED
  BY <1>2, <1>3, <1>4

-------------------------------------------------------------------------------
\* A flow starts with an empty buffer and a window that the buffer holds.
LEMMA InitReceive ==
  ASSUME FitsAndHonest, Init
  PROVE  ReceiveInv
<1>1. ISN \in 0 .. SeqMod - 1 /\ 0 \in 0 .. SeqMod - 1 /\ edge \in Nat /\ edge <= buffer_size - RDMA_QUEUE_PAD
  BY DEF Init, FitsAndHonest, SeqNo
<1>2. NextPos = 0
  BY DEF NextPos, Init
<1>3. TypeOK
  <2>1. /\ rx_next_seq \in SeqNo /\ rx_ooo_start \in SeqNo /\ rx_ooo_len \in 0 .. buffer_size
        /\ rx_dupack_cnt \in 0 .. 2 /\ rx_offset \in Offset /\ tx_offset \in Offset
        /\ announced \in 0 .. buffer_size /\ rxb_bump \in Nat /\ acked \in 0 .. StreamLen + 1
        /\ edge \in Nat /\ accepted \in 0 .. StreamLen /\ consumed \in 0 .. StreamLen
    BY <1>1 DEF Init, SeqNo, Offset
  <2>2. buffer \in [Slot -> -1 .. StreamLen]
    <3>1. -1 \in -1 .. StreamLen
      OBVIOUS
    <3> QED
      BY <3>1 DEF Init, Junk
  <2>3. rx_fin \in BOOLEAN /\ announced_fin \in BOOLEAN /\ net \subseteq Segment
    BY Zenon DEF Init
  <2> QED
    BY <2>1, <2>2, <2>3 DEF TypeOK
<1>4. CountsInv
  <2>1. SeqOf(0) = ISN
    BY <1>1, SeqOfWraps
  <2>2. Ahead(0, 0) = 0
    BY DEF Ahead, rq_nbytes, Distance
  <2> QED
    BY <1>2, <1>3, <2>1, <2>2 DEF Init, CountsInv
<1>5. PeerInv
  BY <1>1, <1>2 DEF Init, PeerInv, Free
<1>6. OooInv
  BY DEF Init, OooInv
<1>7. BufferInv
  <2> SUFFICES ASSUME NEW s \in Slot
               PROVE  /\ ~(SlotIndex(0, s) < 0)
                      /\ ~(SlotIndex(0, s) >= 0 + OooAhead /\ SlotIndex(0, s) < 0 + OooAhead + 0)
    BY DEF Init, BufferInv
  <2>1. SlotIndex(0, s) \in Nat
    BY IndexNat DEF Offset
  <2>2. OooAhead \in Nat
    BY <1>1 DEF OooAhead, SeqDiff, Init
  <2> HIDE DEF OooAhead
  <2> QED
    BY <2>1, <2>2
<1> QED
  BY <1>4, <1>5, <1>6, <1>7 DEF ReceiveInv

\* Acknowledgements tell the peer no more than there is: it and the segments under
\* way keep to the window as long as the window's edge does not move back.
LEMMA PeerKept ==
  ASSUME FitsAndHonest, CountsInv, PeerInv, AckSent \/ UNCHANGED peer,
         NextPos' \in Nat, Free' \in Nat, NextPos' <= StreamLen + 1, rq_nbytes_empty' = Free',
         NextPos <= NextPos', NextPos + Free <= NextPos' + Free',
         \A seg \in net' : seg \in Segment /\ Allowed(seg)
  PROVE  PeerInv' /\ acked' \in 0 .. StreamLen + 1 /\ edge' \in Nat
<1>1. acked \in Nat /\ edge \in Nat /\ acked <= NextPos /\ edge <= NextPos + Free
  BY DEF CountsInv, TypeOK, PeerInv
<1>2. NextPos \in Nat /\ Free \in Nat
  BY Counts
<1> DEFINE n == NextPos'
           f == Free'
           np == NextPos
           fp == Free
<1> HIDE DEF n, f, np, fp
<1>3. n \in Nat /\ f \in Nat /\ np \in Nat /\ fp \in Nat /\ n <= StreamLen + 1 /\ np <= n /\ np + fp <= n + f
  BY <1>2, Zenon DEF n, f, np, fp
<1>4. \/ /\ acked' = IF n > acked THEN n ELSE acked
         /\ edge' = IF n + f > edge THEN n + f ELSE edge
      \/ acked' = acked /\ edge' = edge
  BY DEF AckSent, peer, n, f
<1>5. acked' \in Nat /\ acked' <= n /\ edge' \in Nat /\ edge' <= n + f
  BY <1>1, <1>3, <1>4 DEF np, fp
<1>6. ASSUME NEW seg \in net'
      PROVE  /\ seg.pos + seg.len <= StreamLen /\ seg.pos + seg.len <= n + f
             /\ seg.fin => seg.pos + seg.len = StreamLen
  <2>1. /\ seg.pos + seg.len <= StreamLen /\ seg.pos + seg.len <= np + fp
        /\ seg.fin => seg.pos + seg.len = StreamLen
    BY DEF Allowed, np, fp
  <2>2. seg.pos \in Int /\ seg.len \in Int
    <3>1. seg.pos \in 0 .. StreamLen /\ (seg.len = 0 \/ seg.len \in SegSizes)
      BY Zenon DEF Segment
    <3>2. 0 \in Int /\ (\A m \in SegSizes : m \in Int) /\ (\A m \in 0 .. StreamLen : m \in Int)
      OBVIOUS
    <3> QED
      BY <3>1, <3>2, Zenon
  <2>3. seg.pos + seg.len <= n + f
    BY <1>3, <2>1, <2>2
  <2> QED
    BY <2>1, <2>3, Zenon
<1>7. PeerInv'
  BY <1>5, <1>6, Zenon DEF PeerInv, Allowed, n, f
<1> QED
  BY <1>3, <1>5, <1>7

\* A step that leaves the flow, its buffer and the application's counts alone.
LEMMA QuietStep ==
  ASSUME FitsAndHonest, ReceiveInv,
         UNCHANGED <<rx_next_seq, rx_ooo_start, rx_ooo_len, rx_fin, rx_offset, tx_offset, buffer,
                     announced, announced_fin, accepted, consumed>>,
         rx_dupack_cnt' \in 0 .. 2, rxb_bump' \in Nat, AckSent \/ UNCHANGED peer,
         \A seg \in net' : seg \in Segment /\ Allowed(seg)
  PROVE  ReceiveInv'
<1>1. CountsInv /\ PeerInv /\ OooInv /\ BufferInv
  BY DEF ReceiveInv
<1>2. NextPos' = NextPos /\ Free' = Free /\ rq_nbytes_empty' = rq_nbytes_empty /\ OooAhead' = OooAhead
  BY DEF NextPos, Free, rq_nbytes_empty, OooAhead
<1>3. PeerInv' /\ acked' \in 0 .. StreamLen + 1 /\ edge' \in Nat
  BY <1>1, <1>2, Counts, PeerKept
<1>4. TypeOK'
  BY <1>1, <1>3 DEF CountsInv, TypeOK
<1>5. CountsInv'
  BY <1>1, <1>2, <1>4 DEF CountsInv
<1>6. OooInv' /\ BufferInv'
  BY <1>1, <1>2 DEF OooInv, BufferInv
<1> QED
  BY <1>3, <1>5, <1>6 DEF ReceiveInv

\* The peer sends within the window, and a probe is part of what it has sent; the
\* network loses.
LEMMA PeerSteps ==
  ASSUME FitsAndHonest, ReceiveInv
  PROVE  /\ \A seg \in Segment : PeerSend(seg) => ReceiveInv'
         /\ PeerProbe => ReceiveInv'
         /\ \A seg \in net : Lose(seg) => ReceiveInv'
<1> USE DEF flow, peer
<1>1. /\ CountsInv /\ rx_dupack_cnt \in 0 .. 2 /\ rxb_bump \in Nat
      /\ acked \in Nat /\ edge \in Nat /\ acked <= NextPos /\ edge <= NextPos + Free
      /\ \A seg \in net : seg \in Segment /\ Allowed(seg)
  BY DEF ReceiveInv, CountsInv, TypeOK, PeerInv
<1>2. NextPos \in Nat /\ Free \in Nat
  BY <1>1, Counts
<1>3. ASSUME NEW seg \in Segment, PeerSend(seg)
      PROVE  ReceiveInv'
  <2>1. Allowed(seg)
    <3>1. seg.pos \in 0 .. StreamLen /\ (seg.len = 0 \/ seg.len \in SegSizes)
      BY Zenon DEF Segment
    <3>2. 0 \in Int /\ (\A m \in SegSizes : m \in Int) /\ (\A m \in 0 .. StreamLen : m \in Int)
      OBVIOUS
    <3>3. seg.pos \in Int /\ seg.len \in Int
      BY <3>1, <3>2, Zenon
    <3>4. /\ seg.pos + seg.len <= edge /\ seg.pos + seg.len <= StreamLen
          /\ seg.fin => seg.pos + seg.len = StreamLen
      BY <1>3 DEF PeerSend
    <3>5. seg.pos + seg.len <= NextPos + Free
      BY <1>1, <1>2, <3>3, <3>4
    <3> QED
      BY <3>4, <3>5, Zenon DEF Allowed
  <2>2. \A x \in net' : x \in Segment /\ Allowed(x)
    BY <1>1, <1>3, <2>1 DEF PeerSend
  <2> QED
    BY <1>1, <1>3, <2>2, QuietStep DEF PeerSend
<1>4. ASSUME PeerProbe
      PROVE  ReceiveInv'
  <2>1. PICK len \in SegSizes, pos \in 0 .. StreamLen :
          /\ pos + len = acked /\ acked <= StreamLen
          /\ net' = net \cup {[pos |-> pos, len |-> len, fin |-> FALSE]}
    BY <1>4 DEF PeerProbe
  <2> DEFINE seg == [pos |-> pos, len |-> len, fin |-> FALSE]
  <2>2. seg \in Segment
    BY Zenon DEF Segment
  <2>3. Allowed(seg)
    <3>1. pos + len <= StreamLen /\ pos + len <= NextPos + Free
      BY <1>1, <1>2, <2>1
    <3> QED
      BY <3>1 DEF Allowed
  <2>4. \A x \in net' : x \in Segment /\ Allowed(x)
    BY <1>1, <2>1, <2>2, <2>3, Zenon
  <2> QED
    BY <1>1, <1>4, <2>4, QuietStep DEF PeerProbe
<1>5. ASSUME NEW seg \in net, Lose(seg)
      PROVE  ReceiveInv'
  <2>1. \A x \in net' : x \in Segment /\ Allowed(x)
    BY <1>1, <1>5 DEF Lose
  <2> QED
    BY <1>1, <1>5, <2>1, QuietStep DEF Lose
<1> QED
  BY <1>3, <1>4, <1>5

\* The count of duplicate acknowledgements stays below three.
LEMMA DupackCounted ==
  ASSUME CountsInv, NEW seg, ~DuplicateAck(seg), CountAck(seg)
  PROVE  rx_dupack_cnt' \in 0 .. 2
<1>1. rx_dupack_cnt \in 0 .. 2
  BY DEF CountsInv, TypeOK
<1>2. \/ rx_dupack_cnt' = rx_dupack_cnt
      \/ rx_dupack_cnt' = rx_dupack_cnt + 1 /\ ~(rx_dupack_cnt + 1 >= 3)
  BY Zenon DEF CountAck, DuplicateAck
<1> QED
  BY <1>1, <1>2

\* Packets that only count as duplicates or are only acknowledged, and the window
\* update of fast_flows_bump.
LEMMA AckSteps ==
  ASSUME FitsAndHonest, ReceiveInv
  PROVE  /\ fast_flows_bump => ReceiveInv'
         /\ \A seg \in net : net' \subseteq net /\ (PacketDuplicateAck(seg) \/ PacketOutside(seg))
                               => ReceiveInv'
<1> USE DEF flow, peer
<1>1. /\ CountsInv /\ rx_dupack_cnt \in 0 .. 2 /\ rxb_bump \in Nat
      /\ \A seg \in net : seg \in Segment /\ Allowed(seg)
  BY DEF ReceiveInv, CountsInv, TypeOK, PeerInv
<1>2. fast_flows_bump => ReceiveInv'
  BY <1>1, QuietStep DEF fast_flows_bump
<1>3. ASSUME NEW seg \in net, net' \subseteq net, PacketDuplicateAck(seg)
      PROVE  ReceiveInv'
  BY <1>1, <1>3, QuietStep DEF PacketDuplicateAck
<1>4. ASSUME NEW seg \in net, net' \subseteq net, PacketOutside(seg)
      PROVE  ReceiveInv'
  <2>1. rx_dupack_cnt' \in 0 .. 2
    BY <1>1, <1>4, DupackCounted DEF PacketOutside
  <2> QED
    BY <1>1, <1>4, <2>1, QuietStep DEF PacketOutside
<1> QED
  BY <1>2, <1>3, <1>4

\* How far the out-of-order interval is ahead is a number.
LEMMA OooAheadNat ==
  ASSUME FitsAndHonest, CountsInv
  PROVE  OooAhead \in Nat
  BY Counts DEF OooAhead, SeqDiff, SeqNo

\* The application takes n bytes: the offset moves, the window's edge too, and every
\* slot keeps its byte.
LEMMA ReadStep ==
  ASSUME FitsAndHonest, ReceiveInv, NEW n \in ReadSizes, RxDone(n)
  PROVE  ReceiveInv'
<1> USE DEF flow, peer
<1>1. CountsInv /\ PeerInv /\ OooInv /\ BufferInv /\ n \in Nat /\ n <= announced
  BY DEF ReceiveInv, RxDone
<1>2. /\ accepted \in Nat /\ accepted <= StreamLen /\ consumed \in Nat /\ announced \in Nat
      /\ accepted = consumed + announced /\ Free \in Nat /\ Free + announced < buffer_size
      /\ NextPos \in Nat /\ NextPos <= StreamLen + 1 /\ rx_offset \in Offset /\ tx_offset \in Offset
      /\ Ahead(rx_offset, tx_offset) = announced /\ OooAhead \in Nat /\ rx_ooo_len \in Nat
  BY <1>1, Counts, OooAheadNat DEF CountsInv
<1>3. announced' = announced - n /\ consumed' = consumed + n /\ announced' \in Nat /\ consumed' \in Nat
  BY <1>1, <1>2 DEF RxDone
<1>4. rx_offset' \in Offset /\ Ahead(rx_offset', tx_offset') = announced - n
  <2>1. n <= Ahead(rx_offset, tx_offset) /\ Ahead(rx_offset, tx_offset) < buffer_size
    BY <1>1, <1>2
  <2> QED
    BY <1>1, <1>2, <2>1, AdvanceFrom DEF RxDone
<1>5. Ahead(rx_offset, rx_offset') = n
  <2>1. Ahead(rx_offset, rx_offset) = 0
    BY <1>2 DEF Offset, Ahead, rq_nbytes, Distance
  <2>2. Ahead(rx_offset, rx_offset) + n < buffer_size
    BY <1>1, <1>2, <2>1
  <2>3. Ahead(rx_offset, Advance(rx_offset, n)) = Ahead(rx_offset, rx_offset) + n
    BY <1>1, <1>2, <2>2, AdvanceTo
  <2> QED
    BY <1>1, <2>1, <2>3 DEF RxDone
<1>6. NextPos' = NextPos /\ OooAhead' = OooAhead
  BY DEF RxDone, NextPos, OooAhead
<1>7. Free' = Free + n
  BY <1>1, <1>2, <1>3 DEF Free
<1>8. rq_nbytes_empty' = Free'
  BY <1>3, <1>4, Zenon DEF rq_nbytes_empty, Free, Ahead
<1>9. PeerInv' /\ acked' \in 0 .. StreamLen + 1 /\ edge' \in Nat
  <2>1. \A seg \in net' : seg \in Segment /\ Allowed(seg)
    BY <1>1 DEF RxDone, CountsInv, TypeOK, PeerInv
  <2>2. Free' \in Nat /\ NextPos + Free <= NextPos' + Free' /\ NextPos <= NextPos'
    BY <1>1, <1>2, <1>6, <1>7
  <2>3. UNCHANGED peer
    BY DEF RxDone
  <2> QED
    BY <1>1, <1>2, <1>6, <1>8, <2>1, <2>2, <2>3, PeerKept
<1>10. CountsInv'
  <2>1. announced' \in 0 .. buffer_size /\ consumed' \in 0 .. StreamLen /\ rxb_bump' \in Nat
    BY <1>1, <1>2, <1>3 DEF RxDone, CountsInv, TypeOK
  <2>2. TypeOK'
    BY <1>1, <1>4, <1>9, <2>1 DEF RxDone, CountsInv, TypeOK
  <2>3. accepted' = consumed' + announced' /\ announced' <= buffer_size - RDMA_QUEUE_PAD
    BY <1>1, <1>2, <1>3 DEF RxDone, CountsInv
  <2>4. Ahead(rx_offset', tx_offset') = announced'
    BY <1>3, <1>4
  <2>5. rx_next_seq' = SeqOf(NextPos')
    BY <1>1, <1>6 DEF RxDone, CountsInv
  <2>6. rx_fin' => accepted' = StreamLen /\ rx_ooo_len' = 0 /\ announced_fin'
    BY <1>1 DEF RxDone, CountsInv
  <2> QED
    BY <2>2, <2>3, <2>4, <2>5, <2>6 DEF CountsInv
<1>11. OooInv'
  <2> SUFFICES ASSUME rx_ooo_len > 0
               PROVE  /\ OooAhead > 0 /\ OooAhead + rx_ooo_len <= Free'
                      /\ rx_ooo_start = SeqOf(accepted + OooAhead)
                      /\ accepted + OooAhead + rx_ooo_len <= StreamLen
    BY <1>6 DEF OooInv, RxDone
  <2>1. /\ OooAhead > 0 /\ OooAhead + rx_ooo_len <= Free
        /\ rx_ooo_start = SeqOf(accepted + OooAhead)
        /\ accepted + OooAhead + rx_ooo_len <= StreamLen
    BY <1>1 DEF OooInv
  <2>2. OooAhead + rx_ooo_len <= Free'
    BY <1>1, <1>2, <1>7, <2>1
  <2> QED
    BY <2>1, <2>2
<1>12. BufferInv'
  <2> SUFFICES ASSUME NEW s \in Slot,
                      \/ SlotIndex(rx_offset', s) < announced'
                      \/ /\ SlotIndex(rx_offset', s) >= announced' + OooAhead
                         /\ SlotIndex(rx_offset', s) < announced' + OooAhead + rx_ooo_len
               PROVE  buffer[s] = consumed' + SlotIndex(rx_offset', s)
    BY <1>6 DEF BufferInv, RxDone
  <2> DEFINE index == SlotIndex(rx_offset, s)
             later == SlotIndex(rx_offset', s)
             known == announced - n + Free
  <2>1. index \in Nat /\ later \in Nat
    BY <1>2, <1>4, IndexNat
  <2>2. rx_ooo_len > 0 => OooAhead + rx_ooo_len <= Free
    BY <1>1 DEF OooInv
  <2>3. later < known /\ known \in Nat /\ n + known < buffer_size
    <3> HIDE DEF later
    <3>1. later < announced' \/ (later >= announced' + OooAhead /\ later < announced' + OooAhead + rx_ooo_len)
      BY DEF later
    <3> QED
      BY <1>1, <1>2, <1>3, <2>1, <2>2, <3>1
  <2>4. index = n + later
    BY <1>2, <1>4, <1>5, <2>3, IndexShifts
  <2>5. index < announced \/ (index >= announced + OooAhead /\ index < announced + OooAhead + rx_ooo_len)
        => buffer[s] = consumed + index
    BY <1>1 DEF BufferInv
  <2>6. later < announced' \/ (later >= announced' + OooAhead /\ later < announced' + OooAhead + rx_ooo_len)
    OBVIOUS
  <2> HIDE DEF index, later, known
  <2>7. index < announced \/ (index >= announced + OooAhead /\ index < announced + OooAhead + rx_ooo_len)
    BY <1>1, <1>2, <1>3, <2>1, <2>4, <2>6
  <2>8. consumed + index = consumed' + later
    BY <1>1, <1>2, <1>3, <2>1, <2>4
  <2> QED
    BY <2>5, <2>7, <2>8 DEF later
<1> QED
  BY <1>9, <1>10, <1>11, <1>12 DEF ReceiveInv

\* Writing part of the stream leaves parts of the stream in the buffer.
LEMMA WrittenType ==
  ASSUME FitsAndHonest, CountsInv, NEW diff \in Nat, NEW pos \in Nat, NEW len \in Nat,
         diff <= Free, pos + len <= StreamLen
  PROVE  Written(diff, pos, len) \in [Slot -> -1 .. StreamLen]
<1>1. SlotAt(tx_offset, diff) \in Offset
  <2>1. Ahead(rx_offset, tx_offset) + diff < buffer_size
    BY Counts DEF CountsInv
  <2> QED
    BY <2>1, Counts, SlotAtAhead
<1>2. ASSUME NEW s \in Slot
      PROVE  LET k == SlotIndex(SlotAt(tx_offset, diff), s)
             IN  (IF k < len THEN pos + k ELSE buffer[s]) \in -1 .. StreamLen
  <2> DEFINE k == SlotIndex(SlotAt(tx_offset, diff), s)
  <2>1. k \in Nat
    BY <1>1, IndexNat
  <2>2. buffer[s] \in -1 .. StreamLen
    BY DEF CountsInv, TypeOK
  <2> HIDE DEF k
  <2>3. (IF k < len THEN pos + k ELSE buffer[s]) \in -1 .. StreamLen
    BY <2>1, <2>2
  <2> QED
    BY <2>3 DEF k
<1> QED
  BY <1>2 DEF Written

\* The numbers of an out-of-order step: the interval is now what was written, or
\* what was written and what was there, next to each other.
LEMMA IntervalGrows ==
  ASSUME FitsAndHonest, ReceiveInv, NEW seg \in net, PacketOutOfOrder(seg), rx_ooo_len' # rx_ooo_len
  PROVE  /\ seg.pos \in Nat /\ seg.len \in Nat /\ seg.len > 0 /\ seg.pos > accepted /\ ~rx_fin
         /\ seg.pos + seg.len <= accepted + Free /\ seg.pos + seg.len <= StreamLen
         /\ buffer' = Written(seg.pos - accepted, seg.pos, seg.len)
         /\ rx_ooo_len' = rx_ooo_len + seg.len
         /\ \/ /\ rx_ooo_start' = SeqOf(seg.pos)
               /\ rx_ooo_len = 0 \/ seg.pos + seg.len = accepted + OooAhead
            \/ /\ rx_ooo_start' = rx_ooo_start /\ rx_ooo_len > 0
               /\ seg.pos = accepted + OooAhead + rx_ooo_len
<1> DEFINE p == seg.pos
           l == seg.len
           before == SeqAdd(SeqOf(p), l) = rx_ooo_start
           after == SeqAdd(rx_ooo_start, rx_ooo_len) = SeqOf(p)
<1>1. CountsInv /\ PeerInv /\ OooInv
  BY DEF ReceiveInv
<1>2. /\ p \in Nat /\ l \in Nat /\ ~rx_fin /\ FirstPos(seg) = p /\ p > accepted /\ Payload(seg) = l
      /\ p + l <= StreamLen /\ p + l <= NextPos + Free
  BY <1>1, SegmentCut DEF PacketOutOfOrder, PeerInv, Allowed
<1>3. NextPos = accepted
  BY <1>1, <1>2, Counts
<1>4. /\ rx_ooo_start' = IF l > 0 /\ (rx_ooo_len = 0 \/ before \/ after) /\ (rx_ooo_len = 0 \/ before)
                         THEN SeqOf(p) ELSE rx_ooo_start
      /\ rx_ooo_len' = IF l > 0 /\ (rx_ooo_len = 0 \/ before \/ after)
                       THEN rx_ooo_len + l ELSE rx_ooo_len
      /\ buffer' = IF l > 0 /\ (rx_ooo_len = 0 \/ before \/ after)
                   THEN Written(SeqDiff(SeqOf(p), rx_next_seq), p, l) ELSE buffer
  BY <1>2, Zenon DEF PacketOutOfOrder
<1>5. l > 0 /\ (rx_ooo_len = 0 \/ before \/ after)
  BY <1>4, Zenon
<1>6. SeqDiff(SeqOf(p), rx_next_seq) = p - accepted
  <2>1. rx_next_seq = SeqOf(accepted)
    BY <1>1, <1>3 DEF CountsInv
  <2>2. p < SeqMod /\ accepted <= p /\ accepted \in Nat
    BY <1>1, <1>2, Counts
  <2> QED
    BY <1>2, <2>1, <2>2, SeqOfDiff
<1>7. rx_ooo_len # 0 => /\ rx_ooo_len > 0 /\ OooAhead + rx_ooo_len <= Free
                        /\ rx_ooo_start = SeqOf(accepted + OooAhead)
                        /\ accepted + OooAhead + rx_ooo_len <= StreamLen
  BY <1>1, Counts DEF OooInv
<1>8. OooAhead \in Nat /\ accepted \in Nat /\ rx_ooo_len \in Nat /\ StreamLen < SeqMod
  BY <1>1, Counts, OooAheadNat
<1>9. rx_ooo_len # 0 /\ before => p + l = accepted + OooAhead
  <2> SUFFICES ASSUME rx_ooo_len # 0, before
               PROVE  p + l = accepted + OooAhead
    OBVIOUS
  <2>1. p + l < SeqMod /\ p + l \in Nat /\ accepted + OooAhead \in Nat /\ accepted + OooAhead < SeqMod
    BY <1>2, <1>7, <1>8
  <2>2. SeqOf(p + l) = SeqOf(accepted + OooAhead)
    BY <1>2, <1>7, <2>1, SeqOfAdd
  <2> QED
    BY ONLY <2>1, <2>2, SeqOfInjective
<1>10. rx_ooo_len # 0 /\ after => p = accepted + OooAhead + rx_ooo_len
  <2> SUFFICES ASSUME rx_ooo_len # 0, after
               PROVE  p = accepted + OooAhead + rx_ooo_len
    OBVIOUS
  <2> DEFINE q == accepted + OooAhead
  <2>1. q \in Nat /\ q + rx_ooo_len < SeqMod /\ q + rx_ooo_len \in Nat /\ p < SeqMod
    BY <1>2, <1>7, <1>8
  <2> HIDE DEF q
  <2>2. SeqOf(q + rx_ooo_len) = SeqOf(p)
    BY <1>7, <1>8, <2>1, SeqOfAdd DEF q
  <2>3. q + rx_ooo_len = p
    BY ONLY <1>2, <2>1, <2>2, SeqOfInjective
  <2> QED
    BY <2>3 DEF q
<1>11. \/ /\ rx_ooo_start' = SeqOf(p)
          /\ rx_ooo_len = 0 \/ p + l = accepted + OooAhead
       \/ /\ rx_ooo_start' = rx_ooo_start /\ rx_ooo_len > 0
          /\ p = accepted + OooAhead + rx_ooo_len
  <2>1. CASE rx_ooo_len = 0 \/ before
    BY <1>4, <1>5, <1>9, <2>1, Zenon
  <2>2. CASE ~(rx_ooo_len = 0 \/ before)
    BY <1>4, <1>5, <1>7, <1>10, <2>2, Zenon
  <2> QED
    BY <2>1, <2>2
<1>12. buffer' = Written(p - accepted, p, l) /\ rx_ooo_len' = rx_ooo_len + l
  BY <1>4, <1>5, <1>6, Zenon
<1> QED
  BY <1>2, <1>3, <1>5, <1>11, <1>12

\* A packet ahead of the next byte.
LEMMA OutOfOrderStep ==
  ASSUME FitsAndHonest, ReceiveInv, NEW seg \in net, net' \subseteq net, PacketOutOfOrder(seg)
  PROVE  ReceiveInv'
<1> DEFINE p == seg.pos
           l == seg.len
           diff == p - accepted
<1>1. /\ CountsInv /\ PeerInv /\ OooInv /\ BufferInv /\ rxb_bump \in Nat
      /\ \A x \in net' : x \in Segment /\ Allowed(x)
  BY DEF ReceiveInv, CountsInv, TypeOK, PeerInv
<1>2. rx_dupack_cnt' \in 0 .. 2
  BY <1>1, DupackCounted DEF PacketOutOfOrder
<1>3. /\ UNCHANGED <<rx_next_seq, rx_fin, rx_offset, tx_offset, announced, announced_fin, rxb_bump,
                     accepted, consumed>>
      /\ AckSent
  BY DEF PacketOutOfOrder
<1>4. CASE rx_ooo_len' = rx_ooo_len
  <2>1. Payload(seg) \in Nat /\ rx_ooo_len \in Nat
    BY <1>1, SegmentCut, Counts DEF PacketOutOfOrder
  <2> DEFINE len == Payload(seg)
             seq == SeqOf(FirstPos(seg))
             taken == len > 0 /\ (\/ rx_ooo_len = 0 \/ SeqAdd(seq, len) = rx_ooo_start
                                  \/ SeqAdd(rx_ooo_start, rx_ooo_len) = seq)
  <2>2. /\ rx_ooo_len' = IF taken THEN rx_ooo_len + len ELSE rx_ooo_len
        /\ ~taken => rx_ooo_start' = rx_ooo_start /\ buffer' = buffer
    BY DEF PacketOutOfOrder
  <2>3. ~taken
    <3>1. taken => len > 0
      OBVIOUS
    <3> HIDE DEF taken, len
    <3> QED
      BY <1>4, <2>1, <2>2, <3>1 DEF len
  <2>4. UNCHANGED <<rx_next_seq, rx_ooo_start, rx_ooo_len, rx_fin, rx_offset, tx_offset, buffer,
                    announced, announced_fin, accepted, consumed>>
    BY <1>3, <1>4, <2>2, <2>3
  <2> QED
    BY <1>1, <1>2, <1>3, <2>4, QuietStep
<1>5. CASE rx_ooo_len' # rx_ooo_len
  <2>1. /\ p \in Nat /\ l \in Nat /\ l > 0 /\ p > accepted /\ ~rx_fin
        /\ p + l <= accepted + Free /\ p + l <= StreamLen
        /\ buffer' = Written(diff, p, l) /\ rx_ooo_len' = rx_ooo_len + l
        /\ \/ /\ rx_ooo_start' = SeqOf(p)
              /\ rx_ooo_len = 0 \/ p + l = accepted + OooAhead
           \/ /\ rx_ooo_start' = rx_ooo_start /\ rx_ooo_len > 0
              /\ p = accepted + OooAhead + rx_ooo_len
    BY <1>5, IntervalGrows
  <2> HIDE DEF p, l
  <2>2. /\ accepted \in Nat /\ consumed \in Nat /\ announced \in Nat /\ accepted = consumed + announced
        /\ Free \in Nat /\ Free + announced < buffer_size /\ NextPos = accepted
        /\ rx_ooo_len \in Nat /\ OooAhead \in Nat /\ StreamLen < SeqMod
        /\ rx_offset \in Offset /\ tx_offset \in Offset
    BY <1>1, <2>1, Counts, OooAheadNat
  <2>3. rx_ooo_len > 0 => /\ OooAhead > 0 /\ OooAhead + rx_ooo_len <= Free
                          /\ rx_ooo_start = SeqOf(accepted + OooAhead)
                          /\ accepted + OooAhead + rx_ooo_len <= StreamLen
    BY <1>1 DEF OooInv
  <2>4. rx_next_seq = SeqOf(accepted)
    BY <1>1, <2>2 DEF CountsInv
  <2>5. diff \in Nat /\ diff > 0 /\ diff + l <= Free /\ p = accepted + diff
    BY <2>1, <2>2
  <2>6. NextPos' = NextPos /\ Free' = Free /\ rq_nbytes_empty' = rq_nbytes_empty
    BY <1>3 DEF NextPos, Free, rq_nbytes_empty
  <2>7. PeerInv' /\ acked' \in 0 .. StreamLen + 1 /\ edge' \in Nat
    BY <1>1, <1>3, <2>6, Counts, PeerKept
  <2>8. \/ OooAhead' = diff /\ rx_ooo_start' = SeqOf(p) /\ (rx_ooo_len = 0 \/ diff + l = OooAhead)
        \/ /\ OooAhead' = OooAhead /\ rx_ooo_start' = rx_ooo_start /\ rx_ooo_len > 0
           /\ diff = OooAhead + rx_ooo_len
    <3>1. CASE rx_ooo_start' = SeqOf(p) /\ (rx_ooo_len = 0 \/ p + l = accepted + OooAhead)
      <4>1. SeqDiff(SeqOf(p), SeqOf(accepted)) = diff
        BY <2>1, <2>2, SeqOfDiff
      <4>2. OooAhead' = diff
        BY <1>3, <2>4, <3>1, <4>1 DEF OooAhead
      <4>3. rx_ooo_len = 0 \/ diff + l = OooAhead
        BY <2>1, <2>2, <3>1
      <4> QED
        BY <3>1, <4>2, <4>3
    <3>2. CASE rx_ooo_start' = rx_ooo_start /\ rx_ooo_len > 0 /\ p = accepted + OooAhead + rx_ooo_len
      <4>1. OooAhead' = OooAhead
        BY <1>3, <3>2 DEF OooAhead
      <4>2. diff = OooAhead + rx_ooo_len
        BY <2>2, <3>2
      <4> QED
        BY <3>2, <4>1, <4>2
    <3> QED
      BY <2>1, <3>1, <3>2
  <2> HIDE DEF diff
  <2>9. /\ OooAhead' > 0 /\ OooAhead' + rx_ooo_len' <= Free /\ OooAhead' \in Nat
        /\ accepted + OooAhead' + rx_ooo_len' <= StreamLen
    <3>1. accepted + diff + l <= StreamLen
      BY <2>1, <2>2, <2>5
    <3> QED
      BY <2>1, <2>2, <2>3, <2>5, <2>8, <3>1
  <2>10. rx_ooo_start' = SeqOf(accepted + OooAhead')
    BY <2>3, <2>5, <2>8
  <2>14. rx_ooo_len' \in Nat
    BY <2>1, <2>2
  <2>11. OooInv'
    BY <1>3, <2>6, <2>9, <2>10 DEF OooInv
  <2>12. CountsInv'
    <3>1. buffer' \in [Slot -> -1 .. StreamLen]
      <4>1. diff <= Free
        BY <2>1, <2>2, <2>5
      <4> QED
        BY <1>1, <2>1, <2>5, <4>1, WrittenType
    <3>2. rx_ooo_start' \in SeqNo
      <4>1. accepted + OooAhead' \in Nat /\ accepted + OooAhead' < SeqMod
        <5> DEFINE a == OooAhead'
                   b == rx_ooo_len'
        <5>1. a \in Nat /\ b \in Nat /\ accepted + a + b <= StreamLen
          BY <2>9, <2>14
        <5> HIDE DEF a, b
        <5>2. accepted + a \in Nat /\ accepted + a < SeqMod
          BY <2>2, <5>1
        <5> QED
          BY <5>2 DEF a
      <4> QED
        BY <2>10, <4>1, SeqOfWraps
    <3>3. rx_ooo_len' \in 0 .. buffer_size
      <4> DEFINE a == OooAhead'
                 b == rx_ooo_len'
      <4>1. a \in Nat /\ b \in Nat /\ a + b <= Free
        BY <2>9, <2>14
      <4> HIDE DEF a, b
      <4>2. b \in 0 .. buffer_size
        BY <2>2, <4>1
      <4> QED
        BY <4>2 DEF b
    <3>4. TypeOK'
      <4>1. net' \subseteq Segment
        BY <1>1
      <4> QED
        BY <1>1, <1>2, <1>3, <2>7, <3>1, <3>2, <3>3, <4>1 DEF CountsInv, TypeOK
    <3> QED
      BY <1>1, <1>3, <2>1, <2>6, <3>4 DEF CountsInv
  <2>13. BufferInv'
    <3> SUFFICES ASSUME NEW s \in Slot,
                        \/ SlotIndex(rx_offset, s) < announced
                        \/ /\ SlotIndex(rx_offset, s) >= announced + OooAhead'
                           /\ SlotIndex(rx_offset, s) < announced + OooAhead' + rx_ooo_len'
                 PROVE  buffer'[s] = consumed + SlotIndex(rx_offset, s)
      BY <1>3 DEF BufferInv
    <3> DEFINE index == SlotIndex(rx_offset, s)
    <3>1. index \in Nat
      BY <2>2, IndexNat
    <3>2. buffer'[s] = IF index >= announced + diff /\ index < announced + diff + l
                       THEN consumed + index ELSE buffer[s]
      <4>1. /\ diff \in Nat /\ l \in Nat /\ diff + l <= Free /\ s \in Slot /\ p = accepted + diff
            /\ buffer' = Written(diff, p, l)
        BY <2>1, <2>5
      <4>2. Written(diff, accepted + diff, l)[s] =
              IF index >= announced + diff /\ index < announced + diff + l
              THEN consumed + index ELSE buffer[s]
        BY ONLY FitsAndHonest, <1>1, <4>1, WrittenAt
      <4> QED
        BY <4>1, <4>2
    <3>3. index < announced \/ (index >= announced + OooAhead /\ index < announced + OooAhead + rx_ooo_len)
          => buffer[s] = consumed + index
      BY <1>1 DEF BufferInv
    <3>4. index < announced \/ (index >= announced + OooAhead' /\ index < announced + OooAhead' + rx_ooo_len')
      OBVIOUS
    <3> HIDE DEF index
    <3>5. \/ index >= announced + diff /\ index < announced + diff + l
          \/ index < announced
          \/ index >= announced + OooAhead /\ index < announced + OooAhead + rx_ooo_len
      BY <2>1, <2>2, <2>5, <2>8, <3>1, <3>4
    <3> QED
      BY <3>2, <3>3, <3>5 DEF index
  <2> QED
    BY <2>7, <2>11, <2>12, <2>13 DEF ReceiveInv
<1> QED
  BY <1>4, <1>5

\* The numbers of a packet in order: what it brings, what it joins, and what a FIN
\* in it means.  What goes to the application fits the buffer.
LEMMA InOrderNumbers ==
  ASSUME FitsAndHonest, ReceiveInv, NEW seg \in net, InOrder(seg)
  PROVE  LET len == Taken(seg)
             ooo == OooAfter(len)
         IN  /\ ~rx_fin /\ FirstPos(seg) = accepted /\ len \in Nat
             /\ RxBump(seg) = len + ooo.joined
             /\ ooo.joined \in Nat /\ ooo.len \in Nat /\ ooo.len <= rx_ooo_len /\ ooo.start \in SeqNo
             /\ len + ooo.joined <= Free /\ accepted + len + ooo.joined <= StreamLen
             /\ (ooo.joined > 0 => /\ ooo.len = 0 /\ rx_ooo_len > 0 /\ OooAhead <= len
                                   /\ len + ooo.joined = OooAhead + rx_ooo_len)
             /\ (ooo.len > 0 => /\ ooo.joined = 0 /\ ooo.start = rx_ooo_start
                                /\ ooo.len = rx_ooo_len /\ OooAhead > len)
             /\ (FinBump(seg) => ooo.len = 0 /\ accepted + len + ooo.joined = StreamLen)
<1> DEFINE len == Taken(seg)
           ooo == OooAfter(len)
<1>1. CountsInv /\ PeerInv /\ OooInv
  BY DEF ReceiveInv
<1>2. /\ ~rx_fin /\ FirstPos(seg) = accepted /\ seg.pos \in Nat /\ seg.len \in Nat
      /\ seg.pos <= accepted /\ seg.pos + seg.len >= accepted
      /\ Payload(seg) = seg.pos + seg.len - accepted
  BY <1>1, SegmentCut DEF InOrder
<1>3. /\ seg.pos + seg.len <= StreamLen /\ seg.pos + seg.len <= accepted + Free
      /\ (seg.fin => seg.pos + seg.len = StreamLen)
  <2>1. NextPos = accepted
    BY <1>1, <1>2, Counts
  <2> QED
    BY <1>1, <2>1 DEF PeerInv, Allowed
<1>4. len = seg.pos + seg.len - accepted
  BY <1>2 DEF Taken
<1> HIDE DEF len
<1>5. len \in Nat /\ len <= Free /\ accepted + len <= StreamLen
  BY <1>1, <1>2, <1>3, <1>4, Counts
<1>6. /\ ooo.joined \in Nat /\ ooo.len \in Nat /\ ooo.len <= rx_ooo_len /\ ooo.start \in SeqNo
      /\ len + ooo.joined <= Free /\ accepted + len + ooo.joined <= StreamLen
      /\ (ooo.joined > 0 => /\ ooo.len = 0 /\ rx_ooo_len > 0 /\ OooAhead <= len
                            /\ len + ooo.joined = OooAhead + rx_ooo_len)
      /\ (ooo.len > 0 => /\ ooo.joined = 0 /\ ooo.start = rx_ooo_start
                         /\ ooo.len = rx_ooo_len /\ OooAhead > len)
  BY <1>1, <1>2, <1>5, OooJoins
<1>7. RxBump(seg) = len + ooo.joined
  BY DEF RxBump, len
<1> HIDE DEF ooo
<1>8. FinBump(seg) => ooo.len = 0 /\ accepted + len + ooo.joined = StreamLen
  <2> SUFFICES ASSUME FinBump(seg)
               PROVE  ooo.len = 0 /\ accepted + len + ooo.joined = StreamLen
    OBVIOUS
  <2>1. /\ ooo.len = 0 /\ seg.pos + seg.len = StreamLen
        /\ SeqAdd(rx_next_seq, len + ooo.joined) = SeqOf(seg.pos + seg.len)
    BY <1>3, <1>7 DEF FinBump, ooo, len
  <2>2. rx_next_seq = SeqOf(accepted)
    BY <1>1, <1>2, Counts DEF CountsInv
  <2> DEFINE bump == len + ooo.joined
  <2>3. /\ bump \in Nat /\ accepted \in Nat /\ accepted + bump \in Nat /\ accepted + bump < SeqMod
        /\ StreamLen < SeqMod /\ StreamLen \in Nat /\ accepted + bump = accepted + len + ooo.joined
    BY <1>1, <1>5, <1>6, Counts
  <2> HIDE DEF bump
  <2>4. SeqAdd(SeqOf(accepted), bump) = SeqOf(accepted + bump)
    BY <2>3, SeqOfAdd
  <2>5. SeqOf(accepted + bump) = SeqOf(StreamLen)
    BY <2>1, <2>2, <2>4 DEF bump
  <2>6. accepted + bump = StreamLen
    BY ONLY <2>3, <2>5, SeqOfInjective
  <2> QED
    BY <2>1, <2>3, <2>6
<1> QED
  BY <1>2, <1>5, <1>6, <1>7, <1>8 DEF ooo, len

\* A packet in order, with what it makes contiguous and its FIN.
LEMMA InOrderStep ==
  ASSUME FitsAndHonest, ReceiveInv, NEW seg \in net, net' \subseteq net, PacketInOrder(seg)
  PROVE  ReceiveInv'
<1> DEFINE len == Taken(seg)
           ooo == OooAfter(len)
           joined == ooo.joined
           left == ooo.len
           bump == len + joined
           fin == FinBump(seg)
<1>1. /\ CountsInv /\ PeerInv /\ OooInv /\ BufferInv /\ rxb_bump \in Nat
      /\ \A x \in net' : x \in Segment /\ Allowed(x)
  BY DEF ReceiveInv, CountsInv, TypeOK, PeerInv
<1>2. /\ ~rx_fin /\ FirstPos(seg) = accepted /\ len \in Nat /\ RxBump(seg) = bump
      /\ joined \in Nat /\ left \in Nat /\ left <= rx_ooo_len /\ ooo.start \in SeqNo
      /\ len + joined <= Free /\ accepted + len + joined <= StreamLen
      /\ (joined > 0 => left = 0 /\ rx_ooo_len > 0 /\ OooAhead <= len /\ len + joined = OooAhead + rx_ooo_len)
      /\ (left > 0 => joined = 0 /\ ooo.start = rx_ooo_start /\ left = rx_ooo_len /\ OooAhead > len)
      /\ (fin => left = 0 /\ accepted + len + joined = StreamLen)
  BY InOrderNumbers DEF PacketInOrder
<1>3. /\ buffer' = Written(0, accepted, len)
      /\ tx_offset' = Advance(Advance(tx_offset, len), joined)
      /\ rx_next_seq' = SeqAdd(rx_next_seq, bump + (IF fin THEN 1 ELSE 0))
      /\ rx_ooo_start' = ooo.start /\ rx_ooo_len' = left
      /\ rx_fin' = (rx_fin \/ fin) /\ announced_fin' = (announced_fin \/ fin)
      /\ announced' = announced + bump /\ accepted' = accepted + bump
      /\ rx_offset' = rx_offset /\ rxb_bump' = rxb_bump /\ consumed' = consumed
      /\ AckSent \/ UNCHANGED peer
  BY <1>2, Zenon DEF PacketInOrder
<1>4. rx_dupack_cnt' \in 0 .. 2
  BY <1>1, DupackCounted DEF PacketInOrder, InOrder
<1> HIDE DEF len, ooo, joined, left, fin
<1>5. /\ accepted \in Nat /\ accepted <= StreamLen /\ consumed \in Nat /\ announced \in Nat
      /\ accepted = consumed + announced /\ Free \in Nat /\ Free + announced < buffer_size
      /\ NextPos = accepted /\ NextPos \in Nat /\ rx_ooo_len \in Nat /\ OooAhead \in Nat
      /\ rx_offset \in Offset /\ tx_offset \in Offset /\ Ahead(rx_offset, tx_offset) = announced
      /\ rx_next_seq = SeqOf(accepted) /\ StreamLen + 1 < SeqMod
  BY <1>1, <1>2, Counts, OooAheadNat DEF CountsInv
<1>17. /\ len \in Nat /\ joined \in Nat /\ left \in Nat /\ left <= rx_ooo_len
       /\ announced' = announced + (len + joined) /\ accepted' = accepted + (len + joined)
       /\ consumed' = consumed /\ rx_ooo_len' = left
  BY <1>2, <1>3
<1>6. /\ bump \in Nat /\ bump <= Free /\ accepted + bump <= StreamLen
      /\ (fin => accepted + bump = StreamLen)
  BY <1>2, <1>5
<1>7. tx_offset' \in Offset /\ Ahead(rx_offset', tx_offset') = announced'
  <2>1. Ahead(rx_offset, tx_offset) + len < buffer_size
    BY <1>2, <1>5, <1>6
  <2> DEFINE mid == Advance(tx_offset, len)
  <2>2. mid \in Offset /\ Ahead(rx_offset, mid) = announced + len
    BY <1>2, <1>5, <2>1, AdvanceTo
  <2> HIDE DEF mid
  <2>3. Ahead(rx_offset, mid) + joined < buffer_size
    BY <1>2, <1>5, <1>6, <2>2
  <2>4. Advance(mid, joined) \in Offset /\ Ahead(rx_offset, Advance(mid, joined)) = Ahead(rx_offset, mid) + joined
    BY <1>2, <1>5, <2>2, <2>3, AdvanceTo
  <2>5. Ahead(rx_offset, mid) + joined = announced'
    BY <1>5, <1>17, <2>2
  <2> QED
    BY <1>3, <2>4, <2>5 DEF mid
<1>8. /\ rx_fin' <=> fin
      /\ NextPos' = IF fin THEN accepted + bump + 1 ELSE accepted + bump
  <2>1. rx_fin' <=> fin
    BY <1>2, <1>3, Zenon
  <2>2. NextPos' = accepted + bump + (IF fin THEN 1 ELSE 0)
    BY <1>3, <2>1, Zenon DEF NextPos
  <2>3. accepted + bump + 0 = accepted + bump
    BY <1>5, <1>6
  <2> QED
    BY <2>1, <2>2, <2>3, Zenon
<1>9. Free' = Free - bump
  BY <1>3, <1>5, <1>6 DEF Free
<1>10. rq_nbytes_empty' = Free'
  BY <1>7, Zenon DEF rq_nbytes_empty, Free, Ahead
<1>11. rx_next_seq' = SeqOf(NextPos') /\ rx_next_seq' \in SeqNo
  <2> DEFINE more == IF fin THEN bump + 1 ELSE bump
  <2>1. more = bump + (IF fin THEN 1 ELSE 0) /\ more \in Nat /\ accepted + more < SeqMod
        /\ accepted + more \in Nat /\ accepted + more = IF fin THEN accepted + bump + 1 ELSE accepted + bump
    BY <1>5, <1>6
  <2> HIDE DEF more
  <2>2. SeqAdd(SeqOf(accepted), more) = SeqOf(accepted + more) /\ SeqOf(accepted + more) \in SeqNo
    BY <1>5, <2>1, SeqOfAdd, SeqOfWraps
  <2> QED
    BY <1>3, <1>5, <1>8, <2>1, <2>2
<1>12. PeerInv' /\ acked' \in 0 .. StreamLen + 1 /\ edge' \in Nat
  <2>1. NextPos' \in Nat /\ NextPos' <= StreamLen + 1 /\ NextPos <= NextPos'
    BY <1>5, <1>6, <1>8
  <2>2. Free' \in Nat
    BY <1>5, <1>6, <1>9
  <2>3. NextPos + Free <= NextPos' + Free'
    <3> DEFINE n == NextPos'
               f == Free'
    <3>1. n = (IF fin THEN accepted + bump + 1 ELSE accepted + bump) /\ f = Free - bump
      BY <1>8, <1>9
    <3> HIDE DEF n, f
    <3>2. NextPos + Free <= n + f
      BY <1>5, <1>6, <3>1
    <3> QED
      BY <3>2 DEF n, f
  <2> QED
    BY <1>1, <1>3, <1>10, <2>1, <2>2, <2>3, PeerKept
<1>13. CountsInv'
  <2>1. buffer' \in [Slot -> -1 .. StreamLen]
    <3>1. accepted + len <= StreamLen /\ 0 <= Free
      BY <1>2, <1>5
    <3> QED
      BY <1>1, <1>2, <1>3, <1>5, <3>1, WrittenType
  <2>2. /\ rx_ooo_len' \in 0 .. buffer_size /\ announced' \in 0 .. buffer_size
        /\ accepted' \in 0 .. StreamLen /\ consumed' \in 0 .. StreamLen
        /\ accepted' = consumed' + announced' /\ announced' <= buffer_size - RDMA_QUEUE_PAD
    <3>1. rx_ooo_len <= buffer_size /\ Free = buffer_size - announced - RDMA_QUEUE_PAD
      BY <1>1 DEF Free, CountsInv, TypeOK
    <3> QED
      BY <1>5, <1>6, <1>17, <3>1
  <2>3. rx_ooo_start' \in SeqNo /\ rx_offset' \in Offset /\ rxb_bump' \in Nat /\ net' \subseteq Segment
    BY <1>1, <1>2, <1>3, <1>5
  <2>4. rx_fin' \in BOOLEAN /\ announced_fin' \in BOOLEAN
    BY <1>3, Zenon
  <2>5. TypeOK'
    BY <1>4, <1>7, <1>11, <1>12, <2>1, <2>2, <2>3, <2>4, Zenon DEF TypeOK
  <2>6. rx_fin' => accepted' = StreamLen /\ rx_ooo_len' = 0 /\ announced_fin'
    BY <1>2, <1>3, <1>6, <1>8
  <2> QED
    BY <1>7, <1>11, <2>2, <2>5, <2>6, Zenon DEF CountsInv
<1>14. left > 0 => OooAhead' = OooAhead - len /\ joined = 0 /\ rx_ooo_start' = rx_ooo_start
  <2> SUFFICES ASSUME left > 0
               PROVE  OooAhead' = OooAhead - len /\ joined = 0 /\ rx_ooo_start' = rx_ooo_start
    OBVIOUS
  <2>1. ~fin /\ joined = 0 /\ rx_ooo_start' = rx_ooo_start /\ rx_ooo_len = left /\ OooAhead > len
    BY <1>2, <1>3
  <2>2. rx_ooo_start = SeqOf(accepted + OooAhead) /\ accepted + OooAhead + rx_ooo_len <= StreamLen
    BY <1>1, <2>1 DEF OooInv
  <2>3. rx_next_seq' = SeqOf(accepted + len)
    <3>1. NextPos' = accepted + bump
      BY <1>8, <2>1
    <3>2. accepted + bump = accepted + len
      BY <1>5, <1>17, <2>1
    <3> QED
      BY <1>11, <3>1, <3>2
  <2>4. SeqDiff(SeqOf(accepted + OooAhead), SeqOf(accepted + len)) = OooAhead - len
    <3> DEFINE a == accepted + OooAhead
               b == accepted + len
    <3>1. a \in Nat /\ b \in Nat /\ b <= a /\ a < SeqMod /\ a - b = OooAhead - len
      BY <1>2, <1>5, <2>1, <2>2
    <3> HIDE DEF a, b
    <3>2. SeqDiff(SeqOf(a), SeqOf(b)) = a - b
      BY <3>1, SeqOfDiff
    <3> QED
      BY <3>1, <3>2 DEF a, b
  <2> QED
    BY <2>1, <2>2, <2>3, <2>4 DEF OooAhead
<1>15. OooInv'
  <2> SUFFICES ASSUME left > 0
               PROVE  /\ OooAhead' > 0 /\ OooAhead' + left <= Free'
                      /\ rx_ooo_start' = SeqOf(accepted' + OooAhead')
                      /\ accepted' + OooAhead' + left <= StreamLen
    BY <1>3 DEF OooInv
  <2>1. /\ joined = 0 /\ rx_ooo_start' = rx_ooo_start /\ rx_ooo_len = left /\ OooAhead > len
        /\ OooAhead' = OooAhead - len
    BY <1>2, <1>14
  <2>2. /\ rx_ooo_start = SeqOf(accepted + OooAhead) /\ accepted + OooAhead + rx_ooo_len <= StreamLen
        /\ OooAhead + rx_ooo_len <= Free
    BY <1>1, <2>1 DEF OooInv
  <2>3. accepted' + OooAhead' = accepted + OooAhead
    BY <1>5, <1>17, <2>1
  <2>4. OooAhead' > 0 /\ OooAhead' + left <= Free'
    <3> DEFINE a == OooAhead'
               f == Free'
    <3>1. a = OooAhead - len /\ f = Free - bump
      BY <1>9, <2>1
    <3> HIDE DEF a, f
    <3>2. a > 0 /\ a + left <= f
      BY <1>2, <1>5, <2>1, <2>2, <3>1
    <3> QED
      BY <3>2 DEF a, f
  <2> QED
    BY <2>1, <2>2, <2>3, <2>4
<1>16. BufferInv'
  <2> DEFINE later == OooAhead'
  <2> SUFFICES ASSUME NEW s \in Slot,
                      \/ SlotIndex(rx_offset, s) < announced + bump
                      \/ /\ SlotIndex(rx_offset, s) >= announced + bump + later
                         /\ SlotIndex(rx_offset, s) < announced + bump + later + left
               PROVE  buffer'[s] = consumed + SlotIndex(rx_offset, s)
    BY <1>3 DEF BufferInv
  <2> DEFINE index == SlotIndex(rx_offset, s)
  <2>1. index \in Nat
    BY <1>5, IndexNat
  <2>2. buffer'[s] = IF index >= announced + 0 /\ index < announced + 0 + len
                     THEN consumed + index ELSE buffer[s]
    <3>1. accepted + 0 = accepted /\ 0 + len <= Free
      BY <1>2, <1>5
    <3>2. Written(0, accepted + 0, len)[s] = IF index >= announced + 0 /\ index < announced + 0 + len
                                             THEN consumed + index ELSE buffer[s]
      <4>1. 0 \in Nat /\ len \in Nat /\ CountsInv /\ FitsAndHonest /\ s \in Slot
        BY <1>1, <1>2
      <4> QED
        BY ONLY <3>1, <4>1, WrittenAt
    <3> QED
      BY <1>3, <3>1, <3>2
  <2>3. index < announced \/ (index >= announced + OooAhead /\ index < announced + OooAhead + rx_ooo_len)
        => buffer[s] = consumed + index
    BY <1>1 DEF BufferInv
  <2>4. \/ index < announced + bump
        \/ index >= announced + bump + later /\ index < announced + bump + later + left
    OBVIOUS
  <2>5. left > 0 => later = OooAhead - len
    BY <1>14
  <2>6. later \in Nat
    <3>1. SeqDiff(rx_ooo_start', rx_next_seq') \in Nat
      BY <1>13 DEF CountsInv, TypeOK, SeqDiff, SeqNo
    <3> QED
      BY <3>1 DEF OooAhead
  <2> HIDE DEF index, later
  <2>7. \/ index >= announced + 0 /\ index < announced + 0 + len
        \/ index < announced
        \/ index >= announced + OooAhead /\ index < announced + OooAhead + rx_ooo_len
    <3>1. /\ joined > 0 => OooAhead <= len /\ len + joined = OooAhead + rx_ooo_len
          /\ left > 0 => joined = 0 /\ left = rx_ooo_len
      BY <1>2
    <3>2. CASE index < announced + bump
      BY <1>5, <1>17, <2>1, <3>1, <3>2
    <3>3. CASE index >= announced + bump + later /\ index < announced + bump + later + left
      <4>1. announced \in Nat /\ OooAhead \in Nat /\ rx_ooo_len \in Nat
        BY <1>5
      <4>2. left > 0
        BY <1>17, <2>1, <2>6, <3>3, <4>1
      <4>3. joined = 0 /\ left = rx_ooo_len /\ later = OooAhead - len
        BY <2>5, <3>1, <4>2
      <4> QED
        BY <1>17, <2>1, <3>3, <4>1, <4>3
    <3> QED
      BY <2>4, <3>2, <3>3
  <2> QED
    BY <2>2, <2>3, <2>7 DEF index
<1> QED
  BY <1>12, <1>13, <1>15, <1>16 DEF ReceiveInv

\* Every step of the flow, the peer, the network and the application.
LEMMA NextReceive ==
  ASSUME FitsAndHonest, ReceiveInv, [Next]_vars
  PROVE  ReceiveInv'
<1>1. CASE UNCHANGED vars
  <2>1. \A seg \in net : seg \in Segment /\ Allowed(seg)
    BY DEF ReceiveInv, CountsInv, TypeOK, PeerInv
  <2>2. rx_dupack_cnt \in 0 .. 2 /\ rxb_bump \in Nat
    BY DEF ReceiveInv, CountsInv, TypeOK
  <2> QED
    BY <1>1, <2>1, <2>2, QuietStep DEF vars, peer
<1>2. ASSUME NEW seg \in Segment, PeerSend(seg)
      PROVE  ReceiveInv'
  BY <1>2, PeerSteps
<1>3. CASE PeerProbe
  BY <1>3, PeerSteps
<1>4. ASSUME NEW seg \in net, Deliver(seg)
      PROVE  ReceiveInv'
  <2>1. net' \subseteq net
    BY <1>4 DEF Deliver
  <2> QED
    BY <1>4, <2>1, AckSteps, OutOfOrderStep, InOrderStep DEF Deliver, fast_flows_packet
<1>5. ASSUME NEW seg \in net, Lose(seg)
      PROVE  ReceiveInv'
  BY <1>5, PeerSteps
<1>6. ASSUME NEW n \in ReadSizes, RxDone(n)
      PROVE  ReceiveInv'
  BY <1>6, ReadStep
<1>7. CASE fast_flows_bump
  BY <1>7, AckSteps
<1> QED
  BY <1>1, <1>2, <1>3, <1>4, <1>5, <1>6, <1>7 DEF Next

\* The invariant says what StreamInOrder promises.
LEMMA ReceiveImplies ==
  ASSUME FitsAndHonest, ReceiveInv
  PROVE  StreamInOrder
<1>1. CountsInv /\ PeerInv /\ OooInv /\ BufferInv
  BY DEF ReceiveInv
<1>2. /\ accepted \in Nat /\ consumed \in Nat /\ announced \in Nat /\ accepted = consumed + announced
      /\ Free \in Nat /\ Free + announced < buffer_size /\ NextPos \in Nat
      /\ rx_offset \in Offset /\ tx_offset \in Offset /\ Ahead(rx_offset, tx_offset) = announced
      /\ rx_ooo_len \in Nat /\ OooAhead \in Nat /\ rq_nbytes_empty = Free
  BY <1>1, Counts, OooAheadNat DEF CountsInv
<1>3. accepted - consumed = announced
  BY <1>2
<1>4. ASSUME NEW i \in 0 .. announced - 1
      PROVE  buffer[SlotAt(rx_offset, i)] = consumed + i
  <2> DEFINE s == SlotAt(rx_offset, i)
  <2>1. i \in Nat /\ i < announced /\ i < buffer_size
    BY <1>2
  <2>2. s \in Slot /\ SlotIndex(rx_offset, s) = i
    BY <1>2, <2>1, SlotAtIndex
  <2> HIDE DEF s
  <2>3. buffer[s] = consumed + i
    BY <1>1, <2>1, <2>2 DEF BufferInv
  <2> QED
    BY <2>3 DEF s
<1>5. OutOfOrderHeld
  <2> SUFFICES ASSUME rx_ooo_len > 0
               PROVE  /\ OooAhead > 0 /\ OooAhead + rx_ooo_len <= Free
                      /\ \A i \in 0 .. rx_ooo_len - 1 :
                           buffer[SlotAt(SlotAt(tx_offset, OooAhead), i)] = accepted + OooAhead + i
    BY <1>2 DEF OutOfOrderHeld, OooAhead
  <2>1. OooAhead > 0 /\ OooAhead + rx_ooo_len <= Free
    BY <1>1 DEF OooInv
  <2>2. ASSUME NEW i \in 0 .. rx_ooo_len - 1
        PROVE  buffer[SlotAt(SlotAt(tx_offset, OooAhead), i)] = accepted + OooAhead + i
    <3> DEFINE from == SlotAt(tx_offset, OooAhead)
               s == SlotAt(from, i)
    <3>1. i \in Nat /\ i < rx_ooo_len /\ announced + OooAhead + (i + 1) < buffer_size
          /\ announced + OooAhead < buffer_size /\ i < buffer_size /\ i + 1 \in Nat /\ i < i + 1
      BY <1>2, <2>1
    <3>2. from \in Offset /\ Ahead(rx_offset, from) = announced + OooAhead
      BY <1>2, <3>1, SlotAtAhead
    <3> HIDE DEF from
    <3>3. s \in Slot /\ SlotIndex(from, s) = i
      BY <3>1, <3>2, SlotAtIndex
    <3> HIDE DEF s
    <3>4. SlotIndex(rx_offset, s) = announced + OooAhead + i
      <4> DEFINE n == i + 1
      <4>1. n \in Nat /\ Ahead(rx_offset, from) + n < buffer_size /\ SlotIndex(from, s) < n
        BY <3>1, <3>2, <3>3
      <4> HIDE DEF n
      <4>2. SlotIndex(rx_offset, s) = Ahead(rx_offset, from) + SlotIndex(from, s)
        BY ONLY <1>2, <3>2, <3>3, <4>1, IndexShifts, Zenon
      <4> QED
        BY <3>2, <3>3, <4>2
    <3> DEFINE index == SlotIndex(rx_offset, s)
    <3>5. index >= announced + OooAhead /\ index < announced + OooAhead + rx_ooo_len
          => buffer[s] = consumed + index
      BY <1>1, <3>3 DEF BufferInv
    <3> HIDE DEF index
    <3>6. index = announced + OooAhead + i
      BY <3>4 DEF index
    <3>7. index >= announced + OooAhead /\ index < announced + OooAhead + rx_ooo_len
      BY <1>2, <3>1, <3>6
    <3>8. consumed + index = accepted + OooAhead + i
      BY <1>2, <3>1, <3>6
    <3> QED
      BY <3>5, <3>7, <3>8 DEF s, from
  <2> QED
    BY <2>1, <2>2
<1>6. WindowKept
  BY <1>1, <1>2 DEF WindowKept, PeerInv
<1>7. NeverAborts
  <2> SUFFICES ASSUME NEW seg \in net, InOrder(seg)
               PROVE  RxBump(seg) <= Free
    BY <1>2 DEF NeverAborts
  <2> QED
    BY InOrderNumbers
<1>8. /\ TypeOK /\ rx_next_seq = SeqOf(NextPos)
      /\ rx_fin => accepted = StreamLen /\ rx_ooo_len = 0 /\ announced_fin
      /\ rq_nbytes(rx_offset, tx_offset, TRUE) = announced
  BY <1>1, Zenon DEF CountsInv, Ahead
<1> QED
  BY <1>3, <1>4, <1>5, <1>6, <1>7, <1>8, Zenon DEF StreamInOrder

\* fast_flows_packet hands the application the peer's stream, in order and without
\* gaps, whatever the network loses, repeats and reorders: the acknowledgement
\* number stands right behind the bytes announced, the out-of-order interval is kept
\* in its place, the window is not taken back, no assertion fails, and the end of
\* the stream comes after every byte.
THEOREM StreamDelivered ==
  ASSUME FitsAndHonest
  PROVE  Spec => []StreamInOrder
<1>1. Init => ReceiveInv
  BY InitReceive
<1>2. ReceiveInv /\ [Next]_vars => ReceiveInv'
  BY NextReceive
<1>3. ReceiveInv => StreamInOrder
  BY ReceiveImplies
<1> QED
  BY <1>1, <1>2, <1>3, PTL DEF Spec
===============================================================================
