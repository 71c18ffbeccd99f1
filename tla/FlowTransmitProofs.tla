------------------------- MODULE FlowTransmitProofs -------------------------
(***************************************************************************)
(* The transmit half of a flow. For every segment size, buffer, stream,    *)
(* loss, reordering of acknowledgements, retransmission and close, the     *)
(* buffer never releases a byte that the peer has not received             *)
(* (OnlyReceivedReleased). For an application that stops and waits, every  *)
(* segment is allowed (StopAndWaitAllowed) and the peer gets the stream in *)
(* order (StopAndWaitDelivers).                                            *)
(*                                                                         *)
(* The first argument: flow_reset_retransmit moves the sequence number of  *)
(* the oldest byte in flight away from the buffer, but only forwards, so   *)
(* an acknowledgement counted from it (tcp_valid_rxack) takes at most as   *)
(* much out of the buffer as one counted from the buffer would. The second:*)
(* at most one segment or its acknowledgement is underway (OneUnderway).    *)
(***************************************************************************)
EXTENDS FlowTransmit, TLAPS

Received == Len(got) + (IF got_fin THEN 1 ELSE 0)
Symbol == -2 .. StreamLen
Segment == [seq : Nat, fin : BOOLEAN, bytes : Seq(Symbol)]
Acknowledgement == [ack : Nat, wnd : Nat]

\* What is in the network, and the window the peer announces.
NetworkOK ==
  /\ segs \in Seq(Segment) /\ acks \in Seq(Acknowledgement)
  /\ taken <= Len(got) /\ Len(got) - taken <= PeerBuf

\* No acknowledgement is ahead of the peer, and the sequence numbers in flight
\* start no earlier than the buffer.
SentBehind ==
  /\ dequeued <= Received
  /\ dequeued <= tx_next_seq - tx_sent
  /\ \A i \in 1 .. Len(acks) : acks[i].ack <= Received

TransmitInv == TypeOK /\ NetworkOK /\ SentBehind

\* The cases that the stop-and-wait run enumerates, for every size of message, buffer
\* and stream: the application waits until a message is acknowledged, the peer reads
\* at once, nothing is lost, and a message or the peer's window fits into a segment.
StopAndWait ==
  /\ AppWaits = TRUE /\ PeerKeepsUp = TRUE /\ Closes = FALSE /\ Lossy = FALSE
  /\ OwnRxBuf <= PeerBuf
  /\ \A n \in Messages : Minimum(n, PeerBuf) <= TCP_MSS

\* Nothing is underway: the credit does not go beyond what may be sent, and none
\* is given before the fast path has seen the bump for what is in the buffer.
Idle ==
  /\ segs = <<>> /\ acks = <<>> /\ tx_sent = 0 /\ Len(got) = dequeued
  /\ credit <= Minimum(rq_nbytes_enqueued, PeerBuf)
  /\ \/ atx = <<>>
     \/ credit = 0 /\ atx = <<[tx_bump |-> rq_nbytes_enqueued, fin |-> FALSE]>>

\* One segment is underway and took all of the credit with it.
InFlight ==
  /\ atx = <<>> /\ credit = 0
  /\ tx_sent > 0 /\ tx_sent <= rq_nbytes_enqueued /\ tx_sent <= PeerBuf
SentBytes == [i \in 1 .. tx_sent |-> dequeued + i - 1]
SegmentOut ==
  /\ InFlight /\ acks = <<>> /\ Len(got) = dequeued
  /\ segs = <<[seq |-> dequeued, fin |-> FALSE, bytes |-> SentBytes]>>
AckOut ==
  /\ InFlight /\ segs = <<>> /\ Len(got) = tx_next_seq
  /\ acks = <<[ack |-> tx_next_seq, wnd |-> PeerBuf]>>

\* What does not depend on whether something is underway.
Steady ==
  /\ txfin = FALSE /\ closed = FALSE /\ got_fin = FALSE
  /\ flushed = written /\ taken = Len(got) /\ edge = Len(got) + PeerBuf
  /\ tx_next_seq - tx_sent = dequeued /\ rx_remote_avail <= PeerBuf
  /\ Minimum(rq_nbytes_enqueued, PeerBuf) <= TCP_MSS
InOrderGot == \A i \in 1 .. Len(got) : got[i] = i - 1

OneUnderway == Steady /\ InOrderGot /\ (Idle \/ SegmentOut \/ AckOut)
-------------------------------------------------------------------------------
(* Sequences. *)

\* What is at a position.
LEMMA SeqElement == ASSUME NEW S, NEW q \in Seq(S), NEW n \in 1 .. Len(q) PROVE q[n] \in S
OBVIOUS

\* The positions of two sequences joined.
LEMMA JoinedSeq ==
  ASSUME NEW S, NEW q \in Seq(S), NEW r \in Seq(S)
  PROVE  /\ q \o r \in Seq(S) /\ Len(q \o r) = Len(q) + Len(r)
         /\ \A n \in 1 .. Len(q) + Len(r) : (q \o r)[n] = IF n <= Len(q) THEN q[n] ELSE r[n - Len(q)]
OBVIOUS

\* An element is appended.
LEMMA AppendedSeq ==
  ASSUME NEW S, NEW q \in Seq(S), NEW x \in S
  PROVE  /\ Append(q, x) \in Seq(S) /\ Append(q, x) # << >> /\ Len(Append(q, x)) = Len(q) + 1
         /\ \A n \in 1 .. Len(q) : Append(q, x)[n] = q[n]
         /\ Append(q, x)[Len(q) + 1] = x
OBVIOUS

\* The first element is taken.
LEMMA RestOfSeq ==
  ASSUME NEW S, NEW q \in Seq(S), q # << >>
  PROVE  /\ Head(q) \in S /\ Tail(q) \in Seq(S) /\ Len(Tail(q)) = Len(q) - 1
         /\ \A n \in 1 .. Len(Tail(q)) : Tail(q)[n] = q[n + 1]
OBVIOUS

\* The positions from a to b.
LEMMA PartOfSeq ==
  ASSUME NEW S, NEW q, NEW a \in Int, NEW b \in Int, \A n \in a .. b : q[n] \in S
  PROVE  /\ SubSeq(q, a, b) \in Seq(S) /\ Len(SubSeq(q, a, b)) = IF a <= b THEN b - a + 1 ELSE 0
         /\ \A n \in 1 .. b - a + 1 : SubSeq(q, a, b)[n] = q[a + n - 1]
OBVIOUS
-------------------------------------------------------------------------------
USE TransmitAssumption

\* What tcp_txavail allows is a number, and one of bytes in the buffer.
LEMMA AvailInt ==
  ASSUME NEW b \in Int, NEW r \in Int, NEW s \in Int
  PROVE  tcp_txavail(b, r, s) \in Int /\ (b \in Nat => tcp_txavail(b, r, s) \in Nat)
BY DEF tcp_txavail, Minimum

\* qman_set never takes credit away.
LEMMA CreditNat ==
  ASSUME credit \in Nat, NEW old \in Int, NEW new \in Int, AddCredit(old, new)
  PROVE  credit' \in Nat
BY DEF AddCredit

\* Taking bytes out of the buffer leaves no more than it takes.
LEMMA StillFits ==
  ASSUME NEW f \in Int, NEW d \in Int, NEW e \in Int, NEW n \in Int, f <= d + n, d <= e, e <= f
  PROVE  f \in e .. e + n
OBVIOUS

\* Bytes b up to an acknowledgement a: counted from the buffer or from the
\* bytes in flight, they end at it.
LEMMA AckTaken ==
  ASSUME NEW d \in Nat, NEW n \in Nat, NEW s \in Nat, NEW a \in Nat, NEW b \in Nat,
         d <= n - s, b = a - (n - s)
  PROVE  /\ n - (s - b) = a /\ d + b <= a
         /\ n + b - s = a /\ d + (b - s) <= a
OBVIOUS

\* An acknowledgement that is taken out of the network leaves the others.
LEMMA RemoveKeeps ==
  ASSUME NEW S, NEW s \in Seq(S), NEW i \in 1 .. Len(s)
  PROVE  /\ RemoveIndex(s, i) \in Seq(S)
         /\ \A j \in 1 .. Len(RemoveIndex(s, i)) : \E k \in 1 .. Len(s) : RemoveIndex(s, i)[j] = s[k]
<1> DEFINE a == SubSeq(s, 1, i - 1)
           b == SubSeq(s, i + 1, Len(s))
<1>1. Len(s) \in Nat /\ \A k \in 1 .. Len(s) : s[k] \in S
  BY SeqElement
<1>2. /\ a \in Seq(S) /\ Len(a) = i - 1
      /\ \A k \in 1 .. i - 1 : a[k] = s[k]
  BY <1>1, PartOfSeq
<1>3. /\ b \in Seq(S) /\ Len(b) = Len(s) - i
      /\ \A k \in 1 .. Len(s) - i : b[k] = s[i + k]
  BY <1>1, PartOfSeq
<1>4. /\ a \o b \in Seq(S) /\ Len(a \o b) = Len(a) + Len(b)
      /\ \A k \in 1 .. Len(a) + Len(b) : (a \o b)[k] = IF k <= Len(a) THEN a[k] ELSE b[k - Len(a)]
  BY <1>2, <1>3, JoinedSeq, Zenon
<1>5. RemoveIndex(s, i) = a \o b
  BY DEF RemoveIndex
<1> HIDE DEF a, b
<1>6. ASSUME NEW j \in 1 .. Len(a \o b) PROVE \E k \in 1 .. Len(s) : (a \o b)[j] = s[k]
  <2>1. CASE j <= i - 1
    BY <1>1, <1>2, <1>3, <1>4, <2>1
  <2>2. CASE j > i - 1
    <3>1. j + 1 \in 1 .. Len(s) /\ (a \o b)[j] = s[j + 1]
      BY <1>1, <1>2, <1>3, <1>4, <2>2
    <3> QED
      BY <3>1
  <2> QED
    BY <1>1, <1>2, <1>3, <1>4, <2>1, <2>2
<1> QED
  BY <1>4, <1>5, <1>6

\* Nothing is in the buffer or in the network at the start.
LEMMA InitTransmitInv == Init => TransmitInv
<1> SUFFICES ASSUME Init PROVE TransmitInv
  OBVIOUS
<1>1. Len(got) = 0 /\ Len(acks) = 0 /\ got \in Seq(Symbol)
      /\ segs \in Seq(Segment) /\ acks \in Seq(Acknowledgement)
      /\ atx \in Seq([tx_bump : Nat, fin : BOOLEAN])
  BY DEF Init
<1>2. TypeOK
  <2>1. /\ tx_next_seq \in Nat /\ tx_sent \in Nat /\ rx_remote_avail \in Nat
        /\ rx_dupack_cnt \in 0 .. 2 /\ dequeued \in Nat /\ flushed \in dequeued .. dequeued + TxBufSize
        /\ written \in 0 .. StreamLen /\ credit \in Nat /\ taken \in Nat
    BY DEF Init
  <2>2. txfin \in BOOLEAN /\ closed \in BOOLEAN /\ got_fin \in BOOLEAN /\ failed \in BOOLEAN
    BY Zenon DEF Init
  <2> QED
    BY <1>1, <2>1, <2>2 DEF TypeOK, Symbol
<1>3. NetworkOK /\ SentBehind
  BY <1>1 DEF Init, NetworkOK, SentBehind, Received
<1> QED
  BY <1>2, <1>3 DEF TransmitInv

\* The application adds to the buffer what fits, and tells the fast path.
LEMMA AppStep ==
  ASSUME TransmitInv, (\E n \in Messages : AppSend(n)) \/ AppClose
  PROVE  TransmitInv'
<1> USE DEF TransmitInv, TypeOK, NetworkOK, SentBehind, Received, rq_nbytes_enqueued, flow, peer
<1>1. ASSUME NEW n \in Messages, AppSend(n) PROVE TransmitInv'
  <2>1. atx' \in Seq([tx_bump : Nat, fin : BOOLEAN])
    BY <1>1, AppendedSeq DEF AppSend
  <2> QED
    BY <1>1, <2>1 DEF AppSend
<1>2. CASE AppClose
  <2>1. atx' \in Seq([tx_bump : Nat, fin : BOOLEAN])
    BY <1>2, AppendedSeq DEF AppClose
  <2> QED
    BY <1>2, <2>1 DEF AppClose
<1> QED
  BY <1>1, <1>2

\* fast_flows_bump only adds credit.
LEMMA BumpStep == ASSUME TransmitInv, fast_flows_bump PROVE TransmitInv'
<1> DEFINE bump == Head(atx)
           tx_bump == IF txfin THEN 0 ELSE bump.tx_bump
           before == rq_nbytes_enqueued - tx_bump
           old == IF before >= 0 THEN tcp_txavail(before, rx_remote_avail, tx_sent)
                  ELSE tcp_txavail(TxBufSize, rx_remote_avail, tx_sent)
<1>1. /\ bump \in [tx_bump : Nat, fin : BOOLEAN]
      /\ atx' \in Seq([tx_bump : Nat, fin : BOOLEAN])
  BY RestOfSeq, Zenon DEF fast_flows_bump, TransmitInv, TypeOK
<1>2. before \in Int /\ rq_nbytes_enqueued \in Nat
  BY <1>1 DEF TransmitInv, TypeOK, rq_nbytes_enqueued
<1> HIDE DEF before
<1>3. old \in Int /\ TxAvail \in Int
  <2>1. rx_remote_avail \in Int /\ tx_sent \in Int /\ TxBufSize \in Int
    BY DEF TransmitInv, TypeOK
  <2> QED
    BY <1>2, <2>1, AvailInt DEF TxAvail
<1>4. AddCredit(old, TxAvail) /\ txfin' = (txfin \/ bump.fin)
  BY DEF fast_flows_bump, before
<1> HIDE DEF old
<1>5. credit' \in Nat
  BY <1>3, <1>4, CreditNat DEF TransmitInv, TypeOK
<1>6. txfin' \in BOOLEAN
  BY <1>4
<1> QED
  BY <1>1, <1>5, <1>6 DEF fast_flows_bump, TransmitInv, TypeOK, NetworkOK, SentBehind, Received, peer

\* A segment takes the bytes after those in flight.
LEMMA QmanStep == ASSUME TransmitInv, fast_flows_qman PROVE TransmitInv'
<1> USE DEF TransmitInv
<1>1. credit' \in Nat
  BY DEF fast_flows_qman, TypeOK, Minimum
<1>2. CASE TxAvail = 0
  BY <1>1, <1>2 DEF fast_flows_qman, TypeOK, NetworkOK, SentBehind, Received, app, peer
<1>3. CASE TxAvail # 0
  <2> DEFINE len == Minimum(TxAvail, TCP_MSS)
             payload == IF txfin THEN len - 1 ELSE len
             seg == [seq |-> tx_next_seq, fin |-> txfin,
                     bytes |-> [i \in 1 .. payload |-> ByteAt(dequeued + tx_sent + i - 1)]]
  <2>1. /\ segs' = Append(segs, seg) /\ tx_next_seq' = tx_next_seq + len /\ tx_sent' = tx_sent + len
    BY <1>3 DEF fast_flows_qman
  <2>2. TxAvail \in Nat
    <3>1. rx_remote_avail \in Int /\ tx_sent \in Int /\ rq_nbytes_enqueued \in Nat
      BY DEF TypeOK, rq_nbytes_enqueued
    <3> QED
      BY <3>1, AvailInt DEF TxAvail
  <2>3. len \in Nat \ {0}
    BY <1>3, <2>2 DEF Minimum
  <2>4. payload \in Nat
    BY <2>3
  <2>5. \A i \in 1 .. payload : ByteAt(dequeued + tx_sent + i - 1) \in Symbol
    BY <2>4 DEF ByteAt, Stale, Dummy, Symbol, TypeOK
  <2> HIDE DEF payload
  <2>6. [i \in 1 .. payload |-> ByteAt(dequeued + tx_sent + i - 1)] \in Seq(Symbol)
    BY <2>4, <2>5
  <2>7. seg \in Segment
    BY <2>6 DEF Segment, TypeOK
  <2> HIDE DEF seg, len
  <2>8. segs' \in Seq(Segment)
    BY <2>1, <2>7, AppendedSeq DEF NetworkOK
  <2> QED
    BY <1>1, <2>1, <2>3, <2>8 DEF fast_flows_qman, TypeOK, NetworkOK, SentBehind, Received, app, peer
<1> QED
  BY <1>2, <1>3

\* flow_reset_retransmit forgets what was sent but not its sequence numbers.
LEMMA ResetStep ==
  ASSUME TransmitInv, ResetRetransmit(rx_remote_avail, tx_sent),
         UNCHANGED <<tx_next_seq, txfin, flushed, dequeued, app, peer, failed>>,
         AddCredit(TxAvail, TxAvail')
  PROVE  TypeOK' /\ dequeued' <= Received' /\ dequeued' <= tx_next_seq' - tx_sent'
<1> USE DEF TransmitInv
<1>1. rx_remote_avail' \in Nat /\ tx_sent' = 0 /\ rx_dupack_cnt' = 0
  BY DEF ResetRetransmit, TypeOK
<1>2. TxAvail \in Int /\ TxAvail' \in Int
  BY <1>1, AvailInt DEF TypeOK, TxAvail, rq_nbytes_enqueued
<1>3. credit' \in Nat
  BY <1>2, CreditNat DEF TypeOK
<1> QED
  BY <1>1, <1>3 DEF TypeOK, SentBehind, Received, app, peer

\* The slow path asks for a retransmission: sequence numbers are not taken back.
LEMMA RetransmitStep == ASSUME TransmitInv, fast_flows_retransmit PROVE TransmitInv'
<1>1. TypeOK' /\ dequeued' <= Received' /\ dequeued' <= tx_next_seq' - tx_sent'
  BY ResetStep DEF fast_flows_retransmit
<1> QED
  BY <1>1 DEF fast_flows_retransmit, TransmitInv, NetworkOK, SentBehind, Received, peer

\* An acknowledgement takes out of the buffer at most what the peer has received.
LEMMA PacketStep ==
  ASSUME TransmitInv, NEW i \in 1 .. Len(acks), fast_flows_packet(i)
  PROVE  TransmitInv'
<1> DEFINE packet == acks[i]
<1> USE DEF TransmitInv
<1>1. packet \in Acknowledgement /\ packet.ack \in Nat /\ packet.wnd \in Nat /\ packet.ack <= Received
  <2>1. acks \in Seq(Acknowledgement) /\ packet.ack <= Received
    BY DEF NetworkOK, SentBehind
  <2>2. packet \in Acknowledgement
    BY <2>1, SeqElement
  <2> QED
    BY <2>1, <2>2 DEF Acknowledgement
<1>2. UNCHANGED <<segs, peer>>
  BY DEF fast_flows_packet, PacketAborts, PacketDuplicateAck, PacketAck
<1>3. NetworkOK' /\ \A j \in 1 .. Len(acks') : acks'[j].ack <= Received'
  <2>1. acks' = RemoveIndex(acks, i)
    BY DEF fast_flows_packet
  <2>2. /\ acks' \in Seq(Acknowledgement)
        /\ \A j \in 1 .. Len(acks') : \E k \in 1 .. Len(acks) : acks'[j] = acks[k]
    <3>1. acks \in Seq(Acknowledgement)
      BY DEF NetworkOK
    <3>2. /\ RemoveIndex(acks, i) \in Seq(Acknowledgement)
          /\ \A j \in 1 .. Len(RemoveIndex(acks, i)) : \E k \in 1 .. Len(acks) : RemoveIndex(acks, i)[j] = acks[k]
      BY ONLY <3>1, i \in 1 .. Len(acks), RemoveKeeps
    <3> QED
      BY ONLY <2>1, <3>2, Zenon
  <2> QED
    BY <1>2, <2>2 DEF NetworkOK, SentBehind, Received, peer
<1>4. SUFFICES TypeOK' /\ dequeued' <= Received' /\ dequeued' <= tx_next_seq' - tx_sent'
  BY <1>3 DEF SentBehind
<1>5. CASE PacketAborts(packet)
  BY <1>5 DEF PacketAborts, TypeOK, SentBehind, Received, flow, app, peer
<1>6. CASE PacketDuplicateAck(packet)
  BY <1>6, ResetStep DEF PacketDuplicateAck
<1>7. CASE PacketAck(packet)
  <2> DEFINE bump == TxBump(packet.ack)
             valid == ValidAck(packet.ack)
             future == valid /\ bump > tx_sent
  <2>1. /\ valid => Dequeues(packet.ack) <= rq_nbytes_enqueued
        /\ dequeued' = IF valid THEN dequeued + Dequeues(packet.ack) ELSE dequeued
        /\ tx_next_seq' = IF future THEN tx_next_seq + bump - tx_sent ELSE tx_next_seq
        /\ tx_sent' = IF future THEN 0 ELSE IF valid THEN tx_sent - bump ELSE tx_sent
        /\ rx_dupack_cnt' = IF ~valid THEN rx_dupack_cnt ELSE IF bump # 0 THEN 0 ELSE rx_dupack_cnt + 1
        /\ rx_remote_avail' = packet.wnd
        /\ UNCHANGED <<txfin, flushed, app, peer, failed>>
        /\ AddCredit(TxAvail, TxAvail')
        /\ ~DuplicateAck(packet)
    BY ONLY <1>7, Zenon DEF PacketAck
  <2>2. bump \in Int /\ bump = packet.ack - (tx_next_seq - tx_sent) /\ (valid => bump >= 0)
    <3>1. packet.ack \in Nat /\ tx_next_seq \in Nat /\ tx_sent \in Nat
      BY <1>1, Zenon DEF TypeOK
    <3> HIDE DEF packet
    <3> QED
      BY ONLY <3>1 DEF TxBump, ValidAck
  <2>3. /\ dequeued' \in Nat /\ flushed' \in dequeued' .. dequeued' + TxBufSize
        /\ tx_next_seq' \in Nat /\ tx_sent' \in Nat
        /\ dequeued' <= Received /\ dequeued' <= tx_next_seq' - tx_sent'
    <3>0. /\ dequeued \in Nat /\ flushed \in Nat /\ flushed <= dequeued + TxBufSize
          /\ dequeued <= flushed /\ tx_next_seq \in Nat /\ tx_sent \in Nat
          /\ dequeued <= Received /\ dequeued <= tx_next_seq - tx_sent
          /\ flushed' = flushed /\ Received \in Nat
      <4>1. flushed' = flushed
        BY ONLY <2>1, Zenon
      <4>2. dequeued <= Received /\ dequeued <= tx_next_seq - tx_sent
        BY Zenon DEF SentBehind
      <4>3. Len(got) \in Nat
        BY DEF TypeOK
      <4>4. Received \in Nat
        BY ONLY <4>3 DEF Received
      <4>5. /\ dequeued \in Nat /\ flushed \in dequeued .. dequeued + TxBufSize
            /\ tx_next_seq \in Nat /\ tx_sent \in Nat
        BY Zenon DEF TypeOK
      <4>6. flushed \in Nat /\ flushed <= dequeued + TxBufSize /\ dequeued <= flushed
        BY ONLY <4>5, TransmitAssumption
      <4> QED
        BY ONLY <4>1, <4>2, <4>4, <4>5, <4>6
    <3>1. CASE valid
      <4>1. /\ dequeued' = dequeued + Dequeues(packet.ack) /\ Dequeues(packet.ack) <= flushed - dequeued
            /\ Dequeues(packet.ack) = IF bump <= tx_sent THEN bump ELSE bump - tx_sent
        BY <2>1, <3>1 DEF Dequeues, rq_nbytes_enqueued
      <4>2. /\ tx_next_seq' = IF bump > tx_sent THEN tx_next_seq + bump - tx_sent ELSE tx_next_seq
            /\ tx_sent' = IF bump > tx_sent THEN 0 ELSE tx_sent - bump
        BY <2>1, <3>1
      <4>3. packet.ack \in Nat /\ packet.ack <= Received /\ bump \in Nat
        BY <1>1, <2>2, <3>1
      <4>4. Dequeues(packet.ack) \in Nat
        BY <3>0, <4>1, <4>3
      <4> HIDE DEF bump, packet
      <4>5. dequeued' <= Received /\ dequeued' <= tx_next_seq' - tx_sent'
        <5>1. dequeued <= Received /\ Received \in Nat
          BY <3>0
        <5>2. dequeued <= tx_next_seq - tx_sent /\ tx_next_seq \in Nat /\ tx_sent \in Nat /\ dequeued \in Nat
          BY <3>0
        <5>3. bump = packet.ack - (tx_next_seq - tx_sent)
          BY <2>2
        <5>4. CASE bump <= tx_sent
          <6>1. dequeued' = dequeued + bump /\ tx_next_seq' = tx_next_seq /\ tx_sent' = tx_sent - bump
            <7>1. ~(bump > tx_sent)
              BY ONLY <4>3, <5>2, <5>4
            <7> QED
              BY ONLY <4>1, <4>2, <5>4, <7>1
          <6>2. tx_next_seq - (tx_sent - bump) = packet.ack /\ dequeued + bump <= packet.ack
            BY ONLY <4>3, <5>2, <5>3, AckTaken
          <6> QED
            BY ONLY <4>3, <5>1, <5>2, <6>1, <6>2
        <5>5. CASE bump > tx_sent
          <6>1. dequeued' = dequeued + (bump - tx_sent) /\ tx_next_seq' = tx_next_seq + bump - tx_sent /\ tx_sent' = 0
            <7>1. ~(bump <= tx_sent)
              BY ONLY <4>3, <5>2, <5>5
            <7> QED
              BY ONLY <4>1, <4>2, <5>5, <7>1
          <6>2. tx_next_seq + bump - tx_sent = packet.ack /\ dequeued + (bump - tx_sent) <= packet.ack
            BY ONLY <4>3, <5>2, <5>3, AckTaken
          <6> QED
            BY ONLY <4>3, <5>1, <5>2, <6>1, <6>2
        <5> QED
          BY <4>3, <5>2, <5>4, <5>5
      <4>6. dequeued' \in Nat /\ dequeued <= dequeued' /\ dequeued' <= flushed
        BY ONLY <3>0, <4>1, <4>4
      <4>7. tx_next_seq' \in Nat /\ tx_sent' \in Nat
        BY ONLY <3>0, <4>2, <4>3
      <4>8. flushed' \in dequeued' .. dequeued' + TxBufSize
        <5>1. TxBufSize \in Int /\ flushed \in Int /\ dequeued \in Int /\ dequeued' \in Int
          BY <3>0, <4>6
        <5>2. flushed \in dequeued' .. dequeued' + TxBufSize
          BY <3>0, <4>6, <5>1, StillFits, Zenon
        <5> QED
          BY <3>0, <5>2
      <4> QED
        BY <4>5, <4>6, <4>7, <4>8, Zenon
    <3>2. CASE ~valid
      BY <2>1, <3>0, <3>2
    <3> QED
      BY <3>1, <3>2
  <2>4. rx_dupack_cnt' \in 0 .. 2
    BY <2>1 DEF DuplicateAck, TypeOK
  <2>5. TxAvail \in Int /\ TxAvail' \in Int
    <3>1. /\ rx_remote_avail \in Int /\ tx_sent \in Int /\ rq_nbytes_enqueued \in Int
          /\ rx_remote_avail' \in Int /\ tx_sent' \in Int /\ rq_nbytes_enqueued' \in Int
      <4>1. rx_remote_avail \in Nat /\ tx_sent \in Nat /\ dequeued \in Nat /\ flushed \in Int
        BY DEF TypeOK
      <4>2. rx_remote_avail' \in Nat /\ tx_sent' \in Nat /\ dequeued' \in Nat /\ flushed' = flushed
        BY <1>1, <2>1, <2>3
      <4> QED
        BY <4>1, <4>2 DEF rq_nbytes_enqueued
    <3> QED
      BY <3>1, AvailInt DEF TxAvail
  <2>6. credit' \in Nat
    BY <2>1, <2>5, CreditNat DEF TypeOK
  <2> QED
    BY <1>1, <2>1, <2>3, <2>4, <2>6 DEF TypeOK, Received, app, peer
<1> QED
  BY <1>5, <1>6, <1>7 DEF fast_flows_packet

\* The peer receives in order and acknowledges what it has.
LEMMA PeerStep == ASSUME TransmitInv, PeerReceive \/ PeerTake PROVE TransmitInv'
<1> USE DEF TransmitInv
<1>1. /\ segs' \in Seq(Segment)
      /\ got' \in Seq(Symbol) /\ got_fin' \in BOOLEAN /\ taken' \in Nat
      /\ taken' <= Len(got') /\ Len(got') - taken' <= PeerBuf
      /\ Received <= Received'
  <2>0. got \in Seq(Symbol) /\ Len(got) \in Nat /\ taken \in Nat
    BY DEF TypeOK, Symbol
  <2>1. CASE PeerTake
    BY <2>0, <2>1 DEF PeerTake, TypeOK, NetworkOK, Received
  <2>2. CASE PeerReceive
    <3> DEFINE seg == Head(segs)
               inorder == seg.seq = Len(got) /\ ~got_fin /\ Len(got) + Len(seg.bytes) - taken <= PeerBuf
    <3>1. seg \in Segment /\ segs' \in Seq(Segment)
      BY <2>2, RestOfSeq DEF PeerReceive, NetworkOK
    <3>2. /\ got' = IF inorder THEN got \o seg.bytes ELSE got
          /\ got_fin' = (got_fin \/ (inorder /\ seg.fin))
          /\ taken' = IF PeerKeepsUp THEN Len(got') ELSE taken
      BY <2>2 DEF PeerReceive
    <3>3. seg.bytes \in Seq(Symbol) /\ Len(seg.bytes) \in Nat
      BY <3>1 DEF Segment
    <3>4. /\ got \o seg.bytes \in Seq(Symbol)
          /\ Len(got \o seg.bytes) = Len(got) + Len(seg.bytes)
      BY <2>0, <3>3, JoinedSeq
    <3>5. CASE inorder
      <4>1. got' = got \o seg.bytes
        BY <3>2, <3>5
      <4>2. ~got_fin /\ Len(got) + Len(seg.bytes) - taken <= PeerBuf
        BY <3>5
      <4> HIDE DEF inorder, seg
      <4> QED
        <5>1. got_fin' \in BOOLEAN /\ got' \in Seq(Symbol) /\ segs' \in Seq(Segment)
          BY <3>1, <3>2, <3>4, <4>1
        <5>2. /\ Len(got') \in Nat /\ taken' \in Nat /\ taken' <= Len(got')
              /\ Len(got') - taken' <= PeerBuf /\ Len(got) <= Len(got')
          BY <2>0, <3>2, <3>3, <3>4, <4>1, <4>2 DEF NetworkOK
        <5> QED
          BY <2>0, <4>2, <5>1, <5>2 DEF Received
    <3>6. CASE ~inorder
      <4>1. got' = got /\ (got_fin' <=> got_fin)
        BY <3>2, <3>6, Zenon
      <4> HIDE DEF inorder, seg
      <4> QED
        <5>1. got_fin' \in BOOLEAN /\ got' \in Seq(Symbol) /\ segs' \in Seq(Segment)
          BY <2>0, <3>1, <3>2, <4>1, Zenon
        <5>2. taken' \in Nat /\ taken' <= Len(got') /\ Len(got') - taken' <= PeerBuf
          BY <2>0, <3>2, <4>1 DEF NetworkOK
        <5> QED
          BY <2>0, <4>1, <5>1, <5>2 DEF Received
    <3> QED
      BY <3>5, <3>6
  <2> QED
    BY <2>1, <2>2
<1>2. PeerAck /\ UNCHANGED <<flow, flushed, dequeued, app, credit, failed>>
  BY DEF PeerReceive, PeerTake
<1>3. TypeOK'
  BY <1>1, <1>2 DEF TypeOK, flow, app, Symbol
<1>4. /\ acks' \in Seq(Acknowledgement)
      /\ \A j \in 1 .. Len(acks') : acks'[j].ack <= Received'
  <2> DEFINE a == [ack |-> Received', wnd |-> PeerBuf - (Len(got') - taken')]
  <2>1. Received \in Nat /\ Received' \in Nat
    BY <1>1 DEF TypeOK, Received, Symbol
  <2>2. a \in Acknowledgement /\ a.ack = Received'
    BY <1>1, <2>1 DEF Acknowledgement
  <2>3. acks' = Append(acks, a)
    BY <1>2 DEF PeerAck, Received
  <2> HIDE DEF a
  <2>4. /\ acks' \in Seq(Acknowledgement) /\ Len(acks') = Len(acks) + 1
        /\ \A j \in 1 .. Len(acks) : acks'[j] = acks[j]
        /\ acks'[Len(acks) + 1] = a
    BY <2>2, <2>3, AppendedSeq DEF NetworkOK
  <2>5. ASSUME NEW j \in 1 .. Len(acks) PROVE acks[j].ack \in Nat /\ acks[j].ack <= Received
    <3>1. acks \in Seq(Acknowledgement) /\ acks[j].ack <= Received
      BY DEF NetworkOK, SentBehind
    <3>2. acks[j] \in Acknowledgement
      BY <3>1, SeqElement
    <3> QED
      BY <3>1, <3>2 DEF Acknowledgement
  <2>6. Len(acks) \in Nat
    BY DEF NetworkOK
  <2> QED
    BY <1>1, <2>1, <2>2, <2>4, <2>5, <2>6
<1>5. dequeued' <= Received' /\ dequeued' <= tx_next_seq' - tx_sent'
  BY <1>1, <1>2 DEF TypeOK, SentBehind, Received, Symbol, flow
<1> QED
  BY <1>1, <1>3, <1>4, <1>5 DEF NetworkOK, SentBehind

\* The network loses a segment.
LEMMA LossStep == ASSUME TransmitInv, LoseSegment PROVE TransmitInv'
<1>1. segs' \in Seq(Segment)
  BY RestOfSeq DEF LoseSegment, TransmitInv, NetworkOK
<1> QED
  BY <1>1 DEF LoseSegment, TransmitInv, TypeOK, NetworkOK, SentBehind, Received, flow, app, peer

\* Every step keeps the invariant.
LEMMA NextTransmitInv == TransmitInv /\ [Next]_vars => TransmitInv'
<1> SUFFICES ASSUME TransmitInv, [Next]_vars PROVE TransmitInv'
  OBVIOUS
<1>1. CASE Arrival
  <2>1. Len(acks) \in Nat
    BY DEF TransmitInv, NetworkOK
  <2>2. PICK i \in 1 .. (IF Reorders THEN Len(acks) ELSE Minimum(1, Len(acks))) : fast_flows_packet(i)
    BY <1>1 DEF Arrival
  <2>3. i \in 1 .. Len(acks)
    BY <2>1 DEF Minimum
  <2> QED
    BY <2>2, <2>3, PacketStep
<1>2. CASE UNCHANGED vars
  BY <1>2 DEF vars, TransmitInv, TypeOK, NetworkOK, SentBehind, Received
<1> QED
  BY <1>1, <1>2, AppStep, BumpStep, QmanStep, RetransmitStep, PeerStep, LossStep DEF Next

\* The transmit buffer releases only bytes that the peer has received: what
\* fast_flows_packet dequeues for an acknowledgement never runs ahead of the
\* peer, whatever is lost, reordered or sent again.
THEOREM OnlyReceivedReleased == Spec => []ReleasedOnlyReceived
<1>1. TransmitInv => ReleasedOnlyReceived
  BY DEF TransmitInv, SentBehind, Received, ReleasedOnlyReceived
<1> QED
  BY <1>1, InitTransmitInv, NextTransmitInv, PTL DEF Spec

-----------------------------------------------------------------------------
(* Stop and wait: the application sends when all is acknowledged, nothing   *)
(* is lost, and a message, or the window, fits one segment.                 *)

\* The types that the arithmetic of the steps needs.
LEMMA Numbers ==
  ASSUME TransmitInv
  PROVE  /\ tx_next_seq \in Nat /\ tx_sent \in Nat /\ rx_remote_avail \in Nat /\ rx_dupack_cnt \in Nat
         /\ dequeued \in Nat /\ flushed \in Nat /\ dequeued <= flushed /\ written \in Nat
         /\ credit \in Nat /\ Len(got) \in Nat /\ taken \in Nat /\ PeerBuf \in Nat /\ TCP_MSS \in Nat \ {0}
         /\ got \in Seq(Symbol) /\ rq_nbytes_enqueued \in Nat
BY DEF TransmitInv, TypeOK, Symbol, rq_nbytes_enqueued

\* At first the buffer and the network are empty.
LEMMA InitOneUnderway == ASSUME StopAndWait, Init PROVE OneUnderway
<1>1. Len(got) = 0 /\ rq_nbytes_enqueued = 0 /\ Minimum(0, PeerBuf) = 0
  BY DEF Init, rq_nbytes_enqueued, Minimum
<1>2. Steady
  BY <1>1 DEF StopAndWait, Init, Steady
<1>3. InOrderGot
  BY <1>1 DEF InOrderGot
<1>4. Idle
  BY <1>1 DEF Init, Idle
<1> QED
  BY <1>2, <1>3, <1>4 DEF OneUnderway

\* The application waits for an empty buffer, so nothing is underway and the new
\* message is all that is in the buffer.
LEMMA SendAlone ==
  ASSUME StopAndWait, TransmitInv, OneUnderway, NEW n \in Messages, AppSend(n)
  PROVE  OneUnderway'
<1>1. rq_nbytes_enqueued = 0 /\ atx = <<>> /\ n \in Nat
  BY DEF AppSend, StopAndWait
<1>2. Idle /\ credit = 0
  <2>1. tx_sent \in Nat /\ credit \in Nat /\ PeerBuf \in Nat
    BY Numbers
  <2>2. ~InFlight
    BY ONLY <1>1, <2>1 DEF InFlight
  <2>3. Idle
    BY <2>2, Zenon DEF OneUnderway, SegmentOut, AckOut
  <2>4. credit <= Minimum(0, PeerBuf)
    BY <1>1, <2>3, Zenon DEF Idle
  <2> QED
    BY ONLY <2>1, <2>3, <2>4 DEF Minimum
<1>3. rq_nbytes_enqueued' = n
  <2>1. dequeued \in Nat /\ flushed \in Nat
    BY Numbers, Zenon
  <2>2. flushed' = flushed + n /\ dequeued' = dequeued
    BY Zenon DEF AppSend
  <2> QED
    BY ONLY <1>1, <2>1, <2>2 DEF rq_nbytes_enqueued
<1>4. atx' = <<[tx_bump |-> n, fin |-> FALSE]>>
  BY <1>1 DEF AppSend
<1>5. Idle'
  <2>1. 0 <= Minimum(n, PeerBuf)
    BY <1>1, Numbers DEF Minimum
  <2> QED
    BY <1>2, <1>3, <1>4, <2>1, Zenon DEF AppSend, Idle, flow, peer
<1>6. Steady'
  <2>1. Minimum(n, PeerBuf) <= TCP_MSS
    BY DEF StopAndWait
  <2>2. /\ txfin' = FALSE /\ closed' = FALSE /\ got_fin' = FALSE /\ taken' = Len(got')
        /\ edge' = Len(got') + PeerBuf /\ tx_next_seq' - tx_sent' = dequeued' /\ rx_remote_avail' <= PeerBuf
    BY DEF AppSend, OneUnderway, Steady, flow, peer
  <2>3. flushed' = written'
    BY DEF AppSend, OneUnderway, Steady
  <2> QED
    BY <1>3, <2>1, <2>2, <2>3 DEF Steady
<1>7. InOrderGot'
  BY DEF AppSend, OneUnderway, InOrderGot, peer
<1> QED
  BY <1>5, <1>6, <1>7 DEF OneUnderway

\* The bump gives credit for what may be sent of the message, and for no more.
LEMMA BumpAlone ==
  ASSUME StopAndWait, TransmitInv, OneUnderway, fast_flows_bump
  PROVE  OneUnderway'
<1>1. /\ Idle /\ credit = 0 /\ atx = <<[tx_bump |-> rq_nbytes_enqueued, fin |-> FALSE]>>
  BY DEF fast_flows_bump, OneUnderway, SegmentOut, AckOut, InFlight, Idle
<1>2. atx' = <<>> /\ Head(atx) = [tx_bump |-> rq_nbytes_enqueued, fin |-> FALSE]
  BY <1>1 DEF fast_flows_bump
<1>3. txfin = FALSE /\ tx_sent = 0 /\ rx_remote_avail <= PeerBuf
  BY <1>1 DEF Idle, OneUnderway, Steady
<1>4. txfin' = FALSE /\ AddCredit(tcp_txavail(0, rx_remote_avail, tx_sent), TxAvail)
  <2>1. rq_nbytes_enqueued - rq_nbytes_enqueued = 0
    BY Numbers
  <2>2. Head(atx).tx_bump = rq_nbytes_enqueued /\ Head(atx).fin = FALSE
    BY <1>2
  <2>3. txfin' = FALSE
    BY <1>3, <2>2, Zenon DEF fast_flows_bump
  <2>4. AddCredit(tcp_txavail(0, rx_remote_avail, tx_sent), TxAvail)
    <3>1. (IF txfin THEN 0 ELSE Head(atx).tx_bump) = rq_nbytes_enqueued
      BY <1>3, <2>2
    <3>2. 0 >= 0
      OBVIOUS
    <3> QED
      BY <2>1, <3>1, <3>2 DEF fast_flows_bump
  <2> QED
    BY <2>3, <2>4
<1>5. tcp_txavail(0, rx_remote_avail, tx_sent) = 0
      /\ TxAvail \in Nat /\ TxAvail <= Minimum(rq_nbytes_enqueued, PeerBuf)
  BY <1>3, Numbers DEF tcp_txavail, TxAvail, Minimum
<1>6. credit' <= Minimum(rq_nbytes_enqueued, PeerBuf)
  BY <1>1, <1>4, <1>5, Numbers DEF AddCredit, Minimum
<1>7. UNCHANGED <<tx_next_seq, tx_sent, rx_remote_avail, flushed, dequeued, written, closed, segs, acks,
                  got, got_fin, taken, edge>>
  BY DEF fast_flows_bump, peer
<1>8. rq_nbytes_enqueued' = rq_nbytes_enqueued
  BY <1>7 DEF rq_nbytes_enqueued
<1>9. Idle'
  BY <1>1, <1>2, <1>6, <1>7, <1>8 DEF Idle
<1>10. Steady' /\ InOrderGot'
  BY <1>4, <1>7, <1>8 DEF OneUnderway, Steady, InOrderGot
<1> QED
  BY <1>9, <1>10 DEF OneUnderway

\* All of the credit goes into one segment, of bytes that are in the buffer.
LEMMA QmanAlone ==
  ASSUME StopAndWait, TransmitInv, OneUnderway, fast_flows_qman
  PROVE  OneUnderway'
<1>1. Idle /\ atx = <<>> /\ credit > 0 /\ credit \in Nat
  BY Numbers DEF fast_flows_qman, OneUnderway, SegmentOut, AckOut, InFlight, Idle
<1>2. credit <= TCP_MSS
  BY <1>1, Numbers DEF Idle, OneUnderway, Steady, Minimum
<1>3. credit' = 0
  BY <1>1, <1>2, Numbers DEF fast_flows_qman, Minimum
<1>4. UNCHANGED <<rx_remote_avail, txfin, flushed, dequeued, atx, written, closed, acks,
                  got, got_fin, taken, edge>>
  BY DEF fast_flows_qman, app, peer
<1>5. rq_nbytes_enqueued' = rq_nbytes_enqueued
  BY <1>4 DEF rq_nbytes_enqueued
<1>6. tx_sent = 0 /\ Len(got) = dequeued /\ segs = <<>> /\ acks = <<>> /\ tx_next_seq = dequeued
  <2>1. tx_sent = 0 /\ Len(got) = dequeued /\ segs = <<>> /\ acks = <<>>
    BY <1>1 DEF Idle
  <2>2. tx_next_seq - tx_sent = dequeued
    BY DEF OneUnderway, Steady
  <2> QED
    BY <2>1, <2>2, Numbers
<1>7. CASE TxAvail = 0
  <2>1. UNCHANGED <<tx_next_seq, tx_sent, segs>>
    BY <1>7 DEF fast_flows_qman
  <2>2. 0 <= Minimum(rq_nbytes_enqueued, PeerBuf)
    BY Numbers DEF Minimum
  <2>3. Idle'
    BY <1>1, <1>3, <1>4, <1>5, <1>6, <2>1, <2>2 DEF Idle
  <2>4. Steady' /\ InOrderGot'
    BY <1>4, <1>5, <2>1 DEF OneUnderway, Steady, InOrderGot
  <2> QED
    BY <2>3, <2>4 DEF OneUnderway
<1>8. CASE TxAvail # 0
  <2> DEFINE len == Minimum(TxAvail, TCP_MSS)
             bytes == [i \in 1 .. len |-> ByteAt(dequeued + tx_sent + i - 1)]
  <2>1. txfin = FALSE
    BY DEF OneUnderway, Steady
  <2>2. /\ segs' = Append(segs, [seq |-> tx_next_seq, fin |-> FALSE, bytes |-> bytes])
        /\ tx_next_seq' = tx_next_seq + len /\ tx_sent' = tx_sent + len
    BY <1>8, <2>1, Zenon DEF fast_flows_qman
  <2>3. len \in Nat /\ len > 0 /\ len <= rq_nbytes_enqueued /\ len <= PeerBuf
    <3>1. rx_remote_avail <= PeerBuf
      BY DEF OneUnderway, Steady
    <3>2. TxAvail \in Nat /\ TxAvail <= rq_nbytes_enqueued /\ TxAvail <= PeerBuf
      BY <1>6, <3>1, Numbers DEF TxAvail, tcp_txavail, Minimum
    <3> QED
      BY <1>8, <3>2, Numbers DEF Minimum
  <2>4. bytes = [i \in 1 .. len |-> dequeued + i - 1]
    <3>1. flushed = written /\ len <= flushed - dequeued
      BY <2>3 DEF OneUnderway, Steady, rq_nbytes_enqueued
    <3>2. ASSUME NEW i \in 1 .. len PROVE ByteAt(dequeued + tx_sent + i - 1) = dequeued + i - 1
      BY <1>6, <2>3, <3>1, <3>2, Numbers DEF ByteAt
    <3> QED
      BY <3>2
  <2> HIDE DEF len, bytes
  <2>5. tx_sent' = len /\ tx_next_seq' = dequeued + len
    BY <1>6, <2>2, <2>3
  <2>6. segs' = <<[seq |-> dequeued, fin |-> FALSE, bytes |-> SentBytes']>>
    <3>1. SentBytes' = bytes
      BY <1>4, <2>4, <2>5 DEF SentBytes
    <3> QED
      BY <1>6, <2>2, <3>1
  <2>7. InFlight'
    BY <1>1, <1>3, <1>4, <1>5, <2>3, <2>5 DEF InFlight
  <2>8. SegmentOut'
    BY <1>4, <1>6, <2>6, <2>7 DEF SegmentOut
  <2>9. tx_next_seq' - tx_sent' = dequeued'
    BY <1>4, <2>3, <2>5, Numbers
  <2>10. Steady' /\ InOrderGot'
    BY <1>4, <1>5, <2>9 DEF OneUnderway, Steady, InOrderGot
  <2> QED
    BY <2>8, <2>10 DEF OneUnderway
<1> QED
  BY <1>7, <1>8

\* The peer takes the segment, which is the next in order and fits, and
\* acknowledges all of it.
LEMMA PeerAlone ==
  ASSUME StopAndWait, TransmitInv, OneUnderway, PeerReceive
  PROVE  OneUnderway'
<1>1. SegmentOut
  BY DEF PeerReceive, OneUnderway, Idle, AckOut
<1>2. UNCHANGED <<tx_next_seq, tx_sent, rx_remote_avail, txfin, flushed, dequeued, atx, written, closed, credit>>
  BY DEF PeerReceive, flow, app
<1>3. rq_nbytes_enqueued' = rq_nbytes_enqueued
  BY <1>2 DEF rq_nbytes_enqueued
<1>4. /\ Len(got) = dequeued /\ taken = Len(got) /\ got_fin = FALSE /\ tx_next_seq - tx_sent = dequeued
      /\ tx_sent <= PeerBuf /\ acks = <<>> /\ edge = Len(got) + PeerBuf
  BY <1>1 DEF SegmentOut, InFlight, OneUnderway, Steady
<1>5. /\ Head(segs) = [seq |-> dequeued, fin |-> FALSE, bytes |-> SentBytes]
      /\ segs' = <<>>
  BY <1>1 DEF SegmentOut, PeerReceive
<1>6. SentBytes \in Seq(Int) /\ Len(SentBytes) = tx_sent
      /\ \A i \in 1 .. tx_sent : SentBytes[i] = dequeued + i - 1
  <2>1. tx_sent \in Nat /\ dequeued \in Nat
    BY Numbers
  <2>2. \A n \in Nat, d \in Nat :
          LET q == [i \in 1 .. n |-> d + i - 1]
          IN  q \in Seq(Int) /\ Len(q) = n /\ \A i \in 1 .. n : q[i] = d + i - 1
    OBVIOUS
  <2> QED
    BY <2>1, <2>2, Zenon DEF SentBytes
<1>7. got' = got \o SentBytes /\ got_fin' = FALSE
  <2>1. Len(got) + Len(SentBytes) - taken <= PeerBuf
    BY <1>4, <1>6, Numbers
  <2>2. Head(segs).seq = Len(got) /\ Head(segs).fin = FALSE /\ Head(segs).bytes = SentBytes
    BY <1>4, <1>5
  <2>3. got' = got \o SentBytes
    BY <1>4, <2>1, <2>2, Zenon DEF PeerReceive
  <2>4. got_fin' = FALSE
    BY <1>4, <2>2, Zenon DEF PeerReceive
  <2> QED
    BY <2>3, <2>4
<1>8. /\ Len(got') = tx_next_seq
      /\ \A i \in 1 .. Len(got') : got'[i] = IF i <= Len(got) THEN got[i] ELSE SentBytes[i - Len(got)]
  <2>1. got \in Seq(Int)
    BY Numbers DEF Symbol
  <2>2. /\ Len(got') = Len(got) + tx_sent
        /\ \A i \in 1 .. Len(got') : got'[i] = IF i <= Len(got) THEN got[i] ELSE SentBytes[i - Len(got)]
    <3>1. /\ Len(got \o SentBytes) = Len(got) + Len(SentBytes)
          /\ \A i \in 1 .. Len(got) + Len(SentBytes) :
               (got \o SentBytes)[i] = IF i <= Len(got) THEN got[i] ELSE SentBytes[i - Len(got)]
      BY <1>6, <2>1, JoinedSeq, Zenon
    <3> QED
      BY <1>6, <1>7, <3>1, Zenon
  <2>3. Len(got) + tx_sent = tx_next_seq
    BY <1>4, Numbers
  <2> QED
    BY <2>2, <2>3, Zenon
<1>9. InOrderGot'
  <2> SUFFICES ASSUME NEW i \in 1 .. Len(got') PROVE got'[i] = i - 1
    BY DEF InOrderGot
  <2>0. i \in Int /\ i >= 1 /\ i <= tx_next_seq /\ Len(got) \in Nat
    BY <1>8, Numbers
  <2>1. CASE i <= Len(got)
    <3>1. i \in 1 .. Len(got)
      BY <2>0, <2>1
    <3>2. got[i] = i - 1
      BY <3>1, Zenon DEF OneUnderway, InOrderGot
    <3> QED
      BY <1>8, <2>1, <3>2, Zenon
  <2>2. CASE ~(i <= Len(got))
    <3>1. i - Len(got) \in 1 .. tx_sent
      <4>1. tx_sent \in Nat /\ tx_next_seq \in Nat
        BY Numbers
      <4> QED
        BY <1>4, <2>0, <2>2, <4>1
    <3>2. SentBytes[i - Len(got)] = dequeued + (i - Len(got)) - 1
      BY <1>6, <3>1, Zenon
    <3>3. dequeued + (i - Len(got)) - 1 = i - 1
      BY <1>4, <2>0
    <3>4. got'[i] = SentBytes[i - Len(got)]
      BY <1>8, <2>2, Zenon
    <3> QED
      BY <3>2, <3>3, <3>4, Zenon
  <2> QED
    BY <2>1, <2>2, Zenon
<1>10. taken' = Len(got')
  BY DEF PeerReceive, StopAndWait
<1>11. /\ acks' = <<[ack |-> tx_next_seq, wnd |-> PeerBuf]>>
       /\ edge' = Len(got') + PeerBuf
  <2> DEFINE wnd == PeerBuf - (Len(got') - taken')
             ack == Len(got') + (IF got_fin' THEN 1 ELSE 0)
  <2>1. wnd = PeerBuf /\ ack = tx_next_seq
    BY <1>7, <1>8, <1>10, Numbers
  <2>2. /\ acks' = Append(acks, [ack |-> ack, wnd |-> wnd])
        /\ edge' = IF ack + wnd > edge THEN ack + wnd ELSE edge
    BY DEF PeerReceive, PeerAck
  <2> HIDE DEF wnd, ack
  <2>3. ~(tx_next_seq + PeerBuf > edge) => edge = tx_next_seq + PeerBuf
    BY <1>4, Numbers
  <2> QED
    BY <1>4, <1>8, <2>1, <2>2, <2>3
<1>12. AckOut'
  <2>1. InFlight'
    BY <1>1, <1>2, <1>3 DEF SegmentOut, InFlight
  <2> QED
    BY <1>2, <1>5, <1>8, <1>11, <2>1 DEF AckOut
<1>13. Steady'
  BY <1>2, <1>3, <1>7, <1>10, <1>11 DEF OneUnderway, Steady
<1> QED
  BY <1>9, <1>12, <1>13 DEF OneUnderway

\* The acknowledgement takes the whole segment out of the buffer, and the credit
\* that it gives does not go beyond what may be sent next.
LEMMA AckAlone ==
  ASSUME StopAndWait, TransmitInv, OneUnderway, NEW i \in 1 .. Len(acks), fast_flows_packet(i)
  PROVE  OneUnderway'
<1>1. AckOut
  BY DEF OneUnderway, Idle, SegmentOut
<1>2. /\ i = 1 /\ acks[i].ack = tx_next_seq /\ acks[i].wnd = PeerBuf /\ acks' = <<>>
  BY <1>1 DEF AckOut, fast_flows_packet, RemoveIndex
<1>3. /\ tx_sent > 0 /\ tx_sent <= rq_nbytes_enqueued /\ credit = 0 /\ atx = <<>> /\ segs = <<>>
      /\ Len(got) = tx_next_seq /\ tx_next_seq - tx_sent = dequeued
  BY <1>1 DEF AckOut, InFlight, OneUnderway, Steady
<1>4. /\ TxBump(acks[i].ack) = tx_sent /\ Dequeues(acks[i].ack) = tx_sent
      /\ ValidAck(acks[i].ack)
  BY <1>2, <1>3, Numbers DEF TxBump, Dequeues, ValidAck
<1>5. ~PacketAborts(acks[i]) /\ ~PacketDuplicateAck(acks[i])
  BY <1>3, <1>4, Numbers DEF PacketAborts, PacketDuplicateAck, DuplicateAck
<1>6. PacketAck(acks[i])
  BY <1>5 DEF fast_flows_packet
<1>7. /\ dequeued' = dequeued + tx_sent /\ tx_next_seq' = tx_next_seq /\ rx_remote_avail' = PeerBuf
      /\ UNCHANGED <<txfin, flushed, atx, written, closed, got, got_fin, taken, edge, segs>>
      /\ AddCredit(TxAvail, TxAvail')
  <2>1. ~(tx_sent > tx_sent)
    BY Numbers
  <2> QED
    BY <1>2, <1>4, <1>6, <2>1, Zenon DEF PacketAck, fast_flows_packet, app, peer
<1>8. tx_sent' = 0
  <2>1. ~(tx_sent > tx_sent) /\ tx_sent - tx_sent = 0
    BY Numbers
  <2> QED
    BY <1>4, <1>6, <2>1 DEF PacketAck
<1>9. rq_nbytes_enqueued' \in Nat /\ rq_nbytes_enqueued' <= rq_nbytes_enqueued /\ dequeued' = tx_next_seq
  BY <1>3, <1>7, Numbers DEF rq_nbytes_enqueued
<1>10. TxAvail \in Nat /\ TxAvail' = Minimum(rq_nbytes_enqueued', PeerBuf)
  <2>1. TxAvail \in Nat
    BY Numbers DEF TxAvail, tcp_txavail, Minimum
  <2>2. TxAvail' = tcp_txavail(rq_nbytes_enqueued', PeerBuf, 0)
    BY <1>7, <1>8 DEF TxAvail
  <2>3. PeerBuf >= 0 /\ PeerBuf - 0 = PeerBuf
    BY Numbers
  <2> QED
    BY <2>1, <2>2, <2>3 DEF tcp_txavail
<1>11. credit' <= Minimum(rq_nbytes_enqueued', PeerBuf)
  <2>1. Minimum(rq_nbytes_enqueued', PeerBuf) \in Nat
    BY <1>9, Numbers DEF Minimum
  <2> QED
    BY <1>3, <1>7, <1>10, <2>1 DEF AddCredit
<1>12. Idle'
  BY <1>2, <1>3, <1>7, <1>8, <1>9, <1>11 DEF Idle
<1>13. Steady'
  <2>1. Minimum(rq_nbytes_enqueued', PeerBuf) <= TCP_MSS
    <3>1. Minimum(rq_nbytes_enqueued, PeerBuf) <= TCP_MSS
      BY DEF OneUnderway, Steady
    <3> QED
      BY <1>9, <3>1, Numbers DEF Minimum
  <2>2. tx_next_seq' - tx_sent' = dequeued' /\ rx_remote_avail' <= PeerBuf
    BY <1>7, <1>8, <1>9, Numbers
  <2> QED
    BY <1>7, <2>1, <2>2 DEF OneUnderway, Steady
<1>14. InOrderGot'
  BY <1>7 DEF OneUnderway, InOrderGot
<1> QED
  BY <1>12, <1>13, <1>14 DEF OneUnderway

\* What the invariant says of the segments underway and of the peer.
LEMMA OneUnderwayRight ==
  ASSUME StopAndWait, TransmitInv, OneUnderway PROVE SegmentsAllowed /\ PeerGetsStream
<1>1. PeerGetsStream
  <2>1. got = [i \in 1 .. Len(got) |-> i - 1]
    BY Numbers DEF OneUnderway, InOrderGot
  <2> QED
    BY <2>1 DEF PeerGetsStream, OneUnderway, Steady
<1>2. CASE segs = <<>>
  BY <1>1, <1>2 DEF SegmentsAllowed
<1>3. CASE segs # <<>>
  <2>1. SegmentOut
    BY <1>3 DEF OneUnderway, Idle, AckOut
  <2>2. Len(segs) = 1 /\ segs[1].seq = dequeued /\ segs[1].bytes = SentBytes
    BY <2>1 DEF SegmentOut
  <2>3. Len(SentBytes) = tx_sent /\ \A k \in 1 .. tx_sent : SentBytes[k] # Stale
    BY Numbers DEF SentBytes, Stale
  <2>4. dequeued + tx_sent <= edge
    BY <2>1, Numbers DEF SegmentOut, InFlight, OneUnderway, Steady
  <2> QED
    BY <1>1, <2>2, <2>3, <2>4 DEF SegmentsAllowed
<1> QED
  BY <1>2, <1>3

\* TransmitInv is an invariant, whatever the constants.
LEMMA TransmitInvHolds == Spec => []TransmitInv
BY InitTransmitInv, NextTransmitInv, PTL DEF Spec

\* A step of a stop-and-wait sender keeps one segment or acknowledgement underway.
LEMMA NextOneUnderway ==
  ASSUME StopAndWait, TransmitInv, OneUnderway, [Next]_vars PROVE OneUnderway'
<1>1. CASE Arrival
  <2>1. Len(acks) \in Nat
    BY DEF TransmitInv, NetworkOK
  <2>2. PICK i \in 1 .. (IF Reorders THEN Len(acks) ELSE Minimum(1, Len(acks))) : fast_flows_packet(i)
    BY <1>1 DEF Arrival
  <2>3. i \in 1 .. Len(acks)
    BY <2>1 DEF Minimum
  <2> QED
    BY <2>2, <2>3, AckAlone
<1>2. CASE UNCHANGED vars
  <2>1. Steady' /\ InOrderGot'
    BY <1>2 DEF OneUnderway, Steady, InOrderGot, rq_nbytes_enqueued, vars
  <2>2. Idle => Idle'
    BY <1>2 DEF Idle, rq_nbytes_enqueued, vars
  <2>3. SegmentOut => SegmentOut'
    BY <1>2 DEF SegmentOut, SentBytes, InFlight, rq_nbytes_enqueued, vars
  <2>4. AckOut => AckOut'
    BY <1>2 DEF AckOut, InFlight, rq_nbytes_enqueued, vars
  <2> QED
    BY <2>1, <2>2, <2>3, <2>4 DEF OneUnderway
<1>3. ~AppClose /\ ~fast_flows_retransmit /\ ~LoseSegment
  BY DEF StopAndWait, AppClose, fast_flows_retransmit, LoseSegment
<1>4. ~PeerTake
  BY Numbers DEF PeerTake, OneUnderway, Steady
<1> QED
  BY <1>1, <1>2, <1>3, <1>4, SendAlone, BumpAlone, QmanAlone, PeerAlone DEF Next

\* A stop-and-wait sender puts into a segment only bytes that the application
\* has enqueued and the peer has room for: what tcp_txavail lets fast_flows_qman
\* take when no earlier segment is underway.
THEOREM StopAndWaitAllowed ==
  ASSUME StopAndWait PROVE Spec => []SegmentsAllowed
<1>1. Init => OneUnderway
  BY InitOneUnderway
<1>2. TransmitInv /\ OneUnderway /\ [Next]_vars => OneUnderway'
  BY NextOneUnderway
<1>3. TransmitInv /\ OneUnderway => SegmentsAllowed
  BY OneUnderwayRight
<1> QED
  BY <1>1, <1>2, <1>3, TransmitInvHolds, PTL DEF Spec

\* The peer of a stop-and-wait sender receives exactly the application's bytes,
\* in order.
THEOREM StopAndWaitDelivers ==
  ASSUME StopAndWait PROVE Spec => []PeerGetsStream
<1>1. Init => OneUnderway
  BY InitOneUnderway
<1>2. TransmitInv /\ OneUnderway /\ [Next]_vars => OneUnderway'
  BY NextOneUnderway
<1>3. TransmitInv /\ OneUnderway => PeerGetsStream
  BY OneUnderwayRight
<1> QED
  BY <1>1, <1>2, <1>3, TransmitInvHolds, PTL DEF Spec
=============================================================================
