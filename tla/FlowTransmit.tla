----------------------------- MODULE FlowTransmit -----------------------------
(***************************************************************************)
(* The transmit half of a fast path flow (tas_nic/fast/fast_flows.c) with  *)
(* its queue manager credit: the application enqueues and bumps            *)
(* (fast_flows_bump), the queue manager calls for segments                 *)
(* (fast_flows_qman), acknowledgements come back (fast_flows_packet), the  *)
(* slow path asks for retransmission (fast_flows_retransmit).  The peer is *)
(* a TCP receiver that keeps in-order data and acknowledges every segment. *)
(*                                                                         *)
(* Bytes are numbered from 0 and sequence numbers are counted from the     *)
(* initial one without wrapping (TcpSeq covers the wrap), so byte i        *)
(* belongs at sequence number i.  Of the transmit buffer only the two      *)
(* positions count: dequeued .. flushed - 1 are in it.                     *)
(***************************************************************************)
EXTENDS Integers, Sequences, FiniteSets

CONSTANTS
  TCP_MSS,       \* largest segment
  TxBufSize,     \* bytes the transmit buffer takes
  Messages,      \* sizes the application sends
  StreamLen,     \* bound: bytes the application sends before it closes
  PeerBuf,       \* size of the peer's receive buffer
  OwnRxBuf,      \* free bytes of the flow's own receive buffer
  AppWaits,      \* BOOLEAN: the application sends only when all is acknowledged
  PeerKeepsUp,   \* BOOLEAN: the peer's application takes data before it is acknowledged
  Closes,        \* BOOLEAN: the application closes its side in the end
  Lossy,         \* BOOLEAN: segments may be lost and retransmission is asked for
  Reorders,      \* BOOLEAN: acknowledgements may overtake each other
  MaxNet,        \* bound: segments, and acknowledgements, in the network
  MaxSeq         \* bound: sequence numbers used

ASSUME TransmitAssumption ==
  /\ TCP_MSS \in Nat \ {0} /\ TxBufSize \in Nat /\ Messages \subseteq Nat \ {0}
  /\ StreamLen \in Nat /\ PeerBuf \in Nat /\ OwnRxBuf \in Nat /\ MaxNet \in Nat /\ MaxSeq \in Nat
  /\ AppWaits \in BOOLEAN /\ PeerKeepsUp \in BOOLEAN /\ Closes \in BOOLEAN
  /\ Lossy \in BOOLEAN /\ Reorders \in BOOLEAN

VARIABLES
  tx_next_seq, tx_sent, rx_remote_avail, rx_dupack_cnt, txfin,  \* flextcp_pl_flowst
  flushed, dequeued,   \* positions of the transmit buffer
  atx,                 \* bumps of the application not yet seen by the fast path
  written,             \* bytes of data the application has sent
  closed,              \* it has pushed the end of its stream
  credit,              \* the flow's bytes in the queue manager
  segs, acks,          \* in the network, oldest first
  got, got_fin,        \* the peer: the bytes received in order, the end of stream
  taken,               \* bytes its application took
  edge,                \* history: end of the window the peer has announced
  failed               \* the fast path has aborted

flow == <<tx_next_seq, tx_sent, rx_remote_avail, rx_dupack_cnt, txfin>>
app == <<atx, written, closed>>
peer == <<got, got_fin, taken, edge>>
vars == <<tx_next_seq, tx_sent, rx_remote_avail, rx_dupack_cnt, txfin, flushed, dequeued, atx,
          written, closed, credit, segs, acks, got, got_fin, taken, edge, failed>>

Minimum(a, b) == IF a < b THEN a ELSE b
RemoveIndex(s, i) == SubSeq(s, 1, i - 1) \o SubSeq(s, i + 1, Len(s))

\* What the buffer holds at a position: data, the dummy byte of the end of stream,
\* or what an earlier lap left there.
Dummy == -1
Stale == -2
ByteAt(pos) ==
  IF pos >= flushed THEN Stale ELSE IF pos >= written THEN Dummy ELSE pos

rq_nbytes_enqueued == flushed - dequeued

\* Mutant: one byte more than is in the buffer.
TxAvailOneMore(buf_avail, remote_avail, sent) ==
  IF remote_avail >= sent THEN Minimum(buf_avail + 1, remote_avail - sent) ELSE buf_avail + 1
\* tcp_txavail.  The difference of the two unsigned numbers wraps, and then it is
\* larger than any buffer.
tcp_txavail(buf_avail, remote_avail, sent) ==
  IF remote_avail >= sent THEN Minimum(buf_avail, remote_avail - sent) ELSE buf_avail
TxAvail == tcp_txavail(rq_nbytes_enqueued, rx_remote_avail, tx_sent)

\* Mutant: the queue manager is told of full segments only.
AddFullSegments(old, new) ==
  credit' = IF new - old >= TCP_MSS THEN credit + (new - old) ELSE credit
\* qman_set with QMAN_ADD_AVAIL when more can be sent than before.
AddCredit(old, new) == credit' = IF new > old THEN credit + (new - old) ELSE credit

\* nicif_connection_add, which takes its own buffer for the peer's (XXX in the code).
Init ==
  /\ tx_next_seq = 0 /\ tx_sent = 0 /\ rx_remote_avail = OwnRxBuf
  /\ rx_dupack_cnt = 0 /\ txfin = FALSE
  /\ flushed = 0 /\ dequeued = 0
  /\ atx = <<>> /\ written = 0 /\ closed = FALSE
  /\ credit = 0 /\ segs = <<>> /\ acks = <<>>
  /\ got = <<>> /\ got_fin = FALSE /\ taken = 0 /\ edge = PeerBuf
  /\ failed = FALSE

-------------------------------------------------------------------------------
(* The application: tx_send and conns_bump, which flushes what was sent    *)
(* and tells the fast path with an atx entry.                              *)

AppSend(n) ==
  /\ ~closed /\ written + n <= StreamLen
  /\ rq_nbytes_enqueued + n <= TxBufSize
  /\ AppWaits => rq_nbytes_enqueued = 0 /\ atx = <<>>
  /\ flushed' = flushed + n /\ written' = written + n
  /\ atx' = Append(atx, [tx_bump |-> n, fin |-> FALSE])
  /\ UNCHANGED <<flow, dequeued, closed, credit, segs, acks, peer, failed>>

\* flextcp_connection_tx_close and flextcp_conn_pushtxeos: one dummy byte.
AppClose ==
  /\ Closes /\ ~closed
  /\ rq_nbytes_enqueued + 1 <= TxBufSize
  /\ closed' = TRUE /\ flushed' = flushed + 1
  /\ atx' = Append(atx, [tx_bump |-> 1, fin |-> TRUE])
  /\ UNCHANGED <<flow, dequeued, written, credit, segs, acks, peer, failed>>

-------------------------------------------------------------------------------
(* The fast path. *)

\* fast_flows_bump for the oldest entry.  What could be sent before it is computed
\* from the buffer less the bump, an unsigned subtraction.
fast_flows_bump ==
  /\ atx # <<>> /\ ~failed
  /\ LET bump == Head(atx)
         tx_bump == IF txfin THEN 0 ELSE bump.tx_bump
         before == rq_nbytes_enqueued - tx_bump
         old == IF before >= 0 THEN tcp_txavail(before, rx_remote_avail, tx_sent)
                ELSE tcp_txavail(TxBufSize, rx_remote_avail, tx_sent)
     IN  /\ txfin' = (txfin \/ bump.fin)
         /\ AddCredit(old, TxAvail)
  /\ atx' = Tail(atx)
  /\ UNCHANGED <<tx_next_seq, tx_sent, rx_remote_avail, rx_dupack_cnt, flushed, dequeued,
                 written, closed, segs, acks, peer, failed>>

\* queue_fire takes up to TCP_MSS of the credit and fast_flows_qman sends a segment:
\* as much as tcp_txavail allows, from the byte after those in flight.  After the
\* end of stream is marked every segment loses its last byte and carries a FIN.
fast_flows_qman ==
  /\ credit > 0 /\ ~failed
  /\ credit' = credit - Minimum(credit, TCP_MSS)
  /\ IF TxAvail = 0
     THEN UNCHANGED <<tx_next_seq, tx_sent, segs>>
     ELSE LET len == Minimum(TxAvail, TCP_MSS)
              payload == IF txfin THEN len - 1 ELSE len
          IN  /\ Len(segs) < MaxNet /\ tx_next_seq + len <= MaxSeq
              /\ segs' = Append(segs, [seq |-> tx_next_seq, fin |-> txfin,
                           bytes |-> [i \in 1 .. payload |-> ByteAt(dequeued + tx_sent + i - 1)]])
              /\ tx_next_seq' = tx_next_seq + len
              /\ tx_sent' = tx_sent + len
  /\ UNCHANGED <<rx_remote_avail, rx_dupack_cnt, txfin, flushed, dequeued, app, acks, peer, failed>>

\* flow_reset_retransmit
ResetRetransmit(remote_avail, sent) ==
  /\ rx_dupack_cnt' = 0
  /\ rx_remote_avail' = remote_avail + sent
  /\ tx_sent' = 0

\* fast_flows_retransmit, which the slow path asks for when nothing has been
\* acknowledged for a while; what was sent, or its acknowledgement, may only be late.
fast_flows_retransmit ==
  /\ Lossy /\ ~failed
  /\ tx_sent > 0
  /\ ResetRetransmit(rx_remote_avail, tx_sent)
  /\ UNCHANGED <<tx_next_seq, txfin, flushed, dequeued, app, segs, acks, peer, failed>>
  /\ AddCredit(TxAvail, TxAvail')

\* tcp_valid_rxack: between the oldest byte in flight and the end of the buffer.
ValidAck(ack) == tx_next_seq - tx_sent <= ack /\ ack <= tx_next_seq + rq_nbytes_enqueued

\* What fast_flows_packet does with an acknowledgement: the bytes it takes out of
\* the buffer, and the state of the flow.  With ALLOW_FUTURE_ACKS it accepts more
\* than is in flight.
TxBump(ack) == ack - (tx_next_seq - tx_sent)
\* Mutants: nothing is dequeued; everything in flight is dequeued.
DequeuesNone(ack) == 0
DequeuesInFlight(ack) == tx_sent
Dequeues(ack) == IF TxBump(ack) <= tx_sent THEN TxBump(ack) ELSE TxBump(ack) - tx_sent

DuplicateAck(packet) ==
  ValidAck(packet.ack) /\ TxBump(packet.ack) = 0 /\ rx_dupack_cnt + 1 >= 3

\* rq_try_dequeue fails when less is enqueued, and the fast path aborts.
PacketAborts(packet) ==
  /\ ValidAck(packet.ack) /\ Dequeues(packet.ack) > rq_nbytes_enqueued
  /\ failed' = TRUE
  /\ UNCHANGED <<flow, flushed, dequeued, app, credit, peer>>

\* The third duplicate: retransmission starts and the rest is skipped.
PacketDuplicateAck(packet) ==
  /\ DuplicateAck(packet)
  /\ ResetRetransmit(rx_remote_avail, tx_sent)
  /\ UNCHANGED <<tx_next_seq, txfin, flushed, dequeued, app, peer, failed>>
  /\ AddCredit(TxAvail, TxAvail')

PacketAck(packet) ==
  LET valid == ValidAck(packet.ack)
      bump == TxBump(packet.ack)
      future == valid /\ bump > tx_sent
  IN  /\ valid => Dequeues(packet.ack) <= rq_nbytes_enqueued
      /\ ~DuplicateAck(packet)
      /\ dequeued' = IF valid THEN dequeued + Dequeues(packet.ack) ELSE dequeued
      /\ tx_next_seq' = IF future THEN tx_next_seq + bump - tx_sent ELSE tx_next_seq
      /\ tx_sent' = IF future THEN 0 ELSE IF valid THEN tx_sent - bump ELSE tx_sent
      /\ rx_dupack_cnt' = IF ~valid THEN rx_dupack_cnt
                          ELSE IF bump # 0 THEN 0 ELSE rx_dupack_cnt + 1
      /\ rx_remote_avail' = packet.wnd
      /\ UNCHANGED <<txfin, flushed, app, peer, failed>>
      /\ AddCredit(TxAvail, TxAvail')

fast_flows_packet(i) ==
  /\ ~failed
  /\ PacketAborts(acks[i]) \/ PacketDuplicateAck(acks[i]) \/ PacketAck(acks[i])
  /\ acks' = RemoveIndex(acks, i)
  /\ UNCHANGED segs

-------------------------------------------------------------------------------
(* The peer and the network. *)

\* Acknowledge what there is in got, with the window that is left.
PeerAck ==
  LET wnd == PeerBuf - (Len(got') - taken')
      ack == Len(got') + (IF got_fin' THEN 1 ELSE 0)
  IN  /\ Len(acks) < MaxNet
      /\ acks' = Append(acks, [ack |-> ack, wnd |-> wnd])
      /\ edge' = IF ack + wnd > edge THEN ack + wnd ELSE edge

PeerReceive ==
  /\ segs # <<>>
  /\ segs' = Tail(segs)
  /\ LET seg == Head(segs)
         inorder == seg.seq = Len(got) /\ ~got_fin
                    /\ Len(got) + Len(seg.bytes) - taken <= PeerBuf
     IN  /\ got' = IF inorder THEN got \o seg.bytes ELSE got
         /\ got_fin' = (got_fin \/ (inorder /\ seg.fin))
  /\ taken' = IF PeerKeepsUp THEN Len(got') ELSE taken
  /\ PeerAck
  /\ UNCHANGED <<flow, flushed, dequeued, app, credit, failed>>

\* The peer's application takes what has arrived, and the peer announces the window.
PeerTake ==
  /\ taken < Len(got)
  /\ taken' = Len(got)
  /\ UNCHANGED <<got, got_fin>>
  /\ PeerAck
  /\ UNCHANGED <<flow, flushed, dequeued, app, credit, segs, failed>>

LoseSegment ==
  /\ Lossy /\ segs # <<>>
  /\ segs' = Tail(segs)
  /\ UNCHANGED <<flow, flushed, dequeued, app, credit, acks, peer, failed>>

-------------------------------------------------------------------------------
Arrival == \E i \in 1 .. (IF Reorders THEN Len(acks) ELSE Minimum(1, Len(acks))) :
             fast_flows_packet(i)
Next ==
  \/ \E n \in Messages : AppSend(n)
  \/ AppClose
  \/ fast_flows_bump \/ fast_flows_qman \/ fast_flows_retransmit
  \/ Arrival
  \/ PeerReceive \/ PeerTake \/ LoseSegment
Spec == Init /\ [][Next]_vars

-------------------------------------------------------------------------------
(* Properties. *)

TypeOK ==
  /\ tx_next_seq \in Nat /\ tx_sent \in Nat /\ rx_remote_avail \in Nat
  /\ rx_dupack_cnt \in 0 .. 2 /\ txfin \in BOOLEAN
  /\ dequeued \in Nat /\ flushed \in dequeued .. dequeued + TxBufSize
  /\ atx \in Seq([tx_bump : Nat, fin : BOOLEAN])
  /\ written \in 0 .. StreamLen /\ closed \in BOOLEAN /\ credit \in Nat
  /\ got \in Seq(-2 .. StreamLen) /\ got_fin \in BOOLEAN /\ taken \in Nat /\ failed \in BOOLEAN

\* Bytes leave the transmit buffer only when the peer has received as many, under
\* loss, retransmission and reordering: the buffer never gives up data that may
\* still have to be sent.
ReleasedOnlyReceived == TypeOK /\ dequeued <= Len(got) + (IF got_fin THEN 1 ELSE 0)

\* The oldest byte in the transmit buffer is the one that the next acknowledgement
\* is measured from: flow_reset_retransmit resets "as if we never transmitted those
\* segments", so what is sent again carries its own sequence numbers.
SequenceMatchesBuffer == tx_next_seq - tx_sent = dequeued

\* tcp_txavail goes by the "unsent bytes in send buffer and flow control window": no
\* segment carries bytes that the application has not enqueued, and none goes beyond
\* the edge that the peer has announced.
SegmentsAllowed ==
  \A i \in 1 .. Len(segs) :
    /\ \A k \in 1 .. Len(segs[i].bytes) : segs[i].bytes[k] # Stale
    /\ segs[i].seq + Len(segs[i].bytes) <= edge

\* The peer receives the application's bytes in order, without the dummy byte, and
\* the end of the stream after all of them.
PeerGetsStream ==
  /\ got = [i \in 1 .. Len(got) |-> i - 1]
  /\ got_fin => Len(got) = written

\* Everything the application sends is acknowledged in the end.
AllAcknowledged == <>(dequeued = flushed /\ written = StreamLen)

\* The application sends everything it has, the cores poll their queues, and the
\* network and the peer keep going.
Fairness ==
  /\ WF_vars(\E n \in Messages : AppSend(n))
  /\ WF_vars(fast_flows_bump) /\ WF_vars(fast_flows_qman) /\ WF_vars(Arrival)
  /\ WF_vars(PeerReceive) /\ WF_vars(PeerTake)
FairSpec == Spec /\ Fairness
===============================================================================
