------------------------------ MODULE FlowReceive -----------------------------
(***************************************************************************)
(* The receive half of a fast path flow (tas_nic/fast/fast_flows.c) whose  *)
(* receive buffer is shared with a local application: fast_flows_packet    *)
(* with its out-of-order interval, the application taking data with        *)
(* flextcp_connection_rx_done, and fast_flows_bump.  The peer is any TCP   *)
(* that keeps to the window it was told; its segments may be lost,         *)
(* repeated and reordered, and so may the acknowledgements.                *)
(*                                                                         *)
(* Bytes of the peer's stream are numbered from 0; byte i travels with     *)
(* sequence number ISN + i, and a FIN takes number ISN + StreamLen.  This  *)
(* side sends no data, so every acknowledgement number it receives is the  *)
(* current one.  The flow lock makes each handler one step; the            *)
(* application only frees space meanwhile.  The handler flushes exactly    *)
(* what it enqueues (rq_nflush of rx_bump), so the flush offset equals the *)
(* transmit offset between steps and is not kept.                          *)
(***************************************************************************)
EXTENDS TcpSeq, RdmaRing, FiniteSets

CONSTANTS
  ISN,            \* sequence number of the first byte
  StreamLen,      \* bytes the peer sends before its FIN
  SegSizes,       \* payload sizes of its segments
  ReadSizes,      \* amounts the application takes
  InitialWindows, \* windows the handshake may announce (send_control: 11680, which is
                  \* more or less than the configured buffer)
  Lossy,          \* BOOLEAN: the network loses segments and acknowledgements
  Probes,         \* BOOLEAN: the peer probes a closed window
  MaxNet          \* bound: segments in the network at a time

ASSUME ReceiveAssumption ==
  /\ ISN \in SeqNo /\ StreamLen \in Nat /\ InitialWindows \subseteq Nat
  /\ SegSizes \subseteq Nat \ {0} /\ ReadSizes \subseteq Nat \ {0}
  /\ Lossy \in BOOLEAN /\ Probes \in BOOLEAN /\ MaxNet \in Nat

VARIABLES
  rx_next_seq, rx_ooo_start, rx_ooo_len, rx_fin, rx_dupack_cnt,  \* flextcp_pl_flowst
  rx_offset, tx_offset, buffer,     \* the receive buffer, fs->rx
  announced, announced_fin,         \* bytes and end of stream notified on the arx queue
  rxb_bump,                         \* bytes taken and not yet reported with a bump
  net,                              \* segments in the network
  acked, edge,                      \* the peer: next byte and window edge it was told
  accepted, consumed                \* history: bytes received in order, bytes taken

flow == <<rx_next_seq, rx_ooo_start, rx_ooo_len, rx_fin, rx_dupack_cnt>>
peer == <<acked, edge>>
vars == <<rx_next_seq, rx_ooo_start, rx_ooo_len, rx_fin, rx_dupack_cnt, rx_offset, tx_offset,
          buffer, announced, announced_fin, rxb_bump, net, acked, edge, accepted, consumed>>

Junk == -1
Segment == [pos : 0 .. StreamLen, len : {0} \cup SegSizes, fin : BOOLEAN]
SeqOf(pos) == SeqAdd(ISN, pos)

\* What has been received of the sequence space, the FIN included.
NextPos == accepted + (IF rx_fin THEN 1 ELSE 0)

rq_nbytes_empty == buffer_size - rq_nbytes(rx_offset, tx_offset, TRUE) - RDMA_QUEUE_PAD

Init ==
  /\ rx_next_seq = ISN /\ rx_ooo_start = 0 /\ rx_ooo_len = 0
  /\ rx_fin = FALSE /\ rx_dupack_cnt = 0
  /\ rx_offset = 0 /\ tx_offset = 0 /\ buffer = [s \in Slot |-> Junk]
  /\ announced = 0 /\ announced_fin = FALSE /\ rxb_bump = 0
  /\ net = {} /\ acked = 0 /\ edge \in InitialWindows
  /\ accepted = 0 /\ consumed = 0

-------------------------------------------------------------------------------
(* The peer and the network. *)

\* The peer sends, or sends again, part of what is not acknowledged and fits the
\* window.  The FIN goes with the last byte or after it.
PeerSend(seg) ==
  /\ seg \notin net /\ Cardinality(net) < MaxNet
  /\ acked <= seg.pos
  /\ seg.pos + seg.len <= edge /\ seg.pos + seg.len <= StreamLen
  /\ seg.fin => seg.pos + seg.len = StreamLen
  /\ seg.len = 0 => seg.fin
  /\ net' = net \cup {seg}
  /\ UNCHANGED <<flow, rx_offset, tx_offset, buffer, announced, announced_fin, rxb_bump, peer,
                 accepted, consumed>>

\* The peer asks for the current window by sending an acknowledged byte again.
PeerProbe ==
  /\ Probes
  /\ \E len \in SegSizes, pos \in 0 .. StreamLen :
       LET seg == [pos |-> pos, len |-> len, fin |-> FALSE]
       IN  /\ pos + len = acked /\ acked <= StreamLen
           /\ seg \notin net /\ Cardinality(net) < MaxNet
           /\ net' = net \cup {seg}
  /\ UNCHANGED <<flow, rx_offset, tx_offset, buffer, announced, announced_fin, rxb_bump, peer,
                 accepted, consumed>>

Lose(seg) ==
  /\ Lossy /\ seg \in net /\ net' = net \ {seg}
  /\ UNCHANGED <<flow, rx_offset, tx_offset, buffer, announced, announced_fin, rxb_bump, peer,
                 accepted, consumed>>

\* flow_tx_ack with the state after the handler: the peer learns the next byte and
\* the edge of the window, or the acknowledgement is lost.
AckSent ==
  LET next == NextPos'
  IN  \/ /\ acked' = IF next > acked THEN next ELSE acked
         /\ edge' = IF next + rq_nbytes_empty' > edge THEN next + rq_nbytes_empty' ELSE edge
      \/ Lossy /\ UNCHANGED peer

-------------------------------------------------------------------------------
(* fast_flows_packet.  The segment is cut to what fits the buffer; seq is  *)
(* its sequence number after that and payload what is left of it.          *)

Trimmed(seg) == tcp_trim_rxbuf(rx_next_seq, rq_nbytes_empty, SeqOf(seg.pos), seg.len)
Payload(seg) == seg.len - Trimmed(seg).trim_start - Trimmed(seg).trim_end
FirstPos(seg) == seg.pos + Trimmed(seg).trim_start

\* Mutant: everything is written right behind what is enqueued.
WrittenNext(diff, pos, len) ==
  [s \in Slot |-> LET k == SlotIndex(SlotAt(tx_offset, 0), s)
                  IN  IF k < len THEN pos + k ELSE buffer[s]]
\* flow_rx_write and flow_rx_seq_write: len bytes of the stream from pos on, diff
\* bytes after the end of what is enqueued.
Written(diff, pos, len) ==
  [s \in Slot |-> LET k == SlotIndex(SlotAt(tx_offset, diff), s)
                  IN  IF k < len THEN pos + k ELSE buffer[s]]

\* The third acknowledgement in a row without payload: flow_reset_retransmit, and
\* the rest of the packet is skipped, a FIN included.
DuplicateAck(seg) == seg.len = 0 /\ rx_dupack_cnt + 1 >= 3
CountAck(seg) ==
  rx_dupack_cnt' = IF seg.len = 0 THEN rx_dupack_cnt + 1 ELSE rx_dupack_cnt

PacketDuplicateAck(seg) ==
  /\ DuplicateAck(seg)
  /\ rx_dupack_cnt' = 0
  /\ UNCHANGED <<rx_next_seq, rx_ooo_start, rx_ooo_len, rx_fin, rx_offset, tx_offset, buffer,
                 announced, announced_fin, rxb_bump, peer, accepted, consumed>>

\* Mutant: a segment outside is dropped without an acknowledgement.
PacketOutsideSilent(seg) ==
  /\ ~DuplicateAck(seg) /\ ~Trimmed(seg).ok
  /\ CountAck(seg)
  /\ UNCHANGED <<rx_next_seq, rx_ooo_start, rx_ooo_len, rx_fin, rx_offset, tx_offset, buffer,
                 announced, announced_fin, rxb_bump, peer, accepted, consumed>>
\* Completely outside of the unused part of the buffer: only acknowledged.
PacketOutside(seg) ==
  /\ ~DuplicateAck(seg)
  /\ ~Trimmed(seg).ok
  /\ CountAck(seg)
  /\ UNCHANGED <<rx_next_seq, rx_ooo_start, rx_ooo_len, rx_fin, rx_offset, tx_offset, buffer,
                 announced, announced_fin, rxb_bump, accepted, consumed>>
  /\ AckSent

\* Ahead of the next byte: it starts the one out-of-order interval or extends it
\* on either side; a segment that does neither is forgotten.
PacketOutOfOrder(seg) ==
  LET seq == SeqOf(FirstPos(seg))
      len == Payload(seg)
      starts == rx_ooo_len = 0
      before == SeqAdd(seq, len) = rx_ooo_start
      after == SeqAdd(rx_ooo_start, rx_ooo_len) = seq
      taken == len > 0 /\ (starts \/ before \/ after)
  IN  /\ ~DuplicateAck(seg)
      /\ Trimmed(seg).ok /\ seq # rx_next_seq
      /\ CountAck(seg)
      /\ rx_ooo_start' = IF taken /\ (starts \/ before) THEN seq ELSE rx_ooo_start
      /\ rx_ooo_len' = IF taken THEN rx_ooo_len + len ELSE rx_ooo_len
      /\ buffer' = IF taken THEN Written(SeqDiff(seq, rx_next_seq), FirstPos(seg), len)
                   ELSE buffer
      /\ UNCHANGED <<rx_next_seq, rx_fin, rx_offset, tx_offset, announced, announced_fin,
                     rxb_bump, accepted, consumed>>
      /\ AckSent

\* The out-of-order interval after len bytes were received in order: what is left
\* of it, and how much of it has become contiguous.
OooAfter(len) ==
  LET next == SeqAdd(rx_next_seq, len)
      trim == tcp_trim_rxbuf(next, rq_nbytes_empty - len, rx_ooo_start, rx_ooo_len)
      start == SeqAdd(rx_ooo_start, trim.trim_start)
      left == rx_ooo_len - trim.trim_start - trim.trim_end
  IN  IF len = 0 \/ rx_ooo_len = 0
      THEN [start |-> rx_ooo_start, len |-> rx_ooo_len, joined |-> 0]
      ELSE IF ~trim.ok THEN [start |-> rx_ooo_start, len |-> 0, joined |-> 0]
      ELSE IF left > 0 /\ start = next THEN [start |-> start, len |-> 0, joined |-> left]
      ELSE [start |-> start, len |-> left, joined |-> 0]

\* The payload that is taken, and what the flow advances by.
Taken(seg) == IF rx_fin THEN 0 ELSE Payload(seg)
RxBump(seg) == Taken(seg) + OooAfter(Taken(seg)).joined

\* The FIN is the next thing in the sequence.
FinBump(seg) ==
  /\ seg.fin /\ ~rx_fin /\ OooAfter(Taken(seg)).len = 0
  /\ SeqAdd(rx_next_seq, RxBump(seg)) = SeqOf(seg.pos + seg.len)

InOrder(seg) == ~DuplicateAck(seg) /\ Trimmed(seg).ok /\ SeqOf(FirstPos(seg)) = rx_next_seq

\* In order: the payload and whatever it makes contiguous go to the application,
\* then a FIN if it is the next thing in the sequence.  After a FIN payload is
\* dropped.  What goes to the application must fit the buffer (assert, abort).
PacketInOrder(seg) ==
  LET len == Taken(seg)
      ooo == OooAfter(len)
      rx_bump == RxBump(seg)
      fin == FinBump(seg)
  IN  /\ InOrder(seg)
      /\ rx_bump <= rq_nbytes_empty
      /\ CountAck(seg)
      /\ buffer' = Written(0, FirstPos(seg), len)
      /\ tx_offset' = Advance(Advance(tx_offset, len), ooo.joined)
      /\ rx_next_seq' = SeqAdd(rx_next_seq, rx_bump + (IF fin THEN 1 ELSE 0))
      /\ rx_ooo_start' = ooo.start /\ rx_ooo_len' = ooo.len
      /\ rx_fin' = (rx_fin \/ fin)
      /\ announced' = announced + rx_bump /\ announced_fin' = (announced_fin \/ fin)
      /\ accepted' = accepted + rx_bump
      /\ UNCHANGED <<rx_offset, rxb_bump, consumed>>
      /\ IF seg.len > 0 \/ fin THEN AckSent ELSE UNCHANGED peer

fast_flows_packet(seg) ==
  \/ PacketDuplicateAck(seg) \/ PacketOutside(seg)
  \/ PacketOutOfOrder(seg) \/ PacketInOrder(seg)

\* A segment arrives, and may arrive again.
Deliver(seg) ==
  /\ seg \in net
  /\ net' \in {net, net \ {seg}}
  /\ fast_flows_packet(seg)

-------------------------------------------------------------------------------
(* The application. *)

\* flextcp_connection_rx_done for n of the bytes it was told of.
RxDone(n) ==
  /\ n <= announced
  /\ rx_offset' = Advance(rx_offset, n)
  /\ announced' = announced - n
  /\ consumed' = consumed + n
  /\ rxb_bump' = rxb_bump + n
  /\ UNCHANGED <<flow, tx_offset, buffer, announced_fin, net, peer, accepted>>

\* conns_bump once more than a quarter of the buffer was taken, and fast_flows_bump
\* for it: a window update goes out when the buffer has no free space.
fast_flows_bump ==
  /\ rxb_bump > buffer_size \div 4
  /\ rxb_bump' = 0
  /\ UNCHANGED <<flow, rx_offset, tx_offset, buffer, announced, announced_fin, net, accepted,
                 consumed>>
  /\ IF rq_nbytes_empty = 0 THEN AckSent ELSE UNCHANGED peer

-------------------------------------------------------------------------------
Next ==
  \/ \E seg \in Segment : PeerSend(seg)
  \/ PeerProbe
  \/ \E seg \in net : Deliver(seg)
  \/ \E seg \in net : Lose(seg)
  \/ \E n \in ReadSizes : RxDone(n)
  \/ fast_flows_bump
Spec == Init /\ [][Next]_vars

-------------------------------------------------------------------------------
(* Properties. *)

TypeOK ==
  /\ rx_next_seq \in SeqNo /\ rx_ooo_start \in SeqNo /\ rx_ooo_len \in 0 .. buffer_size
  /\ rx_fin \in BOOLEAN /\ rx_dupack_cnt \in 0 .. 2
  /\ rx_offset \in Offset /\ tx_offset \in Offset /\ buffer \in [Slot -> -1 .. StreamLen]
  /\ announced \in 0 .. buffer_size /\ announced_fin \in BOOLEAN /\ rxb_bump \in Nat
  /\ net \subseteq Segment /\ acked \in 0 .. StreamLen + 1 /\ edge \in Nat
  /\ accepted \in 0 .. StreamLen /\ consumed \in 0 .. StreamLen

\* The out-of-order interval lies ahead of the next byte and inside the free part
\* of the buffer, and the bytes it stands for are there in their places: it can be
\* handed over as soon as the gap closes.
OutOfOrderHeld ==
  rx_ooo_len > 0 =>
    LET ahead == SeqDiff(rx_ooo_start, rx_next_seq)
    IN  /\ ahead > 0 /\ ahead + rx_ooo_len <= rq_nbytes_empty
        /\ \A i \in 0 .. rx_ooo_len - 1 :
             buffer[SlotAt(SlotAt(tx_offset, ahead), i)] = accepted + ahead + i

\* A window that an acknowledgement has announced is never taken back: there is
\* room in the buffer up to the edge that the peer was told, unless that is still
\* the one of the handshake.
WindowKept == edge \in InitialWindows \/ edge <= NextPos + rq_nbytes_empty

\* The assertion rq_nbytes_empty(fs->rx) >= payload_bytes and the enqueue of the
\* out-of-order interval, whose failure aborts: neither fails for any segment that
\* is under way, whatever was received before it.
NeverAborts == \A seg \in net : InOrder(seg) => RxBump(seg) <= rq_nbytes_empty

\* Whatever arrives in whatever order, the bytes between the two offsets of the
\* receive buffer are the next bytes of the peer's stream, they are as many as the
\* application was told of, and the acknowledgement number stands right behind
\* them: nothing is acknowledged that the application will not get.  What came out
\* of order is kept in its place, the window is not taken back, and the end of the
\* stream is reported only after every byte before it, with nothing accepted after
\* it (fast_flows_packet, flow_rx_seq_write).
StreamInOrder ==
  /\ TypeOK
  /\ accepted - consumed = announced
  /\ rq_nbytes(rx_offset, tx_offset, TRUE) = announced
  /\ rx_next_seq = SeqOf(NextPos)
  /\ \A i \in 0 .. announced - 1 : buffer[SlotAt(rx_offset, i)] = consumed + i
  /\ OutOfOrderHeld /\ WindowKept /\ NeverAborts
  /\ rx_fin => accepted = StreamLen /\ rx_ooo_len = 0 /\ announced_fin

\* The peer gets through: the application receives the whole stream and its end.
StreamCompletes == <>(consumed = StreamLen /\ announced_fin)

\* The oldest segment that is not acknowledged, a probe, and the delivery of a
\* segment whose acknowledgement is not lost.
Oldest(seg) == seg.pos = acked
Probe(seg) == seg.pos + seg.len = acked
Answered(seg) == Deliver(seg) /\ acked' >= NextPos' /\ edge' >= NextPos' + rq_nbytes_empty'

\* The peer retransmits until it is acknowledged; the network does not lose every
\* copy of a segment or every acknowledgement, and keeps no segment forever; the
\* application keeps taking what it is told of.
Fairness ==
  /\ SF_vars(\E seg \in Segment : Oldest(seg) /\ PeerSend(seg))
  /\ SF_vars(PeerProbe)
  /\ SF_vars(\E seg \in net : Oldest(seg) /\ Answered(seg))
  /\ SF_vars(\E seg \in net : Probe(seg) /\ Answered(seg))
  /\ WF_vars(\E seg \in net : Lose(seg) \/ (Deliver(seg) /\ seg \notin net'))
  /\ WF_vars(\E n \in ReadSizes : RxDone(n))
  /\ WF_vars(fast_flows_bump)
FairSpec == Spec /\ Fairness
===============================================================================
