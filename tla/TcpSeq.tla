--------------------------------- MODULE TcpSeq -------------------------------
(***************************************************************************)
(* The sequence number arithmetic of the fast path: pure functions of      *)
(* tas_nic/fast/tcp_common.h and the bump counter check of                 *)
(* fast_flows_bump.  Sequence numbers live in 0 .. SeqMod - 1 (SeqMod is   *)
(* 2^32 in the code, BumpMod 2^16) and are compared as unsigned integers,  *)
(* so every function has cases for intervals that wrap.                    *)
(***************************************************************************)
EXTENDS Integers

CONSTANTS SeqMod,    \* size of the sequence number space
          BumpMod    \* size of the bump counter space

ASSUME SeqAssumption ==
  /\ SeqMod \in Nat \ {0}
  /\ BumpMod \in Nat \ {0}

SeqNo == 0 .. SeqMod - 1
SeqAdd(seq, n) == (seq + n) % SeqMod
SeqDiff(a, b) == (a - b) % SeqMod    \* uint32_t subtraction

-------------------------------------------------------------------------------
(* tcp_trim_rxbuf: the packet pseq_a .. pseq_b against the unused part     *)
(* sseq_a .. sseq_b of the receive buffer.  An interval is split when it   *)
(* wraps, and then its end is numerically below its start.                 *)

\* The case in which exactly one interval is split has one drop condition.
TrimDrops(pseq_a, pseq_b, sseq_a, sseq_b) ==
  LET psplit == pseq_a > pseq_b
      ssplit == sseq_a > sseq_b
  IN  \/ ~psplit /\ ~ssplit /\ (pseq_b < sseq_a \/ pseq_a > sseq_b)
      \/ psplit # ssplit /\ pseq_a > sseq_b /\ pseq_b < sseq_a

\* Mutant: the start is trimmed by plain comparison, whatever is split.
TrimsStartUnsplit(pseq_a, pseq_b, sseq_a, sseq_b) == pseq_a < sseq_a
TrimsStart(pseq_a, pseq_b, sseq_a, sseq_b) ==
  LET psplit == pseq_a > pseq_b
      ssplit == sseq_a > sseq_b
  IN  \/ psplit = ssplit /\ pseq_a < sseq_a
      \/ ~psplit /\ ssplit /\ pseq_a > sseq_b /\ pseq_a < sseq_a
      \/ psplit /\ ~ssplit /\ (sseq_a <= pseq_b \/ sseq_a > pseq_a)

TrimsEnd(pseq_a, pseq_b, sseq_a, sseq_b) ==
  LET psplit == pseq_a > pseq_b
      ssplit == sseq_a > sseq_b
  IN  \/ psplit = ssplit /\ pseq_b > sseq_b
      \/ ~psplit /\ ssplit /\ pseq_b >= sseq_b /\ pseq_b < sseq_a
      \/ psplit /\ ~ssplit /\ (pseq_b > sseq_b \/ sseq_a >= pseq_a)

tcp_trim_rxbuf(rx_next_seq, empty, pkt_seq, pkt_bytes) ==
  LET pseq_b == SeqAdd(pkt_seq, pkt_bytes)
      sseq_b == SeqAdd(rx_next_seq, empty)
  IN  [ok         |-> ~TrimDrops(pkt_seq, pseq_b, rx_next_seq, sseq_b),
       trim_start |-> IF TrimsStart(pkt_seq, pseq_b, rx_next_seq, sseq_b)
                      THEN SeqDiff(rx_next_seq, pkt_seq) ELSE 0,
       trim_end   |-> IF TrimsEnd(pkt_seq, pseq_b, rx_next_seq, sseq_b)
                      THEN SeqDiff(pseq_b, sseq_b) ELSE 0]

-------------------------------------------------------------------------------
\* tcp_valid_rxack, with ALLOW_FUTURE_ACKS: up to the end of the send buffer.
tcp_valid_rxack(tx_next_seq, tx_sent, enqueued, ack) ==
  LET fsack_a == SeqDiff(tx_next_seq, tx_sent)
      fsack_b == SeqAdd(tx_next_seq, enqueued)
  IN  [ok   |-> IF fsack_a <= fsack_b
                THEN ~(ack < fsack_a \/ ack > fsack_b)
                ELSE ~(fsack_a > ack /\ ack > fsack_b),
       bump |-> SeqDiff(ack, fsack_a)]

\* fast_flows_bump discards an update of the application as out of order.
BumpMax == BumpMod - 1
BumpDiscarded(flow_seq, bump_seq) ==
  \/ bump_seq >= flow_seq /\ bump_seq - flow_seq > BumpMax \div 2
  \/ /\ bump_seq < flow_seq
     /\ flow_seq < (BumpMax \div 4) * 3 \/ bump_seq > BumpMax \div 4

-------------------------------------------------------------------------------
(* What the functions are for, in modular arithmetic without cases. *)

InInterval(seq, start, len) == SeqDiff(seq, start) < len

\* The sequence numbers a packet covers, those that fit, and those kept.
Covered(pkt_seq, pkt_bytes) == {SeqAdd(pkt_seq, i) : i \in 0 .. pkt_bytes - 1}
Fitting(rx_next_seq, empty, pkt_seq, pkt_bytes) ==
  {s \in Covered(pkt_seq, pkt_bytes) : InInterval(s, rx_next_seq, empty)}
Kept(trim, pkt_seq, pkt_bytes) ==
  {SeqAdd(pkt_seq, i) : i \in trim.trim_start .. pkt_bytes - trim.trim_end - 1}

\* The packet does not go beyond the unused part of the buffer, as the packets of
\* a peer that keeps to the advertised window do.
WithinEdge(rx_next_seq, empty, pkt_seq, pkt_bytes) ==
  SeqDiff(SeqAdd(rx_next_seq, empty), SeqAdd(pkt_seq, pkt_bytes)) < SeqMod \div 2

\* tcp_trim_rxbuf keeps exactly the bytes of the packet that fit the unused part
\* of the buffer, and never trims more than there is.
TrimExact(rx_next_seq, empty, pkt_seq, pkt_bytes) ==
  LET trim == tcp_trim_rxbuf(rx_next_seq, empty, pkt_seq, pkt_bytes)
  IN  IF trim.ok
      THEN /\ trim.trim_start + trim.trim_end <= pkt_bytes
           /\ Kept(trim, pkt_seq, pkt_bytes) = Fitting(rx_next_seq, empty, pkt_seq, pkt_bytes)
      ELSE Fitting(rx_next_seq, empty, pkt_seq, pkt_bytes) = {}
===============================================================================
