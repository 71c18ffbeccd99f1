-------------------------------- MODULE MCTcpSeq ------------------------------
(***************************************************************************)
(* The functions of TcpSeq called on every argument of a small sequence    *)
(* space: one behaviour per call, from the arguments to the answer.        *)
(***************************************************************************)
EXTENDS TcpSeq

CONSTANTS MaxWindow,   \* bound: unused bytes of the receive buffer, bytes in flight
          MaxPayload   \* bound: payload of a packet

VARIABLES call,    \* the arguments
          answer   \* the answer once the function has run
seqVars == <<call, answer>>

TrimCall == [fn : {"trim"}, next : SeqNo, avail : 0 .. MaxWindow,
             seq : SeqNo, bytes : 0 .. MaxPayload]
AckCall == [fn : {"ack"}, next : SeqNo, sent : 0 .. MaxWindow,
            enqueued : 0 .. MaxWindow, ack : SeqNo]
BumpCall == [fn : {"bump"}, flow : 0 .. BumpMod - 1, bump : 0 .. BumpMod - 1]

Calls == TrimCall \cup AckCall \cup BumpCall

Trim ==
  /\ call.fn = "trim" /\ answer = <<>>
  /\ answer' = <<tcp_trim_rxbuf(call.next, call.avail, call.seq, call.bytes)>>
  /\ UNCHANGED call
Ack ==
  /\ call.fn = "ack" /\ answer = <<>>
  /\ answer' = <<tcp_valid_rxack(call.next, call.sent, call.enqueued, call.ack)>>
  /\ UNCHANGED call
Bump ==
  /\ call.fn = "bump" /\ answer = <<>>
  /\ answer' = <<BumpDiscarded(call.flow, call.bump)>>
  /\ UNCHANGED call
SeqNext == Trim \/ Ack \/ Bump
SeqSpec == call \in Calls /\ answer = <<>> /\ [][SeqNext]_seqVars

\* tcp_trim_rxbuf keeps exactly what fits of every packet that does not go beyond
\* the advertised window, wherever the packet and the window wrap.
TrimWithinEdge ==
  call.fn = "trim" /\ answer # <<>>
  /\ WithinEdge(call.next, call.avail, call.seq, call.bytes)
     => TrimExact(call.next, call.avail, call.seq, call.bytes)

\* tcp_valid_rxack accepts exactly the acknowledgements between the oldest byte in
\* flight and the end of the send buffer, and returns the distance.
AckExact ==
  call.fn = "ack" /\ answer # <<>>
     => LET advance == SeqDiff(call.ack, SeqDiff(call.next, call.sent))
        IN  /\ answer[1].ok <=> advance <= call.sent + call.enqueued
            /\ answer[1].bump = advance

\* fast_flows_bump takes every update that is at most a quarter of the counter
\* space ahead and discards every one that is as much behind, across the wrap.
BumpOrdered ==
  call.fn = "bump" /\ answer # <<>>
     => LET ahead == (call.bump - call.flow) % BumpMod
        IN  /\ ahead <= BumpMod \div 4 - 1 => ~answer[1]
            /\ ahead >= BumpMod - BumpMod \div 4 => answer[1]

\* Every decision the fast path takes by comparing sequence numbers and counters
\* that wrap is the one the unbounded numbers call for.
SeqExact == TrimWithinEdge /\ AckExact /\ BumpOrdered
===============================================================================
