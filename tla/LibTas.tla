------------------------------- MODULE LibTas -------------------------------
(***************************************************************************)
(* libTAS, the library under the sockets interposition layer: one          *)
(* flextcp_context of an application (lib/tas/init.c) and its connections  *)
(* (lib/tas/conn.c), in the configuration the SmartNIC build is for: the   *)
(* connection's rings are in the application's memory and paired with the  *)
(* NIC's over RDMA (rdmafd # -1), one fast path core.                      *)
(*                                                                         *)
(* Every C function is an operator from the state s of the context to its  *)
(* next state.  s has the fields                                           *)
(*   kin, kout   requests to the slow path and its answers;                *)
(*   arx, atx    updates from and to the fast path core;                   *)
(*   first, last the list of connections with a pending bump;              *)
(*   conn        the struct flextcp_connection of every connection;        *)
(*   acked       what the NIC has freed of each transmit ring (external);  *)
(*   ev, short   the events of the poll under way, and whether it ran out  *)
(*               of room for them;                                         *)
(*   abort       an assertion failed or abort() was called.                *)
(* A ring is three counters of a stream of bytes (RdmaQueuePaired shows    *)
(* what the ring itself does): a byte's address is its number modulo the   *)
(* size of the buffer.  Sequence numbers and addresses are left out, and   *)
(* txb_allocated, which every caller returns to 0.                         *)
(***************************************************************************)
EXTENDS Integers, Sequences, FiniteSets

CONSTANTS Conns,   \* connections (and the sockets that contain them)
          NONE,    \* the null pointer
          EvMax,   \* events one poll has room for (16 in sockets/context.c)
          KinLen,  \* entries of the queue to the slow path
          AtxLen,  \* entries of the queue to the fast path
          RxLen,   \* bytes of a receive buffer
          TxLen    \* bytes of a transmit buffer

\* CONN_FLAG_TXEOS, _TXEOS_ALLOC and _TXEOS_ACK are only ever set in this order.
NOEOS == 0
TXEOS == 1
TXEOS_ALLOC == 2
TXEOS_ACK == 3

(* connection_init, and the rings flextcp_create_tcp_buffer allocates: rxw
   bytes written by the NIC, rxr of them dequeued; txe bytes enqueued, txf of
   them flushed, view the NIC's progress as last read over RDMA. *)
connection_init ==
    [status |-> "CLOSED", eos |-> NOEOS, rx_closed |-> FALSE,
     next |-> NONE, pending |-> FALSE, txb_bump |-> 0, rxb_bump |-> 0,
     rxw |-> 0, rxr |-> 0, txe |-> 0, txf |-> 0, view |-> 0]

Least(a, b) == IF a < b THEN a ELSE b
Check(s, holds) == IF holds THEN s ELSE [s EXCEPT !.abort = TRUE]
Emit(s, evs) == [s EXCEPT !.ev = @ \o evs]
Event(t, c) == [t |-> t, c |-> c, pos |-> 0, len |-> 0]
Received(c, pos, len) == [t |-> "RECEIVED", c |-> c, pos |-> pos, len |-> len]
Room(s) == EvMax - Len(s.ev)

--------------------------------------------------------------------------
(* The rings, as libTAS uses them. *)

\* rx.offset: an offset equal to the size stays until the next byte is read
RxOffset(k) == IF k.rxr = 0 THEN 0 ELSE ((k.rxr - 1) % RxLen) + 1
rq_nbytes_enqueued(k) == k.rxw - k.rxr
rq_nbytes_to_flush(k) == k.txe - k.txf
rq_nbytes_empty(k) == TxLen - rq_nbytes_to_flush(k)
MaxFlush(k) == TxLen - (k.txf - k.view)

\* a full ring makes the caller read the NIC's progress, for the next call
rq_nbytes_can_reserve(k) ==
    IF MaxFlush(k) <= rq_nbytes_to_flush(k) THEN 0 ELSE MaxFlush(k) - rq_nbytes_to_flush(k)
Reread(k, freed) ==
    IF MaxFlush(k) <= rq_nbytes_to_flush(k) THEN [k EXCEPT !.view = freed] ELSE k

\* a second round after reading the NIC's progress, if the first fell short
rq_nflush(k, n, freed) ==
    LET want == Least(n, rq_nbytes_to_flush(k))
        v == IF MaxFlush(k) < want THEN freed ELSE k.view
    IN [k EXCEPT !.view = v, !.txf = @ + Least(want, TxLen - (k.txf - v))]

--------------------------------------------------------------------------
(* conn.c *)

KinFull(s) == Len(s.kin) >= KinLen
enqueue_appout(s, type, c) == [s EXCEPT !.kin = Append(@, [t |-> type, c |-> c])]

flextcp_connection_open(s, c) ==
    LET i == [s EXCEPT !.conn[c] = connection_init] IN
    IF KinFull(s) THEN i
    ELSE enqueue_appout([i EXCEPT !.conn[c].status = "OPEN_REQUESTED"], "CONN_OPEN", c)

flextcp_listen_open(s) ==
    IF KinFull(s) THEN s ELSE enqueue_appout(s, "LISTEN_OPEN", NONE)

flextcp_listen_accept(s, c) ==
    IF KinFull(s) THEN s
    ELSE enqueue_appout([s EXCEPT !.conn[c] =
                            [connection_init EXCEPT !.status = "ACCEPT_REQUESTED"]],
                        "ACCEPT_CONN", c)

conn_mark_bump(s, c) ==
    IF s.conn[c].pending THEN s
    ELSE LET own == [s.conn EXCEPT ![c].next = NONE, ![c].pending = TRUE] IN
         [s EXCEPT !.conn = IF s.last = NONE THEN own ELSE [own EXCEPT ![s.last].next = c],
                   !.first = IF s.last = NONE THEN c ELSE @,
                   !.last = c]

\* the connections from bump_pending_first on; a chain that does not end
\* among Conns is cut, which only states with abort or a cycle can show
BumpList(s) ==
    LET step[i \in 0..Cardinality(Conns)] ==
            IF i = 0 THEN s.first
            ELSE IF step[i - 1] = NONE THEN NONE ELSE s.conn[step[i - 1]].next
    IN {step[i] : i \in 0..Cardinality(Conns)} \ {NONE}

\* a mutant: a closed connection stays on the list
NeverUnlinked(s, c) == s

\* the first branch leaves bump_pending_last alone
Unlink(s, c) ==
    IF ~s.conn[c].pending THEN s
    ELSE LET off == [s EXCEPT !.conn[c].pending = FALSE]
             before == {p \in BumpList(s) : s.conn[p].next = c}
         IN IF s.first = c THEN [off EXCEPT !.first = s.conn[c].next]
            ELSE IF before = {} THEN [s EXCEPT !.abort = TRUE]
            ELSE LET p == CHOOSE x \in before : TRUE
                 IN [off EXCEPT !.conn[p].next = s.conn[c].next,
                                !.last = IF s.conn[c].next = NONE THEN p ELSE @]

flextcp_connection_close(s, c) ==
    LET u == Unlink(s, c) IN
    IF KinFull(s) THEN u
    ELSE enqueue_appout([u EXCEPT !.conn[c].status = "CLOSE_REQUESTED"], "CONN_CLOSE", c)

flextcp_connection_rx_done(s, c, len) ==
    LET k == s.conn[c]
        d == [s EXCEPT !.conn[c] = [k EXCEPT !.rxr = @ + len, !.rxb_bump = @ + len]]
    IN IF len > rq_nbytes_enqueued(k) THEN s
       ELSE IF d.conn[c].rxb_bump > RxLen \div 4 THEN conn_mark_bump(d, c) ELSE d

flextcp_connection_tx_alloc2(s, c) == [s EXCEPT !.conn[c] = Reread(@, s.acked[c])]

\* a mutant: the connection is not marked
SendUnmarked(s, c, len) ==
    [s EXCEPT !.conn[c].txe = @ + len, !.conn[c].txb_bump = @ + len]

\* no free bytes would be rq_try_enqueue failing
flextcp_connection_tx_send(s, c, len) ==
    conn_mark_bump(Check([s EXCEPT !.conn[c].txe = @ + len, !.conn[c].txb_bump = @ + len],
                         len <= rq_nbytes_empty(s.conn[c])), c)

flextcp_conn_pushtxeos(s, c) ==
    IF rq_nbytes_empty(s.conn[c]) = 0 THEN s
    ELSE conn_mark_bump(Check([s EXCEPT !.conn[c] =
                                  [@ EXCEPT !.txe = @ + 1, !.txb_bump = @ + 1, !.eos = TXEOS_ALLOC]],
                              rq_nbytes_to_flush(s.conn[c]) = 0), c)

TxCloseFails(s, c) == rq_nbytes_to_flush(s.conn[c]) > 0 \/ s.conn[c].eos # NOEOS

flextcp_connection_tx_close(s, c) ==
    IF TxCloseFails(s, c) THEN s
    ELSE flextcp_conn_pushtxeos([s EXCEPT !.conn[c].eos = TXEOS], c)

--------------------------------------------------------------------------
(* init.c: the handlers of flextcp_context_poll. *)

(* event_kappin_conn_opened and event_kappin_accept_conn, which differ only in
   the event: what the ring already holds is announced at once.  A message
   that does not fit is gone, it was dequeued before. *)
Opened(s, m, type) ==
    LET k == s.conn[m.c]
        n == rq_nbytes_enqueued(k)
        needs == 1 + (IF n > 0 THEN 1 ELSE 0) + (IF k.rx_closed THEN 1 ELSE 0)
        evs == <<[Event(type, m.c) EXCEPT !.len = m.status]>>
               \o (IF n > 0 THEN <<Received(m.c, 0, n)>> ELSE <<>>)
               \o (IF k.rx_closed THEN <<Event("RXCLOSED", m.c)>> ELSE <<>>)
    IN IF m.status # 0
       THEN Emit([s EXCEPT !.conn[m.c].status = "CLOSED"],
                 <<[Event(type, m.c) EXCEPT !.len = m.status]>>)
       ELSE IF needs > Room(s) THEN [s EXCEPT !.short = TRUE]
       ELSE Emit([s EXCEPT !.conn[m.c].status = "OPEN"], evs)

event_kappin_conn_opened(s, m) == Opened(s, m, "CONN_OPEN")
event_kappin_accept_conn(s, m) == Opened(s, m, "LISTEN_ACCEPT")
event_kappin_listen_newconn(s) == Emit(s, <<Event("LISTEN_NEWCONN", NONE)>>)
event_kappin_st_listen_open(s, m) ==
    Emit(s, <<[Event("LISTEN_OPEN", NONE) EXCEPT !.len = m.status]>>)
event_kappin_st_conn_closed(s, m) ==
    Emit([s EXCEPT !.conn[m.c].status = "CLOSED"], <<Event("CONN_CLOSED", m.c)>>)

kappin(s, m) ==
    CASE m.t = "CONN_OPENED" -> event_kappin_conn_opened(s, m)
      [] m.t = "ACCEPTED_CONN" -> event_kappin_accept_conn(s, m)
      [] m.t = "CONN_CLOSED" -> event_kappin_st_conn_closed(s, m)
      [] m.t = "LISTEN_OPEN" -> event_kappin_st_listen_open(s, m)
      [] m.t = "LISTEN_NEWCONN" -> event_kappin_listen_newconn(s)

RECURSIVE kernel_poll(_)
kernel_poll(s) ==
    IF Room(s) = 0 \/ s.kout = <<>> \/ s.short \/ s.abort THEN s
    ELSE kernel_poll(kappin([s EXCEPT !.kout = Tail(@)], Head(s.kout)))

\* an update of n bytes is announced from the first byte not yet dequeued
RxEvents(k, c, n) ==
    IF n = 0 THEN <<>>
    ELSE IF RxOffset(k) + n > RxLen
    THEN <<Received(c, RxOffset(k), RxLen - RxOffset(k)),
           Received(c, 0, n - (RxLen - RxOffset(k)))>>
    ELSE <<Received(c, RxOffset(k), n)>>

\* what an acknowledgement of tx_bump bytes does to a closing connection
TxBump(s, m) ==
    LET k == s.conn[m.c] IN
    IF m.tx = 0 THEN s
    ELSE IF k.eos = TXEOS
    THEN Check(flextcp_conn_pushtxeos(s, m.c), rq_nbytes_empty(k) > 0)
    ELSE IF k.eos >= TXEOS_ALLOC
    THEN Check(IF k.txb_bump > 0 THEN s
               ELSE Emit([s EXCEPT !.conn[m.c].eos = TXEOS_ACK], <<Event("TXCLOSED", m.c)>>),
               k.eos # TXEOS_ACK)
    ELSE s

event_arx_connupdate(s, m) ==
    LET k == s.conn[m.c]
        rx == RxEvents(k, m.c, m.rx)
        sendbuf == m.tx > 0 /\ rq_nbytes_empty(k) = 0
        needed == Len(rx) + (IF sendbuf THEN 1 ELSE 0) + (IF m.eos THEN 1 ELSE 0)
                  + (IF k.eos >= TXEOS_ALLOC /\ rq_nbytes_to_flush(k) = 0 THEN 1 ELSE 0)
        data == Emit(Check(s, m.rx <= rq_nbytes_enqueued(k)),
                     rx \o (IF sendbuf THEN <<Event("SENDBUF", m.c)>> ELSE <<>>))
        acked == TxBump(data, m)
    IN CASE k.status \in {"OPEN_REQUESTED", "ACCEPT_REQUESTED"} ->
              Check([s EXCEPT !.conn[m.c].rx_closed = m.eos], m.tx = 0)
         [] k.status \in {"CLOSED", "CLOSE_REQUESTED"} -> s
         [] k.status = "FREED" -> [s EXCEPT !.abort = TRUE]
         [] k.status = "OPEN" /\ needed > Room(s) -> [s EXCEPT !.short = TRUE]
         [] k.status = "OPEN" /\ needed <= Room(s) ->
              IF m.eos THEN Emit([acked EXCEPT !.conn[m.c].rx_closed = TRUE],
                                 <<Event("RXCLOSED", m.c)>>)
              ELSE acked

\* an update is dequeued only when its events fit
RECURSIVE fastpath_poll_vec(_)
fastpath_poll_vec(s) ==
    IF Room(s) = 0 \/ s.arx = <<>> \/ s.abort THEN s
    ELSE LET h == event_arx_connupdate(s, Head(s.arx))
         IN IF h.short THEN h ELSE fastpath_poll_vec([h EXCEPT !.arx = Tail(@)])

RECURSIVE conns_bump(_)
conns_bump(s) ==
    LET c == s.first IN
    IF c = NONE \/ s.abort \/ Len(s.atx) >= AtxLen THEN s
    ELSE LET k == s.conn[c]
             f == rq_nflush(k, k.txb_bump, s.acked[c])
         IN conns_bump(Check(
              [s EXCEPT !.conn[c] = [f EXCEPT !.txb_bump = @ - (f.txf - k.txf),
                                              !.rxb_bump = 0, !.pending = FALSE],
                        !.first = k.next,
                        !.last = IF k.next = NONE THEN NONE ELSE @,
                        !.atx = Append(@, [c |-> c, rx |-> k.rxb_bump, tx |-> f.txf - k.txf,
                                           txdone |-> k.eos >= TXEOS_ALLOC])],
              k.status = "OPEN"))

flextcp_context_poll(s) ==
    LET k == kernel_poll([s EXCEPT !.ev = <<>>, !.short = FALSE]) IN
    IF k.short THEN k ELSE conns_bump(fastpath_poll_vec(k))
=============================================================================
