------------------------------- MODULE Sockets -------------------------------
(***************************************************************************)
(* The sockets layer (lib/sockets: control.c, transfer.c, context.c) over  *)
(* libTAS, run by one application thread on non-blocking sockets, with the *)
(* slow path, the fast path and the peers as its environment.  A blocking  *)
(* call is the same handler followed by polls until it can return.         *)
(*                                                                         *)
(* st is the state of libTAS (LibTas) with, in addition,                   *)
(*   sock   for each connection socket its status (with "NEW" before it is *)
(*          allocated and "FREED" after free()), st_flags, the two buffer  *)
(*          pieces rx_1 and rx_2 of received data, and ep_events;          *)
(*   lis    the one listening socket: status, the pending accept,          *)
(*          ep_events, and whether its lock is held for ever;              *)
(*   nic    per connection, external: how far the slow path is with it,    *)
(*          the receive credit and the transmit bytes the fast path knows  *)
(*          of, and whether the peer closed;                               *)
(*   got, eof   history: the stream bytes recv returned, and end of stream *)
(*          reported.                                                      *)
(*                                                                         *)
(* Manners names what the application, the peers and the slow path happen  *)
(* to do so that the code works; README.md says what happens otherwise:    *)
(*   "prompt"    data arrives only once the previous data was read;        *)
(*   "confirmed" data that arrives before the application knows of the     *)
(*               connection is polled before the confirmation, or comes    *)
(*               after it;                                                 *)
(*   "polled"    a socket is closed only after a poll that follows the     *)
(*               last transfer on it, or when both directions are closed   *)
(*               and other connections have bumps pending;                 *)
(*   "quiet"     a direction is closed only when all it sent was           *)
(*               acknowledged;                                             *)
(*   "open"      only connected sockets are closed;                        *)
(*   "listening" no peer connects to a listener that is being closed.      *)
(***************************************************************************)
EXTENDS LibTas

CONSTANTS RxTotal,  \* for each connection, the bytes its peer sends
          TxTotal,  \* for each connection, the bytes the application sends
          Accepted, \* the sockets accept4 allocates; connect takes the others
          ArxLen,   \* updates the fast path may have queued
          Refused,  \* requests the slow path may answer with an error
          Manners

VARIABLE st
vars == st

NewSock == [status |-> "NEW", rxclosed |-> FALSE, txclosed |-> FALSE, txack |-> FALSE,
            p1 |-> 0, l1 |-> 0, p2 |-> 0, l2 |-> 0, listener |-> FALSE, ep |-> {}]

NewNic == [s |-> "none", credit |-> RxLen, seen |-> 0, fin |-> FALSE]

Init ==
    st = [kin |-> <<>>, kout |-> <<>>, arx |-> <<>>, atx |-> <<>>,
          first |-> NONE, last |-> NONE, conn |-> [c \in Conns |-> connection_init],
          acked |-> [c \in Conns |-> 0], ev |-> <<>>, short |-> FALSE, abort |-> FALSE,
          sock |-> [c \in Conns |-> NewSock],
          lis |-> [status |-> "SOCKET", pending |-> NONE, ep |-> {}, stuck |-> FALSE],
          nic |-> [c \in Conns |-> NewNic],
          got |-> [c \in Conns |-> <<>>], eof |-> {}]

flextcp_epoll_set(s, c, evts) == [s EXCEPT !.sock[c].ep = @ \cup evts]
flextcp_epoll_clear(s, c, evts) == [s EXCEPT !.sock[c].ep = @ \ evts]

flextcp_sockclose_finish(s, c) == flextcp_connection_close(s, c)

--------------------------------------------------------------------------
(* context.c: the events of a poll. *)

ev_listen_open(s, e) ==
    Check([s EXCEPT !.lis.status = IF e.len = 0 THEN "OPEN" ELSE "FAILED"],
          s.lis.status = "OPENING")

\* socket_lock on a listener whose lock nobody will release
ev_listen_newconn(s) ==
    IF s.lis.status = "CLOSED" THEN [s EXCEPT !.lis.stuck = TRUE]
    ELSE [s EXCEPT !.lis.ep = @ \cup {"IN"}]

\* ev_conn_open; a failed accept is reported with this event too
ev_conn_open(s, e) ==
    Check(flextcp_epoll_set([s EXCEPT !.sock[e.c].status = IF e.len = 0 THEN "CONNECTED" ELSE "FAILED"],
                            e.c, IF e.len = 0 THEN {"OUT"} ELSE {"ERR"}),
          s.sock[e.c].status = "CONNECTING")

ev_listen_accept(s, e) ==
    Check(ev_conn_open([s EXCEPT !.lis.ep = @ \cup {"IN"}], e), s.sock[e.c].listener)

\* at most two pieces; a piece that continues one is appended to it
ev_conn_received(s, e) ==
    LET k == s.sock[e.c]
        piece == IF k.l1 = 0 THEN [k EXCEPT !.p1 = e.pos, !.l1 = e.len, !.l2 = 0]
                 ELSE IF k.l2 = 0 /\ e.pos = k.p1 + k.l1 THEN [k EXCEPT !.l1 = @ + e.len]
                 ELSE IF k.l2 > 0 /\ e.pos = k.p2 + k.l2 THEN [k EXCEPT !.l2 = @ + e.len]
                 ELSE [k EXCEPT !.p2 = e.pos, !.l2 = e.len]
        lost == k.l1 > 0 /\ k.l2 > 0 /\ e.pos # k.p2 + k.l2
    IN IF k.status = "CLOSED" THEN s
       ELSE Check(flextcp_epoll_set([s EXCEPT !.sock[e.c] = piece], e.c, {"IN"}),
                  k.status = "CONNECTED" /\ ~lost)

ev_conn_sendbuf(s, e) ==
    Check(flextcp_epoll_set(s, e.c, {"OUT"}), s.sock[e.c].status = "CONNECTED")

\* a mutant: the close is left to the other direction
NoFinish(s, e) ==
    flextcp_epoll_set([s EXCEPT !.sock[e.c].rxclosed = TRUE], e.c, {"IN", "RDHUP"})

ev_conn_rxclosed(s, e) ==
    LET r == flextcp_epoll_set([s EXCEPT !.sock[e.c].rxclosed = TRUE], e.c, {"IN", "RDHUP"})
        k == s.sock[e.c]
    IN Check(IF k.status = "CLOSED" /\ k.txack THEN flextcp_sockclose_finish(r, e.c) ELSE r,
             k.status \in {"CONNECTED", "CLOSED"})

ev_conn_txclosed(s, e) ==
    LET r == [s EXCEPT !.sock[e.c].txack = TRUE]
        k == s.sock[e.c]
    IN Check(IF k.status = "CLOSED" /\ k.rxclosed THEN flextcp_sockclose_finish(r, e.c) ELSE r,
             k.status \in {"CONNECTED", "CLOSED"})

\* free(s); what the freed memory holds no longer matters
ev_conn_closed(s, e) ==
    Check([s EXCEPT !.sock[e.c] = [NewSock EXCEPT !.status = "FREED"],
                    !.conn[e.c] = [connection_init EXCEPT !.status = "FREED",
                                       !.pending = s.conn[e.c].pending],
                    !.got[e.c] = <<>>, !.eof = @ \ {e.c}, !.acked[e.c] = 0,
                    !.nic[e.c] = [NewNic EXCEPT !.s = "gone"]],
          s.sock[e.c].status = "CLOSED")

Handle(s, e) ==
    CASE e.t = "LISTEN_OPEN" -> ev_listen_open(s, e)
      [] e.t = "LISTEN_NEWCONN" -> ev_listen_newconn(s)
      [] e.t = "LISTEN_ACCEPT" -> ev_listen_accept(s, e)
      [] e.t = "CONN_OPEN" -> ev_conn_open(s, e)
      [] e.t = "RECEIVED" -> ev_conn_received(s, e)
      [] e.t = "SENDBUF" -> ev_conn_sendbuf(s, e)
      [] e.t = "RXCLOSED" -> ev_conn_rxclosed(s, e)
      [] e.t = "TXCLOSED" -> ev_conn_txclosed(s, e)
      [] e.t = "CONN_CLOSED" -> ev_conn_closed(s, e)

RECURSIVE HandleAll(_)
HandleAll(s) ==
    IF s.ev = <<>> \/ s.abort \/ s.lis.stuck THEN [s EXCEPT !.ev = <<>>, !.short = FALSE]
    ELSE HandleAll(Handle([s EXCEPT !.ev = Tail(@)], Head(s.ev)))

flextcp_sockctx_poll(s) == HandleAll(flextcp_context_poll(s))

--------------------------------------------------------------------------
(* The calls of the application.  While tas_listen waits, it only polls. *)

Live == ~st.abort /\ ~st.lis.stuck
Free == Live /\ st.lis.status # "OPENING"
Pending(c) == st.lis.pending = c      \* allocated by accept4, not yet returned by it

\* epoll_wait, or the polling inside any blocking call
Poll == Live /\ st' = flextcp_sockctx_poll(st)

\* tas_socket and tas_connect; a failed socket may connect again
tas_connect(c) ==
    /\ Free /\ ~Pending(c)
    /\ c \notin Accepted /\ st.sock[c].status \in {"NEW", "FAILED"}
    /\ LET o == flextcp_connection_open(st, c) IN
       st' = IF KinFull(st) THEN o
             ELSE [o EXCEPT !.sock[c] = [@ EXCEPT !.status = "CONNECTING", !.listener = FALSE,
                                                  !.l1 = 0, !.l2 = 0],
                            !.nic[c].s = "none"]

tas_listen ==
    /\ Free /\ st.lis.status = "SOCKET"
    /\ st' = IF KinFull(st) THEN st
             ELSE [flextcp_listen_open(st) EXCEPT !.lis.status = "OPENING"]

\* the first call asks the slow path; later ones return the connection
tas_accept4(c) ==
    /\ Free /\ c \in Accepted /\ st.lis.status = "OPEN"
    /\ \/ /\ st.lis.pending = NONE /\ st.sock[c].status = "NEW"
          /\ st' = IF KinFull(st) THEN [st EXCEPT !.abort = TRUE]
                   ELSE [flextcp_listen_accept(st, c) EXCEPT
                            !.sock[c].status = "CONNECTING", !.sock[c].listener = TRUE,
                            !.lis.pending = c, !.lis.ep = @ \ {"IN"}]
       \/ /\ Pending(c)
          /\ st' = IF st.sock[c].status = "CONNECTING" THEN [st EXCEPT !.lis.ep = @ \ {"IN"}]
                   ELSE Check([st EXCEPT !.lis.pending = NONE], st.sock[c].status = "CONNECTED")

\* the stream bytes at len addresses from pos on; -1 is memory never written
Bytes(k, pos, len) ==
    LET at(p) == LET w == {i \in 0..(k.rxw - 1) : i % RxLen = p % RxLen}
                 IN IF w = {} THEN -1 ELSE CHOOSE i \in w : \A j \in w : j <= i
    IN [i \in 1..len |-> at(pos + i - 1)]

\* a mutant: the rest of a piece is read from its start again
CopyAgain(s, c, len) ==
    LET n == Least(s.sock[c].l1, len) IN
    [s EXCEPT !.sock[c].l1 = @ - n, !.got[c] = @ \o Bytes(s.conn[c], s.sock[c].p1, n)]

\* copy up to len bytes out of the pieces, first piece first
Copy(s, c, len) ==
    LET k == s.sock[c]
        whole == k.l1 <= len
        off == IF whole THEN k.l1 ELSE 0
        r == IF whole THEN [k EXCEPT !.p1 = k.p2, !.l1 = k.l2, !.p2 = 0, !.l2 = 0] ELSE k
        n == Least(r.l1, len - off)
    IN [s EXCEPT !.sock[c] = [r EXCEPT !.p1 = IF r.l1 = n THEN 0 ELSE @ + n, !.l1 = @ - n],
                 !.got[c] = @ \o Bytes(s.conn[c], k.p1, off) \o Bytes(s.conn[c], r.p1, n)]

\* a mutant: EPOLLIN is cleared although data is left
ClearsAlways(s, c, ret) ==
    IF ret = 0 THEN [s EXCEPT !.eof = @ \cup {c}]
    ELSE flextcp_connection_rx_done(flextcp_epoll_clear(s, c, {"IN"}), c, ret)

\* after the copy loop; ret bytes were returned
Returned(s, c, ret) ==
    IF ret = 0 THEN [s EXCEPT !.eof = @ \cup {c}]
    ELSE flextcp_connection_rx_done(
            IF s.sock[c].l1 = 0 /\ ~s.sock[c].rxclosed THEN flextcp_epoll_clear(s, c, {"IN"}) ELSE s,
            c, ret)

NoData(s, c) == s.sock[c].l1 = 0 /\ ~s.sock[c].rxclosed

\* recv_simple and tas_recvmsg: buffers are the lengths of the io vector;
\* without data the context is polled once, and EAGAIN returned if need be
tas_recvmsg(c, buffers) ==
    /\ Free /\ ~Pending(c) /\ st.sock[c].status = "CONNECTED"
    /\ LET p == IF NoData(st, c)
                THEN flextcp_sockctx_poll(flextcp_epoll_clear(st, c, {"IN"})) ELSE st
           fill[i \in 0..Len(buffers)] ==
               IF i = 0 THEN p
               ELSE IF fill[i - 1].sock[c].l1 = 0 THEN fill[i - 1]
               ELSE Copy(fill[i - 1], c, buffers[i])
           done == fill[Len(buffers)]
       IN st' = IF p.abort \/ p.lis.stuck \/ NoData(p, c) THEN p
                ELSE Returned(done, c, Len(done.got[c]) - Len(p.got[c]))

\* up to len bytes; without room the context is polled once, then EAGAIN
send_simple(s, c, len) ==
    LET p == IF rq_nbytes_can_reserve(s.conn[c]) > 0 THEN s
             ELSE flextcp_sockctx_poll(flextcp_connection_tx_alloc2(s, c))
        n == Least(len, rq_nbytes_can_reserve(p.conn[c]))
    IN IF p.abort \/ p.lis.stuck \/ n = 0 THEN flextcp_connection_tx_alloc2(p, c)
       ELSE flextcp_connection_tx_send(p, c, n)

\* the bytes of an io vector are one run
tas_sendmsg(c, len) ==
    /\ Free /\ ~Pending(c)
    /\ st.sock[c].status = "CONNECTED" /\ ~st.sock[c].txclosed
    /\ st.conn[c].txe + len <= TxTotal[c]
    /\ st' = send_simple(st, c, len)

Quiet(c) == "quiet" \in Manners => st.conn[c].txe = st.acked[c]
                                   /\ \A i \in 1..Len(st.arx) : st.arx[i].c # c \/ st.arx[i].tx = 0

\* SHUT_WR
tas_shutdown(c) ==
    /\ Free /\ ~Pending(c) /\ Quiet(c)
    /\ st.sock[c].status = "CONNECTED" /\ ~st.sock[c].txclosed
    /\ st' = IF TxCloseFails(st, c) THEN st
             ELSE [flextcp_connection_tx_close(st, c) EXCEPT !.sock[c].txclosed = TRUE]

\* tas_close, tas_sock_close and conn_close of a connection
tas_close(c) ==
    /\ Free /\ ~Pending(c)
    /\ st.sock[c].status \in
          (IF "open" \in Manners THEN {"CONNECTED"} ELSE {"CONNECTING", "CONNECTED", "FAILED"})
    /\ "polled" \in Manners => /\ rq_nbytes_to_flush(st.conn[c]) = 0
                                /\ st.conn[c].pending => /\ st.sock[c].txack /\ st.sock[c].rxclosed
                                                         /\ {st.first, st.last} # {c}
    /\ st.sock[c].txclosed \/ Quiet(c)
    /\ LET s == [st EXCEPT !.sock[c].status = "CLOSED", !.sock[c].ep = {}]
           k == st.sock[c]
       IN st' = IF k.txack /\ k.rxclosed THEN flextcp_sockclose_finish(s, c)
                ELSE IF k.txclosed THEN s
                ELSE Check([flextcp_connection_tx_close(s, c) EXCEPT !.sock[c].txclosed = TRUE],
                           ~TxCloseFails(s, c))

\* tas_close of a listener: nothing is told the slow path, the lock stays held
CloseListener ==
    /\ Free /\ st.lis.status = "OPEN"
    /\ "listening" \in Manners => \A i \in 1..Len(st.kout) : st.kout[i].t # "LISTEN_NEWCONN"
    /\ st' = [st EXCEPT !.lis.status = "CLOSED"]

--------------------------------------------------------------------------
(* The slow path (SlowTcp), as its answers show it. *)

SlowTake ==
    /\ Live /\ st.kin # <<>>
    /\ LET m == Head(st.kin)
           s == [st EXCEPT !.kin = Tail(@)]
           failed(k) == IF k \in Refused THEN {0, 1} ELSE {0}
       IN CASE m.t = "LISTEN_OPEN" ->
                 \E f \in failed("listen") :
                    st' = [s EXCEPT !.kout = Append(@, [t |-> "LISTEN_OPEN", c |-> NONE, status |-> f])]
            [] m.t = "CONN_OPEN" ->
                 \E f \in failed("open") :
                    st' = IF f = 0 THEN [s EXCEPT !.nic[m.c].s = "asked"]
                          ELSE [s EXCEPT !.kout = Append(@, [t |-> "CONN_OPENED", c |-> m.c, status |-> 1])]
            [] m.t = "ACCEPT_CONN" ->
                 \E f \in failed("accept") :
                    st' = IF f = 0 THEN [s EXCEPT !.nic[m.c].s = "asked"]
                          ELSE [s EXCEPT !.kout = Append(@, [t |-> "CONN_OPENED", c |-> m.c, status |-> 1])]
            [] m.t = "CONN_CLOSE" ->
                 st' = [s EXCEPT !.nic[m.c].s = "gone",
                                 !.kout = Append(@, [t |-> "CONN_CLOSED", c |-> m.c, status |-> 0])]

\* a SYN for the listener: at most one notification is waiting to be polled
SlowNewconn ==
    /\ Live /\ st.lis.status \in (IF "listening" \in Manners THEN {"OPEN"} ELSE {"OPEN", "CLOSED"})
    /\ \A i \in 1..Len(st.kout) : st.kout[i].t # "LISTEN_NEWCONN"
    /\ "IN" \notin st.lis.ep
    /\ \E c \in Accepted : st.sock[c].status = "NEW" \/ Pending(c)
    /\ st' = [st EXCEPT !.kout = Append(@, [t |-> "LISTEN_NEWCONN", c |-> NONE, status |-> 0])]

\* the handshake is done: the fast path gets the connection ...
SlowInstall(c) ==
    /\ Live /\ st.nic[c].s = "asked"
    /\ st' = [st EXCEPT !.nic[c].s = "installed"]

\* ... and then the application is told
SlowConfirm(c) ==
    /\ Live /\ st.nic[c].s = "installed"
    /\ "confirmed" \in Manners => \A i \in 1..Len(st.arx) : st.arx[i].c # c
    /\ st' = [st EXCEPT !.nic[c].s = "open",
                        !.kout = Append(@, [t |-> IF st.sock[c].listener THEN "ACCEPTED_CONN"
                                                  ELSE "CONN_OPENED", c |-> c, status |-> 0])]

--------------------------------------------------------------------------
(* The fast path and the peer. *)

Update(c, n, t, e) == [c |-> c, rx |-> n, tx |-> t, eos |-> e]
Unread(c) == st.conn[c].rxw > st.conn[c].rxr
Told(c) == "confirmed" \in Manners =>
             st.nic[c].s = "installed" \/ st.conn[c].status \notin {"OPEN_REQUESTED", "ACCEPT_REQUESTED"}

\* n bytes, possibly with the peer's FIN, are in the receive ring
FastReceive(c, n, fin) ==
    /\ Live /\ st.nic[c].s \in {"installed", "open"} /\ ~st.nic[c].fin
    /\ Len(st.arx) < ArxLen /\ Told(c)
    /\ n > 0 \/ fin
    /\ n <= st.nic[c].credit /\ st.conn[c].rxw + n <= RxTotal[c]
    /\ "prompt" \in Manners /\ n > 0 => ~Unread(c)
    /\ st' = [st EXCEPT !.conn[c].rxw = @ + n,
                        !.nic[c].credit = @ - n, !.nic[c].fin = fin,
                        !.arx = Append(@, Update(c, n, 0, fin))]

\* fast_flows_bump: credit is given back, and everything flushed is to be sent
FastBump ==
    /\ Live /\ st.atx # <<>>
    /\ LET m == Head(st.atx) IN
       st' = [st EXCEPT !.atx = Tail(@), !.nic[m.c].credit = @ + m.rx,
                        !.nic[m.c].seen = st.conn[m.c].txf]

\* the peer acknowledges n bytes; the last of all is the FIN of the connection
FastAck(c, n) ==
    /\ Live /\ st.nic[c].s = "open" /\ Len(st.arx) < ArxLen
    /\ st.acked[c] + n <= st.nic[c].seen
    /\ st' = [st EXCEPT !.acked[c] = @ + n, !.arx = Append(@, Update(c, 0, n, FALSE))]

Call(c) ==
    \/ tas_connect(c) \/ tas_accept4(c) \/ tas_shutdown(c) \/ tas_close(c)
    \/ \E b \in {<<1>>, <<2>>, <<1, 1>>} : tas_recvmsg(c, b)
    \/ \E n \in 1..TxTotal[c] : tas_sendmsg(c, n)

Next ==
    \/ Poll \/ tas_listen \/ CloseListener
    \/ \E c \in Conns : Call(c)
    \/ SlowTake \/ SlowNewconn \/ FastBump
    \/ \E c \in Conns : SlowInstall(c) \/ SlowConfirm(c)
    \/ \E c \in Conns : \E n \in 0..RxTotal[c], fin \in BOOLEAN : FastReceive(c, n, fin)
    \/ \E c \in Conns : \E n \in 1..(TxTotal[c] + 1) : FastAck(c, n)

Spec == Init /\ [][Next]_vars

--------------------------------------------------------------------------
(* Properties. *)

\* No assertion of libTAS or of the sockets layer fails and no abort() is
\* reached, whatever order the slow and the fast path answer in.
NeverAborts == ~st.abort

\* recv returns the bytes of the peer's stream, each once and in order, across
\* the wrap of the ring, the split into two pieces and updates that arrive
\* before the connection is confirmed (context.c ev_conn_received); it returns 0
\* only when the peer closed and all it sent was returned.
RecvInOrder ==
    /\ \A c \in Conns : st.got[c] = [i \in 1..Len(st.got[c]) |-> i - 1]
    /\ \A c \in st.eof : st.nic[c].fin /\ Len(st.got[c]) = st.conn[c].rxw

\* The bump list is what conns_bump needs: the connections marked pending, no
\* other, none of them closed, with the last one at bump_pending_last; and what
\* the application sent and the NIC has not got is on its way, because an open
\* connection with bytes to flush is on the list.
BumpListExact ==
    /\ BumpList(st) = {c \in Conns : st.conn[c].pending}
    /\ \A c \in BumpList(st) : st.conn[c].status = "OPEN"
    /\ IF st.first = NONE THEN st.last = NONE
       ELSE st.last \in BumpList(st) /\ st.conn[st.last].next = NONE
    /\ \A c \in Conns : st.conn[c].status = "OPEN" /\ rq_nbytes_to_flush(st.conn[c]) > 0
                          => c \in BumpList(st)

\* Readiness is never lost: a connection with data or an end of stream to read
\* has EPOLLIN set, a listener with a finished accept too.
ReadyIsSet ==
    /\ \A c \in Conns : st.sock[c].status = "CONNECTED" /\ ~NoData(st, c) => "IN" \in st.sock[c].ep
    /\ st.lis.pending # NONE /\ st.sock[st.lis.pending].status = "CONNECTED" => "IN" \in st.lis.ep

\* No call is forgotten.  A connecting socket has its request or its answer
\* underway.  A closed one, so that it is freed in the end, has its close with
\* the slow path, or its FIN on the way out or back, or the peer has not closed
\* or the news of it is queued (control.c tas_connect, tas_accept4, conn_close,
\* context.c ev_conn_rxclosed, ev_conn_txclosed, init.c kernel_poll, conns_bump).
Driven ==
    LET queued(q, c, has(_)) == \E i \in 1..Len(q) : q[i].c = c /\ has(q[i]) IN
    \A c \in Conns :
        /\ st.sock[c].status = "CONNECTING" =>
            \/ queued(st.kin, c, LAMBDA m : m.t \in {"CONN_OPEN", "ACCEPT_CONN"})
            \/ st.nic[c].s \in {"asked", "installed"}
            \/ queued(st.kout, c, LAMBDA m : m.t \in {"CONN_OPENED", "ACCEPTED_CONN"})
        /\ st.sock[c].status = "CLOSED" =>
            \/ queued(st.kin, c, LAMBDA m : m.t = "CONN_CLOSE")
            \/ queued(st.kout, c, LAMBDA m : m.t = "CONN_CLOSED")
            \/ /\ ~st.sock[c].txack
               /\ \/ c \in BumpList(st)
                  \/ queued(st.atx, c, LAMBDA m : m.txdone)
                  \/ st.nic[c].s = "open" /\ st.acked[c] < st.nic[c].seen
                  \/ queued(st.arx, c, LAMBDA m : m.tx > 0)
            \/ /\ ~st.sock[c].rxclosed
               /\ ~st.nic[c].fin \/ queued(st.arx, c, LAMBDA m : m.eos)

\* Closing a listener costs memory, not the thread that polls: no event makes
\* it wait for a lock nobody will release (control.c tas_sock_close, "(leak)").
PollReturns == ~st.lis.stuck
=============================================================================
