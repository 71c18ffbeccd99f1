------------------------------- MODULE SlowTcp -------------------------------
(***************************************************************************)
(* Connection management in the slow path (src/tas_nic/slow/tcp.c) with    *)
(* what its handlers call: the application queues (appif_ctx.c), flow ids  *)
(* and flow entries (nicif.c), the congestion-control list (cc.c), ARP and *)
(* routing (arp.c, routing.c), and the armed timeouts.  The slow path is   *)
(* one thread, so a handler is one action: a request taken from a context, *)
(* a packet, an expired timeout, a poll.                                   *)
(*                                                                         *)
(* The state of the thread is the record k, and every function of the code *)
(* that changes it is an operator from k to k, so that an action composes  *)
(* them in the order in which the code calls them.  A connection is an     *)
(* address of the pool Conns; free() keeps the content of the address, as  *)
(* the build's allocator does, so a stale pointer reads what was there     *)
(* until the address is used again.                                        *)
(***************************************************************************)
EXTENDS Integers, Sequences, FiniteSets, SequencesExt

CONSTANTS
  NULL,
  Conns,         \* addresses for struct connection, as many as packet memory has buffers for
  Handles,       \* opaque values of the application: its connections, each used once
  Ctxs,          \* application contexts
  Listeners,     \* listening sockets of the application, all on ListenPort
  Peers,         \* remote endpoints, each with an IP address of its own
  Servers,       \* the peers the application connects to
  Unrouted,      \* the peers no routing table entry matches
  TsPeers,       \* the peers that use the timestamp option
  EcnPeers,      \* the peers whose SYN offers ECN
  HashOne,       \* the peers whose listener hash is odd
  ListenPort, Ephemeral,  \* local ports
  MultiMax,      \* LISTEN_MULTI_MAX
  CcBatch,       \* connections a cc_poll looks at (128)
  BacklogLen, KoutLen,    \* capacity of a backlog and of a context's queue to the application
  Retries, ArpRetries,    \* config.tcp_handshake_retries; doublings from arp_to to arp_to_max
  SlotsMayFail   \* whether flow_slot_alloc may find no slot

ASSUME SlowTcpAssumption ==
  /\ NULL \notin Conns /\ IsFiniteSet(Conns)
  /\ Servers \subseteq Peers /\ TsPeers \subseteq Peers /\ EcnPeers \subseteq Peers
  /\ ListenPort \notin Ephemeral
  /\ {BacklogLen, KoutLen, MultiMax, CcBatch} \subseteq Nat \ {0} /\ {Retries, ArpRetries} \subseteq Nat

FlowIds == 1 .. Cardinality(Conns)
Clients == Peers \ Servers
Live == {"ARP_PENDING", "SYN_SENT", "REG_SYNACK", "OPEN", "CLOSED"}

VARIABLES
  k,      \* the state of the slow path
  appst,  \* what libTAS knows of each handle
  peer    \* whether a client's handshake is done

vars == <<k, appst, peer>>
-----------------------------------------------------------------------------
(* Singly linked lists of connections, through a next pointer.  A walk     *)
(* that has not met NULL after Cardinality(Conns) steps never does.        *)

Walk(head, next) ==
  LET w[i \in 0 .. Cardinality(Conns)] ==
        IF i = 0 THEN head ELSE IF w[i-1] = NULL THEN NULL ELSE next[w[i-1]]
  IN  w

Ends(head, next) == Walk(head, next)[Cardinality(Conns)] = NULL

Linked(head, next) == {Walk(head, next)[i] : i \in 0 .. Cardinality(Conns)} \ {NULL}

Fail(s, why) == [s EXCEPT !.crash = IF @ = "none" THEN why ELSE @]

\* How a search through a list that finds nothing ends: at NULL, with abort(), or never.
NotFound(s, head, next) == Fail(s, IF Ends(head, next) THEN "abort" ELSE "hang")

\* The pointer that leads to c: the first element whose next pointer is c.
Before(head, next, c) ==
  LET w == Walk(head, next)
      P == {i \in DOMAIN w : w[i] # NULL /\ next[w[i]] = c}
  IN  IF P = {} THEN NULL ELSE w[CHOOSE i \in P : \A j \in P : i <= j]
-----------------------------------------------------------------------------
(* Messages to the application.  Without room, the messages that answer a  *)
(* request are dropped (the handle is noted in lost), except for accepted  *)
(* connections, where enqueue_and_flush_kout aborts.                       *)

Room(s, x) == Len(s.kout[x]) < KoutLen

enqueue_and_flush_kout(s, x, m) ==
  IF Room(s, x) THEN [s EXCEPT !.kout[x] = Append(@, m)] ELSE Fail(s, "koutfull")

Blank == [status |-> "FREE", opaque |-> NULL, ctx |-> NULL, remote |-> NULL, local_port |-> NULL,
          to_armed |-> FALSE, to_attempts |-> 0, flow_id |-> NULL, comp |-> 0]

\* Of the content that stays, only what a stale pointer can reach matters.
conn_free(s, c) == [s EXCEPT !.conn[c] = [Blank EXCEPT !.opaque = s.conn[c].opaque]]

tcp_destroy(s, c) ==
  IF s.conn[c].status = "FAILED" THEN conn_free(s, c) ELSE Fail(s, "assert")

appif_conn_opened(s, c, status) ==
  LET x == s.conn[c].ctx
      m == [type |-> "opened", h |-> s.conn[c].opaque, status |-> status]
  IN  IF ~Room(s, x) THEN [s EXCEPT !.lost = @ \cup {m.h}]
      ELSE enqueue_and_flush_kout(IF status = 0 THEN s ELSE tcp_destroy(s, c), x, m)

appif_conn_closed(s, c) ==
  LET x == s.conn[c].ctx
      m == [type |-> "closed", h |-> s.conn[c].opaque, status |-> 0]
      t == enqueue_and_flush_kout(s, x, m)
      b == Before(t.apps, t.app_next, c)
  IN  IF ~Room(s, x) THEN [s EXCEPT !.lost = @ \cup {m.h}]
      ELSE IF t.apps = c THEN [t EXCEPT !.apps = t.app_next[c]]
      ELSE IF b = NULL THEN NotFound(t, t.apps, t.app_next)
      ELSE [t EXCEPT !.app_next[b] = t.app_next[c]]

appif_listen_newconn(s, l) ==
  IF Room(s, s.lst[l].ctx)
  THEN enqueue_and_flush_kout(s, s.lst[l].ctx, [type |-> "newconn", h |-> l, status |-> 0])
  ELSE s

AppPush(s, c) == [s EXCEPT !.app_next[c] = s.apps, !.apps = c]

appif_accept_conn(s, c) ==
  enqueue_and_flush_kout(AppPush(s, c), s.conn[c].ctx,
    [type |-> "accepted", h |-> s.conn[c].opaque, status |-> 0])
-----------------------------------------------------------------------------
(* Timeouts, the hash table of connections, the congestion-control list,   *)
(* and the flows of the fast path.                                         *)

conn_timeout_arm(s, c, type) ==
  IF s.conn[c].to_armed THEN Fail(s, "assert")
  ELSE [s EXCEPT !.conn[c].to_armed = TRUE, !.timer[c] = type]

conn_timeout_disarm(s, c) ==
  IF ~s.conn[c].to_armed THEN Fail(s, "assert")
  ELSE [s EXCEPT !.conn[c].to_armed = FALSE, !.timer[c] = "none"]

conn_register(s, c) == [s EXCEPT !.tcp_hashtable = @ \cup {c}]

conn_unregister(s, c) ==
  IF c \in s.tcp_hashtable THEN [s EXCEPT !.tcp_hashtable = @ \ {c}] ELSE Fail(s, "abort")

conn_lookup(s, p, port) ==
  {c \in s.tcp_hashtable : s.conn[c].remote = p /\ s.conn[c].local_port = port}

\* Mutant: the application is not told.
FailedQuietly(s, c) ==
  LET t == conn_unregister(s, c)
      u == IF t.conn[c].to_armed THEN conn_timeout_disarm(t, c) ELSE t
  IN  [u EXCEPT !.conn[c].status = "FAILED"]
conn_failed(s, c) ==
  LET t == conn_unregister(s, c)
      u == IF t.conn[c].to_armed THEN conn_timeout_disarm(t, c) ELSE t
  IN  appif_conn_opened([u EXCEPT !.conn[c].status = "FAILED"], c, -1)

cc_conn_init(s, c) == [s EXCEPT !.cc_next[c] = s.cc_conns, !.cc_conns = c]

\* Mutant: next_conn is left alone.
RemoveKeepsNext(s, c) ==
  LET b == Before(s.cc_conns, s.cc_next, c)
  IN  IF s.cc_conns = c THEN [s EXCEPT !.cc_conns = s.cc_next[c]]
      ELSE IF b = NULL THEN NotFound(s, s.cc_conns, s.cc_next)
      ELSE [s EXCEPT !.cc_next[b] = s.cc_next[c]]
cc_conn_remove(s, c) ==
  LET t == [s EXCEPT !.next_conn = IF @ = c THEN s.cc_next[c] ELSE @]
      b == Before(t.cc_conns, t.cc_next, c)
  IN  IF t.cc_conns = c THEN [t EXCEPT !.cc_conns = t.cc_next[c]]
      ELSE IF b = NULL THEN NotFound(t, t.cc_conns, t.cc_next)
      ELSE [t EXCEPT !.cc_next[b] = t.cc_next[c]]

\* Fails without a flow id, or (ok = FALSE) without a slot in the flow hash table.
CanInstall(s, ok) == s.flow_ids # <<>> /\ ok

nicif_connection_add(s, c) ==
  [s EXCEPT !.conn[c].flow_id = Head(s.flow_ids), !.flow_ids = Tail(@),
            !.slots = @ \cup {Head(s.flow_ids)},
            !.db[Head(s.flow_ids)] = s.conn[c].ctx]

\* Mutant: the entry of the flow hash table stays.
DisableKeepsSlot(s, c) == s
nicif_connection_disable(s, c) == [s EXCEPT !.slots = @ \ {s.conn[c].flow_id}]

nicif_connection_free(s, c) == [s EXCEPT !.flow_ids = <<s.conn[c].flow_id>> \o @]
-----------------------------------------------------------------------------
(* Handshake of a connection the application opens.                        *)

conn_arp_done(s, c) ==
  conn_timeout_arm([s EXCEPT !.conn[c].status = "SYN_SENT", !.conn[c].to_attempts = 0],
                   c, "HANDSHAKE")

NoEntry == [status |-> "none", armed |-> FALSE, tries |-> 0, compl |-> <<>>]

\* arp_request for the next hop: answered at once, or c joins the waiters of the entry.
ArpWait(s, c, p) ==
  [s EXCEPT !.arp[p] = IF @.status = "none"
                       THEN [status |-> "pending", armed |-> TRUE, tries |-> 0, compl |-> <<c>>]
                       ELSE [@ EXCEPT !.compl = <<c>> \o @]]

tcp_open(s, c, h, x, p, port) ==
  LET t == conn_register([s EXCEPT !.conn[c] =
             [@ EXCEPT !.status = "ARP_PENDING", !.opaque = h, !.ctx = x, !.remote = p,
                       !.local_port = port, !.to_armed = FALSE, !.comp = 0]], c)
      u == IF s.arp[p].status = "ready" THEN conn_arp_done(t, c) ELSE ArpWait(t, c, p)
  IN  [u EXCEPT !.ports[port].type = "CONN"]

\* ok: whether the flow hash table has a slot.
conn_syn_sent_packet(s, c, f, p, ok) ==
  LET t == conn_timeout_disarm(s, c)
      u == cc_conn_init(t, c)
      v == [nicif_connection_add(u, c) EXCEPT !.conn[c].status = "OPEN"]
  IN  IF f # "SYNACK" \/ p \notin TsPeers THEN conn_failed(t, c)
      ELSE IF ~CanInstall(u, ok) THEN conn_failed(u, c)
      ELSE appif_conn_opened(v, c, 0)

conn_reg_synack(s, c) == appif_accept_conn([s EXCEPT !.conn[c].status = "OPEN"], c)

\* One completion of conn_async_q.
Completed(s, c) ==
  IF s.conn[c].status \notin {"ARP_PENDING", "REG_SYNACK"} THEN s
  ELSE IF s.conn[c].comp # 0 THEN conn_failed(s, c)
  ELSE IF s.conn[c].status = "ARP_PENDING" THEN conn_arp_done(s, c)
  ELSE conn_reg_synack(s, c)

conn_close_timeout(s, c) ==
  LET port == s.conn[c].local_port
      t == conn_unregister([s EXCEPT !.ports[port].type = IF @ = "CONN" THEN "UNUSED" ELSE @], c)
  IN  conn_free(appif_conn_closed(nicif_connection_free(t, c), c), c)

tcp_timeout(s, c) ==
  LET type == s.timer[c]
      t == [s EXCEPT !.timer[c] = "none", !.conn[c].to_armed = FALSE]
      u == [t EXCEPT !.conn[c].to_attempts = @ + 1]
  IN  IF ~s.conn[c].to_armed THEN Fail(s, "assert")
      ELSE IF type = "CLOSED" THEN conn_close_timeout(t, c)
      ELSE IF s.conn[c].status # "SYN_SENT" THEN Fail(t, "abort")
      ELSE IF u.conn[c].to_attempts > Retries THEN conn_failed(u, c)
      ELSE conn_timeout_arm(u, c, "HANDSHAKE")

tcp_close(s, c) ==
  LET t == cc_conn_remove(nicif_connection_disable(s, c), c)
  IN  conn_timeout_arm([t EXCEPT !.conn[c].status = "CLOSED"], c, "CLOSED")
-----------------------------------------------------------------------------
(* Listeners: SYNs wait in the backlog, accept requests in wait_conns.     *)

listener_lookup(s, p) ==
  LET pt == s.ports[ListenPort]
      hash == IF p \in HashOne THEN 1 ELSE 0
  IN  IF pt.type = "LMULTI" THEN {pt.ls[(hash % Len(pt.ls)) + 1]}
      ELSE IF pt.type = "LISTEN" THEN {pt.ls[1]}
      ELSE {}

listener_accept(s, l, ok) ==
  LET c == Head(s.lst[l].wait)
      p == Head(s.lst[l].backlog)
      t == [cc_conn_init(s, c) EXCEPT
             !.conn[c] = [@ EXCEPT !.status = "REG_SYNACK", !.remote = p,
                                   !.local_port = ListenPort, !.comp = 0]]
      u == conn_register(nicif_connection_add(t, c), c)
      v == IF p \notin TsPeers THEN [s EXCEPT !.skipped = @ \cup {l}]
           ELSE IF ~CanInstall(t, ok) THEN t
           ELSE [u EXCEPT !.lst[l].wait = Tail(@), !.async_q = Append(@, c)]
  IN  [v EXCEPT !.lst[l].backlog = Tail(@)]

\* Mutant: no search for the 4-tuple.
QueuedAgain(s, l, p, ok) ==
  LET t == appif_listen_newconn([s EXCEPT !.lst[l].backlog = Append(@, p)], l)
  IN  IF Len(s.lst[l].backlog) = BacklogLen THEN s
      ELSE IF t.lst[l].wait # <<>> THEN listener_accept(t, l, ok)
      ELSE t
listener_packet(s, l, p, ok) ==
  LET bl == s.lst[l].backlog
      t  == appif_listen_newconn([s EXCEPT !.lst[l].backlog = Append(@, p)], l)
  IN  IF p \in ToSet(bl) \/ Len(bl) = BacklogLen THEN s
      ELSE IF t.lst[l].wait # <<>> THEN listener_accept(t, l, ok)
      ELSE t

\* Mutant: the backlog is not looked at.
AcceptWaits(s, c, h, x, l, ok) ==
  [s EXCEPT !.conn[c] = [@ EXCEPT !.status = "SYN_WAIT", !.opaque = h, !.ctx = x,
                                  !.local_port = ListenPort, !.to_armed = FALSE],
            !.lst[l].wait = <<c>> \o @]
tcp_accept(s, c, h, x, l, ok) ==
  LET t == [s EXCEPT !.conn[c] = [@ EXCEPT !.status = "SYN_WAIT", !.opaque = h, !.ctx = x,
                                           !.local_port = ListenPort, !.to_armed = FALSE],
                     !.lst[l].wait = <<c>> \o @]
  IN  IF t.lst[l].backlog # <<>> THEN listener_accept(t, l, ok) ELSE t

tcp_listen(s, l, x, reuse) ==
  LET type == s.ports[ListenPort].type
      ls   == s.ports[ListenPort].ls
      ok   == \/ type = "UNUSED"
              \/ reuse /\ type = "LMULTI" /\ Len(ls) < MultiMax
      t    == [s EXCEPT !.lst[l] = [state |-> "open", ctx |-> x, backlog |-> <<>>, wait |-> <<>>],
                        !.ports[ListenPort] = [type |-> IF reuse THEN "LMULTI" ELSE "LISTEN",
                                               ls |-> Append(ls, l)]]
  IN  IF ok THEN t ELSE [s EXCEPT !.lst[l].state = "failed"]
-----------------------------------------------------------------------------
(* Requests.  appif_ctx_poll takes one only when the answer would fit.     *)

Respond(s, x, type, h, status) ==
  enqueue_and_flush_kout(s, x, [type |-> type, h |-> h, status |-> status])

Request(h, x, from, to) ==
  /\ appst[h].st = from /\ Room(k, x)
  /\ appst' = [appst EXCEPT ![h] = [st |-> to, ctx |-> x]]
  /\ UNCHANGED peer

FreeConns == {c \in Conns : k.conn[c].status = "FREE"}
FreePorts == {e \in Ephemeral : k.ports[e].type = "UNUSED"}

\* tcp_open fails without a connection, a port or a route.
kin_conn_open(h, x, p) ==
  /\ Request(h, x, "idle", "opening")
  /\ \/ \E c \in FreeConns, e \in FreePorts :
          p \notin Unrouted /\ k' = AppPush(tcp_open(k, c, h, x, p, e), c)
     \/ /\ FreeConns = {} \/ FreePorts = {} \/ p \in Unrouted
        /\ k' = Respond(k, x, "opened", h, -1)

kin_accept_conn(h, x, l, ok) ==
  /\ k.lst[l].state = "open"
  /\ Request(h, x, "idle", "accepting")
  /\ \/ \E c \in FreeConns : k' = tcp_accept(k, c, h, x, l, ok)
     \/ FreeConns = {} /\ k' = Respond(k, x, "accepted", h, -1)

kin_listen_open(l, x, reuse) ==
  /\ k.lst[l].state = "none" /\ Room(k, x)
  /\ LET t == tcp_listen(k, l, x, reuse)
     IN  k' = Respond(t, x, "listen", l, IF t.lst[l].state = "open" THEN 0 ELSE -1)
  /\ UNCHANGED <<appst, peer>>

\* The connection of the application's list with this handle.
Find(h) == {c \in Linked(k.apps, k.app_next) : k.conn[c].opaque = h}

kin_conn_close(h, x) ==
  /\ Request(h, x, "open", "closing")
  /\ \/ \E c \in Find(h) :
          k' = IF k.conn[c].status = "OPEN" THEN tcp_close(k, c)
               ELSE Respond(k, x, "closed", h, -1)
     \/ /\ Find(h) = {}
        /\ k' = IF Ends(k.apps, k.app_next) THEN Respond(k, x, "closed", h, -1)
                ELSE Fail(k, "hang")

kin_conn_move(h, x) ==
  /\ Request(h, x, "open", "open")
  /\ \/ \E c \in Find(h) :
          k' = IF k.conn[c].status = "OPEN"
               THEN Respond([k EXCEPT !.db[k.conn[c].flow_id] = x], x, "move", h, 0)
               ELSE Respond(k, x, "move", h, -1)
     \/ /\ Find(h) = {}
        /\ k' = IF Ends(k.apps, k.app_next) THEN Respond(k, x, "move", h, -1)
                ELSE Fail(k, "hang")

\* libTAS takes a message from its queue.
AppPoll(x) ==
  /\ k.kout[x] # <<>>
  /\ LET m == Head(k.kout[x])
     IN  appst' = IF m.h \notin Handles \/ m.type = "move" THEN appst
                  ELSE [appst EXCEPT ![m.h].st = IF m.status # 0 THEN "failed"
                                                 ELSE IF m.type = "closed" THEN "closed" ELSE "open"]
  /\ k' = [k EXCEPT !.kout[x] = Tail(@)]
  /\ UNCHANGED peer
-----------------------------------------------------------------------------
(* Packets and timeouts.  A packet the code only answers, or drops, leaves *)
(* the state as it is; a SYN-ACK may be lost.                              *)

\* A SYN, first or again.  conn_packet answers one for an open connection,
\* but only if its flags are exactly SYN.
RxSyn(p, ok, delivered) ==
  LET cs == conn_lookup(k, p, ListenPort)
      answer == \E c \in cs : k.conn[c].status = "OPEN" /\ p \notin EcnPeers
  IN  /\ \/ \E c \in cs :
              k' = IF answer /\ p \notin TsPeers THEN conn_failed(k, c) ELSE k
         \/ cs = {} /\ \E l \in listener_lookup(k, p) : k' = listener_packet(k, l, p, ok)
      /\ peer' = [peer EXCEPT ![p] = IF @ = "idle" THEN "synsent"
                                     ELSE IF answer /\ delivered THEN "estab" ELSE @]
      /\ UNCHANGED appst

\* A packet of a server, for a connection that waits for a SYN-ACK.
RxReply(p, f, ok) ==
  \E e \in Ephemeral : \E c \in conn_lookup(k, p, e) :
    /\ k.conn[c].status = "SYN_SENT"
    /\ k' = conn_syn_sent_packet(k, c, f, p, ok)
    /\ UNCHANGED <<appst, peer>>

Complete(s, cs, status) ==
  LET mark(t, c) == [t EXCEPT !.conn[c].comp = status, !.async_q = Append(@, c)]
  IN  FoldLeft(mark, s, cs)

arp_packet(p) ==
  /\ k.arp[p].status # "none"
  /\ LET t == Complete(k, k.arp[p].compl, 0)
     IN  k' = [t EXCEPT !.arp[p] = [status |-> "ready", armed |-> FALSE, tries |-> 0,
                                    compl |-> <<>>]]
  /\ UNCHANGED <<appst, peer>>

arp_timeout(p) ==
  /\ k.arp[p].armed
  /\ LET t == Complete(k, k.arp[p].compl, -1)
     IN  k' = IF k.arp[p].status = "ready" THEN Fail(k, "abort")
              ELSE IF k.arp[p].tries < ArpRetries THEN [k EXCEPT !.arp[p].tries = @ + 1]
              ELSE [t EXCEPT !.arp[p] = NoEntry]
  /\ UNCHANGED <<appst, peer>>

Timeout(c) ==
  /\ k.timer[c] # "none"
  /\ k' = tcp_timeout(k, c)
  /\ UNCHANGED <<appst, peer>>

tcp_poll(delivered) ==
  /\ k.async_q # <<>>
  /\ k' = FoldLeft(Completed, [k EXCEPT !.async_q = <<>>], k.async_q)
  /\ peer' = [p \in Peers |->
                IF p \in delivered /\ \E c \in ToSet(k.async_q) :
                     k.conn[c].status = "REG_SYNACK" /\ k.conn[c].remote = p
                THEN "estab" ELSE peer[p]]
  /\ UNCHANGED appst

\* The walk over the list goes on where the last one stopped.
cc_poll ==
  LET first == IF k.next_conn # NULL THEN k.next_conn ELSE k.cc_conns
      w[i \in 0 .. CcBatch] ==
        IF i = 0 THEN first
        ELSE IF k.cc_next[w[i-1]] # NULL THEN k.cc_next[w[i-1]] ELSE k.cc_conns
      stop == {i \in 1 .. CcBatch : w[i] = first} \cup {CcBatch}
  IN  /\ first # NULL
      /\ k' = [k EXCEPT !.next_conn = w[CHOOSE i \in stop : \A j \in stop : i <= j]]
      /\ UNCHANGED <<appst, peer>>
-----------------------------------------------------------------------------
Init ==
  /\ k = [conn   |-> [c \in Conns |-> Blank],
          tcp_hashtable |-> {}, timer |-> [c \in Conns |-> "none"],
          cc_conns |-> NULL, cc_next |-> [c \in Conns |-> NULL], next_conn |-> NULL,
          apps |-> NULL, app_next |-> [c \in Conns |-> NULL],
          flow_ids |-> [i \in FlowIds |-> i], slots |-> {}, db |-> [f \in FlowIds |-> NULL],
          ports  |-> [e \in Ephemeral \cup {ListenPort} |-> [type |-> "UNUSED", ls |-> <<>>]],
          lst    |-> [l \in Listeners |->
                        [state |-> "none", ctx |-> NULL, backlog |-> <<>>, wait |-> <<>>]],
          arp    |-> [p \in Servers |-> NoEntry],
          async_q |-> <<>>, kout |-> [x \in Ctxs |-> <<>>],
          crash  |-> "none", lost |-> {}, skipped |-> {}]
  /\ appst = [h \in Handles |-> [st |-> "idle", ctx |-> NULL]]
  /\ peer = [p \in Peers |-> "idle"]

Oks == IF SlotsMayFail THEN BOOLEAN ELSE {TRUE}

Next ==
  /\ k.crash = "none"
  /\ \/ \E h \in Handles, x \in Ctxs :
          \/ \E p \in Servers : kin_conn_open(h, x, p)
          \/ \E l \in Listeners, ok \in Oks : kin_accept_conn(h, x, l, ok)
          \/ kin_conn_close(h, x)
          \/ kin_conn_move(h, x)
     \/ \E l \in Listeners, x \in Ctxs, reuse \in BOOLEAN : kin_listen_open(l, x, reuse)
     \/ \E x \in Ctxs : AppPoll(x)
     \/ \E p \in Clients, ok \in Oks, delivered \in BOOLEAN : RxSyn(p, ok, delivered)
     \/ \E p \in Servers, f \in {"SYNACK", "OTHER"}, ok \in Oks : RxReply(p, f, ok)
     \/ \E p \in Servers : arp_packet(p) \/ arp_timeout(p)
     \/ \E c \in Conns : Timeout(c)
     \/ \E delivered \in SUBSET Clients : tcp_poll(delivered)
     \/ cc_poll

\* The main loop polls the contexts, the completions and the timeouts for
\* ever; libTAS keeps polling its queues; nothing is assumed of packets.
Fairness ==
  /\ \A x \in Ctxs : WF_vars(k.crash = "none" /\ AppPoll(x))
  /\ \A p \in Servers : WF_vars(k.crash = "none" /\ arp_timeout(p))
  /\ \A c \in Conns : WF_vars(k.crash = "none" /\ Timeout(c))
  /\ WF_vars(k.crash = "none" /\ \E delivered \in SUBSET Clients : tcp_poll(delivered))

Spec == Init /\ [][Next]_vars /\ Fairness

\* A client retransmits its SYN until the answer arrives, and a SYN-ACK sent
\* again and again arrives in the end.
SpecFairNet ==
  Spec /\ \A p \in Clients : SF_vars(k.crash = "none" /\ RxSyn(p, TRUE, TRUE))
-----------------------------------------------------------------------------
(* Properties.                                                             *)

In(S) == {c \in Conns : k.conn[c].status \in S}

TypeOK ==
  /\ \A c \in Conns : k.conn[c].status \in Live \cup {"FREE", "SYN_WAIT", "FAILED"}
  /\ k.tcp_hashtable \subseteq Conns /\ k.slots \subseteq FlowIds
  /\ ToSet(k.async_q) \subseteq Conns /\ ToSet(k.flow_ids) \subseteq FlowIds
  /\ {k.apps, k.cc_conns, k.next_conn} \subseteq Conns \cup {NULL}
  /\ k.app_next \in [Conns -> Conns \cup {NULL}] /\ k.cc_next \in [Conns -> Conns \cup {NULL}]
  /\ \A x \in Ctxs : Len(k.kout[x]) <= KoutLen
  /\ \A l \in Listeners : Len(k.lst[l].backlog) <= BacklogLen

\* Whatever the order of requests, packets, completions and timeouts, no
\* assertion of tcp.c fails and none of the abort() calls of tcp_timeout,
\* conn_unregister, cc_conn_remove and arp_timeout is reached.
NeverAborts == k.crash \notin {"assert", "abort"}

\* Every structure that points to connections points to live ones, in the
\* state its users expect: the hash table, the timeouts, the waiters for ARP
\* and for a SYN, the completion queue, and the list cc_poll walks.  A
\* connection that is freed or fails has left all of them, and no call aborts.
ListsExact ==
  /\ TypeOK /\ NeverAborts
  /\ k.crash = "none" =>
    /\ k.tcp_hashtable = In(Live)
    /\ {c \in Conns : k.timer[c] = "HANDSHAKE"} = In({"SYN_SENT"})
    /\ {c \in Conns : k.timer[c] = "CLOSED"} = In({"CLOSED"})
    /\ Linked(k.cc_conns, k.cc_next) = In({"REG_SYNACK", "OPEN"})
    /\ Ends(k.cc_conns, k.cc_next)
    /\ k.next_conn \in In({"REG_SYNACK", "OPEN"}) \cup {NULL}
    /\ LET arps  == FoldLeft(LAMBDA q, p : q \o k.arp[p].compl, <<>>, SetToSeq(Servers))
           waits == FoldLeft(LAMBDA q, l : q \o k.lst[l].wait, <<>>, SetToSeq(Listeners))
       IN  /\ IsInjective(waits) /\ ToSet(waits) = In({"SYN_WAIT"})
           /\ IsInjective(arps \o k.async_q)
           /\ ToSet(arps \o k.async_q) = In({"ARP_PENDING", "REG_SYNACK"})
           /\ ToSet(arps) \subseteq In({"ARP_PENDING"})

\* A flow id is on the free list or belongs to one connection, and the fast
\* path finds the flow exactly while the connection is open or about to be:
\* between tcp_close and the timeout that frees the id nobody else gets it.
FlowsExact ==
  k.crash = "none" =>
    LET owners == In({"REG_SYNACK", "OPEN", "CLOSED"})
        id(c)  == k.conn[c].flow_id
    IN  /\ IsInjective(k.flow_ids)
        /\ \A c \in owners : id(c) \notin ToSet(k.flow_ids)
        /\ \A c, d \in owners : c # d => id(c) # id(d)
        /\ k.slots = {id(c) : c \in In({"REG_SYNACK", "OPEN"})}

\* No two connections share a 4-tuple, so a packet has one connection; held
\* because the port of an open is its own and a SYN already in the backlog,
\* or for a registered connection, is not queued again.
TupleUnique ==
  \A c, d \in k.tcp_hashtable :
    c # d => <<k.conn[c].remote, k.conn[c].local_port>> # <<k.conn[d].remote, k.conn[d].local_port>>

\* A SYN in the backlog and an accept request do not wait for each other,
\* unless the accept was spent on a SYN without timestamps.
AcceptServed ==
  \A l \in Listeners :
    k.lst[l].backlog = <<>> \/ k.lst[l].wait = <<>> \/ l \in k.skipped

\* No request is forgotten: an open, an accept or a close the application
\* waits for has its answer in a queue, or its connection is where something
\* will move it on - a timeout, a completion, an ARP entry, a listener.  Only
\* a full queue (appif_conn_opened and appif_conn_closed then drop the
\* answer) loses one.
PendingDriven ==
  \A h \in Handles :
    (k.crash = "none" /\ h \notin k.lost /\ appst[h].st \in {"opening", "accepting", "closing"}) =>
      \/ \E x \in Ctxs : \E m \in ToSet(k.kout[x]) :
           m.h = h /\ m.type \in {"opened", "accepted", "closed"}
      \/ \E c \in In(Live \cup {"SYN_WAIT"}) :
           /\ k.conn[c].opaque = h
           /\ \/ k.timer[c] # "none"
              \/ c \in ToSet(k.async_q)
              \/ \E p \in Servers : k.arp[p].armed /\ c \in ToSet(k.arp[p].compl)
              \/ \E l \in Listeners : c \in ToSet(k.lst[l].wait)

\* The list of an application's connections links exactly those connections.
AppListExact ==
  k.crash = "none" =>
    /\ Linked(k.apps, k.app_next) \subseteq Conns \ In({"FREE"})
    /\ In({"OPEN"}) \subseteq Linked(k.apps, k.app_next)

\* A client whose SYN-ACK was lost gets another one for its next SYN, as
\* long as the connection is open.
PeerConnects ==
  \A p \in Clients, c \in Conns :
    (peer[p] = "synsent" /\ k.conn[c].status = "OPEN" /\ k.conn[c].remote = p) ~>
      (peer[p] = "estab" \/ k.conn[c].status # "OPEN" \/ k.conn[c].remote # p \/ k.crash # "none")
=============================================================================
