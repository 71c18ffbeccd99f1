------------------------------- MODULE AppReg -------------------------------
(***************************************************************************)
(* How applications and their contexts are registered with TAS             *)
(* (slow/appif.c, slow/rdmaif.c, nicif_appctx_add, lib/tas/kernel.c and    *)
(* lib/tas/rdmaif.c).  Three threads of TAS take part: the one that serves *)
(* the unix socket, which also answers every request, the one that takes   *)
(* RDMA messages, and the slow path, which registers a context with the    *)
(* cores.  A process has one connection, so its name stands for its        *)
(* socket and for its struct application.  rg has the fields               *)
(*   remote  the processes run on the host and use RDMA;                   *)
(*   lib     of every process, pc and the contexts it was given;           *)
(*   to, in  the messages to TAS and the answers, not yet read;            *)
(*   fd      the process behind each file descriptor of TAS;               *)
(*   ep      what epoll watches of a socket: nothing, or the application   *)
(*           it reports (ptr) and whether it reports requests (rd);        *)
(*   app     struct application: fd, id, need (need_reg_ctx), done         *)
(*           (need_reg_ctx_done), resp, num (ctx_num) and closed;          *)
(*   ctx     the contexts, app, db (its doorbell) and ready;               *)
(*   slots   appctx, the contexts the cores know, as one array;            *)
(*   free    the first of free_doorbells, a list that nothing returns to;  *)
(*   next_id, ux2poll, poll2ux, notify  app_id_next, the queues, notifyfd; *)
(*   list    applications, rest those the slow path has still to visit;    *)
(*   main, ux, rd  what the slow path and the threads of the unix socket   *)
(*           and of RDMA are in the middle of, or Wait;                    *)
(*   evs     the events left of epoll_wait;                                *)
(*   bad     TAS aborted or was killed.                                    *)
(* Messages arrive whole and in order.  comp.status and req_rx, which      *)
(* nobody sets, are zero as fresh memory is.                               *)
(***************************************************************************)
EXTENDS Integers, Sequences, FiniteSets
LOCAL INSTANCE SequencesExt

CONSTANTS Procs,
          CtxNum,     \* FLEXNIC_PL_APPST_CTX_NUM, also the number of doorbells
          AppNum,     \* FLEXNIC_PL_APPST_NUM
          SlotNum,    \* FLEXNIC_PL_APPCTX_NUM
          NCores,
          MaxCtx,     \* bound: contexts a local process asks for
          ExitBusy    \* whether a process may exit while a request is open

VARIABLE rg

NoOne == 0
Wait == <<"wait", NoOne>>
DieIf(s, b) == [s EXCEPT !.bad = @ \/ b]

\* close(2), by number: epoll forgets the socket, the process sees the end of it
CloseFd(s, n) ==
    LET q == s.fd[n] IN
    IF q = NoOne THEN s
    ELSE [s EXCEPT !.fd[n] = NoOne, !.ep[q] = [ptr |-> NoOne, rd |-> FALSE], !.to[q] = <<>>]

\* communicator_close does nothing for a remote process
uxsocket_error(s, p) ==
    LET c == IF s.remote THEN s ELSE CloseFd(s, s.app[p].fd) IN [c EXCEPT !.app[p].closed = TRUE]

allocate_application(s, p, n) ==
    [s EXCEPT !.app[p] = [fd |-> n, id |-> s.next_id, need |-> 0, done |-> 0, resp |-> 0,
                          num |-> 0, closed |-> FALSE],
              !.next_id = @ + 1, !.ux2poll = Append(@, p)]

\* a mutant: the doorbell stays at the head of the list
DoorbellKept(s) == s

\* free_doorbells = ctx->doorbell->next
TakeDoorbell(s) == [s EXCEPT !.free = @ + 1]

\* the part of both allocate_*_app_context up to need_reg_ctx, which comes last
NewContext(s, p) ==
    LET c == Len(s.ctx) + 1 IN
    [TakeDoorbell(s) EXCEPT !.ctx = Append(@, [app |-> p, db |-> s.free, ready |-> FALSE]),
                            !.app[p].resp = c, !.app[p].done = c]

NoDoorbell(s) == s.free > CtxNum

--------------------------------------------------------------------------
(* The thread of the unix socket. *)

Hup(p) == rg.lib[p].pc = "exited"
HasSocket(p) == \E n \in DOMAIN rg.fd : rg.fd[n] = p
NextMsg(p) == IF rg.to[p] = <<>> THEN "none" ELSE Head(rg.to[p])
Watched(p) == rg.ep[p].ptr # NoOne
Ready == {<<"listen", NoOne>> : p \in {q \in Procs : ~rg.remote /\ NextMsg(q) = "connect"}}
         \cup (IF rg.notify THEN {<<"notify", NoOne>>} ELSE {})
         \cup {<<"hup", rg.ep[p].ptr>> : p \in {q \in Procs : Watched(q) /\ Hup(q)}}
         \cup {<<"in", rg.ep[p].ptr>> : p \in {q \in Procs : Watched(q) /\ ~Hup(q) /\ rg.ep[q].rd
                                                             /\ rg.to[q] # <<>>}}

\* epoll_wait; the events are handled one after the other
uxsocket_thread ==
    /\ rg.ux = Wait /\ rg.evs = {} /\ Ready # {}
    /\ rg' = [rg EXCEPT !.evs = Ready]

\* the process is sent its file descriptors before it is watched
uxsocket_accept ==
    /\ rg.ux = Wait /\ <<"listen", NoOne>> \in rg.evs
    /\ \E p \in Procs :
         LET n == SelectInSeq(rg.fd, LAMBDA q : q = NoOne)
             s == [rg EXCEPT !.evs = @ \ {<<"listen", NoOne>>}, !.to[p] = Tail(@), !.fd[n] = p,
                             !.in[p] = Append(@, "fds"), !.ep[p] = [ptr |-> p, rd |-> TRUE]]
         IN /\ NextMsg(p) = "connect"
            /\ rg' = DieIf(allocate_application(s, p, n), Hup(p))

\* fails without memory or doorbells: the error is handled there and again here
uxsocket_receive(p) ==
    LET e == [rg EXCEPT !.evs = @ \ {<<"in", p>>}]
        q == rg.fd[rg.app[p].fd]
    IN /\ rg.ux = Wait /\ <<"in", p>> \in rg.evs
       /\ IF q = NoOne \/ rg.to[q] = <<>> THEN rg' = uxsocket_error(e, p)
          ELSE LET s == [e EXCEPT !.to[q] = Tail(@)] IN
               \/ rg' = uxsocket_error(uxsocket_error(s, p), p)
               \/ /\ ~NoDoorbell(s)
                  /\ rg' = [NewContext(s, p) EXCEPT !.ux = <<"publish", p>>]

\* the slow path may register the context now; no further request is read
publish_local(p) ==
    LET q == rg.fd[rg.app[p].fd] IN
    /\ rg.ux = <<"publish", p>>
    /\ rg' = [rg EXCEPT !.app[p].need = rg.app[p].done, !.ux = Wait, !.ep[q].rd = FALSE]

uxsocket_hup(p) ==
    /\ rg.ux = Wait /\ <<"hup", p>> \in rg.evs
    /\ rg' = uxsocket_error([rg EXCEPT !.evs = @ \ {<<"hup", p>>}], p)

uxsocket_notify ==
    /\ rg.ux = Wait /\ <<"notify", NoOne>> \in rg.evs
    /\ rg' = [rg EXCEPT !.evs = @ \ {<<"notify", NoOne>>}, !.notify = FALSE,
                        !.ux = <<"drain", NoOne>>]

\* the answer goes to the descriptor, whoever is behind it by now, and epoll
\* reports that socket as this application's
uxsocket_notify_app(s, p) ==
    LET n == s.app[p].fd
        q == IF s.remote THEN p ELSE s.fd[n]
        r == [s EXCEPT !.ctx[s.app[p].done].ready = TRUE]
    IN IF q = NoOne THEN uxsocket_error(r, p)
       ELSE LET a == [r EXCEPT !.in[q] = Append(@, s.app[p].resp)]
            IN DieIf(IF s.remote THEN a ELSE [a EXCEPT !.ep[q] = [ptr |-> p, rd |-> TRUE]], Hup(q))

\* a mutant: one completion is taken for each notification
DrainsOne ==
    /\ rg.ux = <<"drain", NoOne>>
    /\ LET s == [rg EXCEPT !.ux = Wait]
       IN rg' = IF rg.poll2ux = <<>> THEN s
                ELSE uxsocket_notify_app([s EXCEPT !.poll2ux = Tail(@)], Head(rg.poll2ux))

uxsocket_drain ==
    /\ rg.ux = <<"drain", NoOne>>
    /\ rg' = IF rg.poll2ux = <<>> THEN [rg EXCEPT !.ux = Wait]
             ELSE uxsocket_notify_app([rg EXCEPT !.poll2ux = Tail(@)], Head(rg.poll2ux))

--------------------------------------------------------------------------
(* The thread that takes RDMA messages. *)

handle_recv_app_reg(p) ==
    /\ rg.remote /\ rg.rd = Wait /\ NextMsg(p) = "connect"
    /\ LET s == [rg EXCEPT !.to[p] = Tail(@), !.in[p] = Append(@, "fds")]
       IN rg' = allocate_application(s, p, NoOne)

\* without a doorbell nothing is answered
allocate_remote_app_context(s, p) ==
    IF NoDoorbell(s) THEN s ELSE [NewContext(s, p) EXCEPT !.rd = <<"publish", p>>]

handle_recv_reg_ctx(p) ==
    /\ rg.remote /\ rg.rd = Wait /\ NextMsg(p) = "ctx"
    /\ rg' = allocate_remote_app_context([rg EXCEPT !.to[p] = Tail(@)], p)

publish_remote(p) ==
    /\ rg.rd = <<"publish", p>>
    /\ rg' = [rg EXCEPT !.app[p].need = rg.app[p].done, !.rd = Wait]

--------------------------------------------------------------------------
(* The slow path. *)

\* the slot of a context in the array of a core
AppSlot(core, db) == core * SlotNum + db

nicif_appctx_add(s, p, c) ==
    [s EXCEPT !.slots = [i \in DOMAIN @ |->
                           IF i \in {AppSlot(k, s.ctx[c].db) : k \in 0..NCores - 1}
                           THEN c ELSE @[i]],
              !.app[p].num = @ + 1]

\* new applications come to the front
appif_poll ==
    /\ rg.main = Wait /\ rg.rest = <<>>
    /\ rg.ux2poll # <<>> \/ \E p \in Procs : rg.app[p].need # 0
    /\ LET all == Reverse(rg.ux2poll) \o rg.list
       IN rg' = [rg EXCEPT !.list = all, !.rest = all, !.ux2poll = <<>>]

\* queue the completion; the thread is told in the next step
Complete(s, p) == [s EXCEPT !.poll2ux = Append(@, p), !.main = <<"notify", NoOne>>]

register_ctx ==
    LET p == Head(rg.rest)
        c == rg.app[p].need
        s == [rg EXCEPT !.rest = Tail(@), !.app[p].need = 0]
    IN /\ rg.main = Wait /\ rg.rest # <<>>
       /\ rg' = IF c = 0 THEN s
                ELSE IF s.app[p].id >= AppNum \/ s.app[p].num + 1 >= CtxNum
                THEN uxsocket_error(s, p)
                ELSE Complete(nicif_appctx_add(s, p, c), p)

notify_ux ==
    /\ rg.main = <<"notify", NoOne>>
    /\ rg' = [rg EXCEPT !.notify = TRUE, !.main = Wait]

--------------------------------------------------------------------------
(* The library in a process; context_init_mutex admits one request at a    *)
(* time.  The steps of tas_host are those of the module TasHost.           *)

flextcp_kernel_connect(p) ==
    /\ rg.lib[p].pc = "off"
    /\ rg' = [rg EXCEPT !.lib[p].pc = "connect", !.to[p] = <<"connect">>]

connected(p) ==
    /\ rg.lib[p].pc = "connect" /\ rg.in[p] # <<>>
    /\ rg' = [rg EXCEPT !.lib[p].pc = "idle", !.in[p] = Tail(@)]

\* tas_host reads the request for one context of a process only
flextcp_kernel_newctx(p) ==
    /\ rg.lib[p].pc = "idle" /\ Len(rg.lib[p].ctx) < (IF rg.remote THEN 1 ELSE MaxCtx)
    /\ rg' = IF rg.remote \/ HasSocket(p)
             THEN [rg EXCEPT !.lib[p].pc = "sent", !.to[p] = Append(@, "ctx")]
             ELSE [rg EXCEPT !.lib[p].pc = "exited"]

newctx_done(p) ==
    /\ rg.lib[p].pc = "sent" /\ rg.in[p] # <<>>
    /\ rg' = [rg EXCEPT !.lib[p] = [pc |-> "idle", ctx |-> Append(@.ctx, Head(rg.in[p]))],
                        !.in[p] = Tail(@)]

\* the end of a process that uses RDMA is not handled
exit(p) ==
    /\ ~rg.remote /\ rg.lib[p].pc \in IF ExitBusy THEN {"idle", "sent"} ELSE {"idle"}
    /\ rg' = [rg EXCEPT !.lib[p].pc = "exited"]

--------------------------------------------------------------------------
AppRegStart ==
    {[remote |-> r, lib |-> [p \in Procs |-> [pc |-> "off", ctx |-> <<>>]],
      to |-> [p \in Procs |-> <<>>], in |-> [p \in Procs |-> <<>>],
      fd |-> [i \in 1..Cardinality(Procs) |-> NoOne],
      ep |-> [p \in Procs |-> [ptr |-> NoOne, rd |-> FALSE]],
      app |-> [p \in Procs |-> [fd |-> 1, id |-> 0, need |-> 0, done |-> 0, resp |-> 0, num |-> 0,
                                closed |-> FALSE]],
      ctx |-> <<>>, slots |-> [i \in 0..NCores * SlotNum + CtxNum |-> 0], free |-> 1, next_id |-> 0,
      ux2poll |-> <<>>, poll2ux |-> <<>>, notify |-> FALSE, list |-> <<>>, rest |-> <<>>,
      main |-> Wait, ux |-> Wait, rd |-> Wait, evs |-> {}, bad |-> FALSE] : r \in BOOLEAN}

Library(p) ==
    \/ flextcp_kernel_connect(p) \/ connected(p)
    \/ flextcp_kernel_newctx(p) \/ newctx_done(p) \/ exit(p)
UxThread ==
    \/ uxsocket_thread \/ uxsocket_notify \/ uxsocket_drain
    \/ /\ ~rg.remote
       /\ \/ uxsocket_accept
          \/ \E p \in Procs : uxsocket_receive(p) \/ publish_local(p) \/ uxsocket_hup(p)
RdmaThread == \E p \in Procs : handle_recv_app_reg(p) \/ handle_recv_reg_ctx(p) \/ publish_remote(p)

AppRegNext ==
    /\ ~rg.bad
    /\ \/ UxThread \/ RdmaThread
       \/ appif_poll \/ register_ctx \/ notify_ux
       \/ \E p \in Procs : Library(p)

AppRegSpec == rg \in AppRegStart /\ [][AppRegNext]_rg

--------------------------------------------------------------------------
(* Properties. *)

\* A context that a process was given is its own: made for it, known to every
\* core in a slot of its own, and polled by the slow path.  No answer goes to
\* another process, and TAS is not killed by one that ends.
ContextsExact ==
    /\ ~rg.bad
    /\ \A p \in Procs : rg.lib[p].pc # "connect" =>
         \A c \in ToSet(rg.lib[p].ctx \o rg.in[p]) :
           /\ rg.ctx[c].app = p /\ rg.ctx[c].ready
           /\ \A k \in 0..NCores - 1 : rg.slots[AppSlot(k, rg.ctx[c].db)] = c

\* No request is forgotten between the threads: when each of them waits, every
\* process that waits has an answer to read, or TAS has closed its application.
AppAnswered ==
    /\ rg.ux = Wait /\ rg.rd = Wait /\ rg.main = Wait /\ rg.evs = {} /\ Ready = {}
    /\ rg.rest = <<>> /\ rg.ux2poll = <<>>
    /\ \A p \in Procs : rg.app[p].need = 0 /\ (rg.remote => rg.to[p] = <<>>)
    => \A p \in Procs : rg.lib[p].pc \in {"connect", "sent"} => rg.in[p] # <<>> \/ rg.app[p].closed
=============================================================================
