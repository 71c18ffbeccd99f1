------------------------------ MODULE FastCore ------------------------------
(***************************************************************************)
(* The loop of one fast path core (fast/fastemu.c, fast_appctx.c,          *)
(* fast_kernel.c): how it shares network buffers, transmit slots and work  *)
(* between the network, the flows with data to send, the applications and  *)
(* the slow path.  fc has the fields                                       *)
(*   pc      the next step of dataplane_loop;                              *)
(*   pool    the buffers of the memory pool (of the driver, external);     *)
(*   slots, head, num  the buffer cache, a ring (bufcache_handles);        *)
(*   tx      the packets to send (tx_handles);                             *)
(*   arx     the contexts of the updates in arx_cache;                     *)
(*   fresh   per context, the updates that are queued and not flushed;     *)
(*   atx     per context, the updates the application queued; TRUE if      *)
(*           fast_flows_bump will send a packet for it;                    *)
(*   next    poll_next_ctx;                                                *)
(*   rounds  of every context with updates, the rounds of poll_queues that *)
(*           served no update of it and had a buffer (ghost);              *)
(*   bad     the program aborted.                                          *)
(* Received packets, flows the queue manager returns and requests of the   *)
(* slow path are chosen when they are polled: a packet is <<ret, ctx>>,    *)
(* the result of fast_flows_packet (1 the buffer became an ACK, 0 it was   *)
(* not used, -1 for the slow path) and the context it tells.               *)
(***************************************************************************)
EXTENDS Integers, Sequences, FiniteSets
LOCAL INSTANCE SequencesExt

CONSTANTS Bufs, CacheSize, TxSize, Batch, AppCtxs,
          MaxAtx,    \* bound: updates an application has queued
          Distinct   \* whether the packets of a batch tell different contexts

VARIABLE fc

NoCtx == 0
Ctx == 1..AppCtxs
Seqs(S, n) == UNION {[1..k -> S] : k \in 0..n}
Least(a, b) == IF a < b THEN a ELSE b
Abort(s) == [s EXCEPT !.bad = TRUE]

CacheSlot(s, i) == (s.head + i) % CacheSize
Cached(s) == {s.slots[CacheSlot(s, i)] : i \in 0..s.num - 1}

\* fill the ring behind the last buffer with what the pool has
Refill(s, num) ==
    LET grow == IF s.num < num THEN Least(CacheSize - s.num, Cardinality(s.pool)) ELSE 0
        got == SubSeq(SetToSeq(s.pool), 1, grow)
    IN [s EXCEPT !.slots = [i \in DOMAIN s.slots |->
                              LET k == (i - s.head - s.num) % CacheSize IN
                              IF k < grow THEN got[k + 1] ELSE @[i]],
                 !.num = @ + grow, !.pool = @ \ ToSet(got)]

\* the handles that can be used: those up to the end of the ring
bufcache_prealloc(s, num) ==
    LET r == Refill(s, num) IN [s |-> r, max |-> Least(num, Least(r.num, CacheSize - r.head))]

\* (a slot that is given away is set to NoCtx in the model)
bufcache_alloc(s, num) ==
    IF num > s.num THEN Abort(s)
    ELSE [s EXCEPT !.head = (@ + num) % CacheSize, !.num = @ - num,
                   !.slots = [i \in DOMAIN @ |-> IF (i - s.head) % CacheSize < num THEN NoCtx ELSE @[i]]]

bufcache_free(s, b) ==
    IF s.num < CacheSize THEN [s EXCEPT !.slots[CacheSlot(s, s.num)] = b, !.num = @ + 1]
    ELSE [s EXCEPT !.pool = @ \cup {b}]

tx_send(s, b) == IF Len(s.tx) >= TxSize THEN Abort(s) ELSE [s EXCEPT !.tx = Append(@, b)]

\* poll as much as can be sent
Room(s) == Least(Batch, TxSize - Len(s.tx))

\* each request that uses a buffer sends the next handle, and only those are taken
Serve(s, uses) ==
    LET at(i) == Cardinality({j \in 1..i : uses[j]})
        n == at(Len(uses))
        sent[i \in 0..Len(uses)] ==
            IF i = 0 THEN s
            ELSE IF uses[i] THEN tx_send(sent[i - 1], s.slots[s.head + at(i) - 1])
            ELSE sent[i - 1]
    IN bufcache_alloc(sent[Len(uses)], n)

--------------------------------------------------------------------------
(* Notifications to applications. *)

\* the second loop flushes the context of the iteration before it, and the last
\* context of the first loop to begin with
arx_cache_flush(s) ==
    LET n == Len(s.arx)
        queued == [c \in Ctx |-> s.fresh[c] + Cardinality({i \in 1..n : s.arx[i] = c})]
        flushed[i \in 0..n] ==
            IF i = 0 THEN [s EXCEPT !.fresh = queued, !.arx = <<>>]
            ELSE LET b == flushed[i - 1]
                     c == s.arx[IF i = 1 THEN n ELSE i - 1]
                 IN IF b.bad \/ b.fresh[c] = 0 THEN Abort(b)
                    ELSE [b EXCEPT !.fresh[c] = 0]
    IN flushed[n]

--------------------------------------------------------------------------
(* The steps of dataplane_loop. *)

\* a packet whose buffer did not become an ACK is freed after all were handled
Receive(s, ps, bs) ==
    LET n == Len(ps)
        done[i \in 0..n] ==
            IF i = 0 THEN s
            ELSE LET t == done[i - 1]
                     a == IF ps[i][2] = NoCtx THEN t ELSE [t EXCEPT !.arx = Append(@, ps[i][2])]
                 IN IF ps[i][1] = 1 THEN tx_send(a, bs[i]) ELSE a
        told == arx_cache_flush(done[n])
        freed[i \in 0..n] ==
            IF i = 0 THEN told
            ELSE IF ps[i][1] = 1 THEN freed[i - 1] ELSE bufcache_free(freed[i - 1], bs[i])
    IN freed[n]

Packets == {<<1, c>> : c \in Ctx} \cup {<<0, NoCtx>>, <<-1, NoCtx>>}

poll_rx ==
    /\ fc.pc = "rx"
    /\ \E ps \in Seqs(Packets, Room(fc)) :
         LET n == Len(ps)  bs == SubSeq(SetToSeq(fc.pool), 1, n)
             got == [fc EXCEPT !.pool = @ \ ToSet(bs), !.pc = "flush"]
         IN /\ n <= Cardinality(fc.pool)
            /\ Distinct => \A i, j \in 1..n : i # j /\ ps[i][2] # NoCtx => ps[i][2] # ps[j][2]
            /\ fc' = IF n = 0 THEN got ELSE Receive(got, ps, bs)

\* a mutant: the packets that were not sent are dropped from the list
FlushForgets(from, to) ==
    /\ fc.pc = from
    /\ \E n \in 0..Len(fc.tx) :
         fc' = [fc EXCEPT !.pc = to, !.pool = @ \cup ToSet(SubSeq(fc.tx, 1, n)),
                          !.tx = IF n = 0 THEN @ ELSE <<>>]

\* the network takes some of the packets; their buffers go back to the pool
tx_flush(from, to) ==
    /\ fc.pc = from
    /\ \E n \in 0..Len(fc.tx) :
         fc' = [fc EXCEPT !.pc = to, !.pool = @ \cup ToSet(SubSeq(fc.tx, 1, n)),
                          !.tx = SubSeq(@, n + 1, Len(@))]

\* fast_flows_qman sends a segment, or nothing when there is no data left or the
\* flow moved to another core
poll_qman ==
    /\ fc.pc = "qman"
    /\ LET p == bufcache_prealloc(fc, Room(fc)) IN
       \E uses \in Seqs(BOOLEAN, p.max) : fc' = [Serve(p.s, uses) EXCEPT !.pc = "queues"]

\* a mutant: poll_next_ctx stays at a context that used up the batch
StaysAtBusy(s, max) ==
    LET visit[n \in 0..AppCtxs] ==
            IF n = 0 THEN [s |-> s, uses |-> <<>>, served |-> {}]
            ELSE LET b == visit[n - 1]  c == b.s.next
                     k == Least(Least(Batch, max - Len(b.uses)), Len(b.s.atx[c]))
                     more == Len(b.s.atx[c]) > k
                 IN IF Len(b.uses) >= max THEN b
                    ELSE [s |-> [b.s EXCEPT !.atx[c] = SubSeq(@, k + 1, Len(@)),
                                            !.next = IF more THEN @ ELSE (c % AppCtxs) + 1],
                          uses |-> b.uses \o SubSeq(b.s.atx[c], 1, k), served |-> b.served \cup {c}]
    IN visit[AppCtxs]

\* fast_appctx_poll_fetch of one context after the other, until the batch is full
Fetch(s, max) ==
    LET visit[n \in 0..AppCtxs] ==
            IF n = 0 THEN [s |-> s, uses |-> <<>>, served |-> {}]
            ELSE LET b == visit[n - 1]  c == b.s.next
                     k == Least(Least(Batch, max - Len(b.uses)), Len(b.s.atx[c]))
                 IN IF Len(b.uses) >= max THEN b
                    ELSE [s |-> [b.s EXCEPT !.atx[c] = SubSeq(@, k + 1, Len(@)),
                                            !.next = (c % AppCtxs) + 1],
                          uses |-> b.uses \o SubSeq(b.s.atx[c], 1, k), served |-> b.served \cup {c}]
    IN visit[AppCtxs]

poll_queues ==
    /\ fc.pc = "queues"
    /\ LET p == bufcache_prealloc(fc, Room(fc))
           f == Fetch(p.s, p.max)
           waits == [c \in Ctx |-> IF c \in f.served \/ fc.atx[c] = <<>> THEN 0
                                   ELSE IF p.max = 0 THEN fc.rounds[c] ELSE fc.rounds[c] + 1]
       IN fc' = [Serve(f.s, f.uses) EXCEPT !.pc = "kernel", !.rounds = waits]

\* packets of the slow path use a buffer; retransmits do not and are not counted
poll_kernel ==
    /\ fc.pc = "kernel"
    /\ LET p == bufcache_prealloc(fc, Room(fc)) IN
       \E n \in 0..p.max :
         fc' = [Serve(p.s, [i \in 1..n |-> TRUE]) EXCEPT !.pc = "flush2"]

\* an application queues an update
AppUpdate(c) ==
    /\ Len(fc.atx[c]) < MaxAtx
    /\ \E sends \in BOOLEAN : fc' = [fc EXCEPT !.atx[c] = Append(@, sends)]

FastCoreStart ==
    {[pc |-> "rx", pool |-> Bufs, slots |-> [i \in 0..CacheSize - 1 |-> NoCtx], head |-> 0,
      num |-> 0, tx |-> <<>>, arx |-> <<>>, fresh |-> [c \in Ctx |-> 0],
      atx |-> [c \in Ctx |-> <<>>], next |-> 1,
      rounds |-> [c \in Ctx |-> 0], bad |-> FALSE]}

FastCoreNext ==
    /\ ~fc.bad
    /\ \/ poll_rx \/ poll_qman \/ poll_queues \/ poll_kernel
       \/ tx_flush("flush", "qman") \/ tx_flush("flush2", "rx")
       \/ \E c \in Ctx : AppUpdate(c)

FastCoreSpec == fc \in FastCoreStart /\ [][FastCoreNext]_fc

--------------------------------------------------------------------------
(* Properties. *)

\* Every buffer is in one place: in the pool, once in the cache or once in the
\* transmit list.  None is lost, and no packet is written over another one that
\* waits to be sent, whatever the network takes and wherever the ring wraps.  The
\* core does not abort: the transmit list never overflows, no more buffers are
\* taken than were prepared, and each notification finds an update to flush.
BuffersExact ==
    /\ ~fc.bad
    /\ Bufs = fc.pool \cup Cached(fc) \cup ToSet(fc.tx)
    /\ Cardinality(Bufs) = Cardinality(fc.pool) + fc.num + Len(fc.tx)

\* An application with updates is served after at most as many rounds as there
\* are contexts, however busy the others, the network and the slow path are:
\* poll_queues goes on where the last round ran out of buffers.
AppsServed == \A c \in Ctx : fc.rounds[c] < AppCtxs
=============================================================================
