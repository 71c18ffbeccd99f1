-------------------------------- MODULE QMan --------------------------------
(***************************************************************************)
(* The queue manager of a fast path core (src/tas_nic/fast/qman.c): flows  *)
(* with bytes to send wait in a FIFO list, or, when they have a rate, in a *)
(* skip list ordered by the virtual time at which they may send again.     *)
(* Timestamps have TIMESTAMP_BITS bits and wrap; both lists use            *)
(* next_idxs[0] of a queue, and head_idx[l] is next[INVAL, l] here.  wait  *)
(* is the virtual time a queue still owes for what it sent, which the code *)
(* only has as next_ts.                                                    *)
(***************************************************************************)
EXTENDS Integers, FiniteSets, FiniteSetsExt, TLC

CONSTANTS Queues, INVAL,     \* queue ids, IDXLIST_INVAL
          RateChoices,       \* functions: the rates each flow may get (0: no limit)
          Levels,            \* QMAN_SKIPLIST_LEVELS
          TimestampBits,     \* TIMESTAMP_BITS (32)
          MaxChunk, Unit,    \* bytes sent at once, time a byte takes at rate 1
          MaxAvail,          \* bound: bytes waiting in a queue
          MaxElapsed,        \* bound: time between two polls
          Num                \* queues a poll returns at most

TsRange == 2 ^ TimestampBits
Half == 2 ^ (TimestampBits - 1)
LevelSet == 0 .. Levels - 1

ASSUME QManAssumption ==
  /\ INVAL \notin Queues /\ Num \in Nat \ {0} /\ MaxElapsed < Half
  /\ \A f \in RateChoices, q \in Queues : \A r \in f[q] \ {0} : (MaxChunk * Unit) \div r < Half

VARIABLE qm
-----------------------------------------------------------------------------
\* rel_time, timestamp_lessthaneq: around the virtual time.
RelTime(cur, t) ==
  IF cur < Half /\ (cur - Half) % TsRange <= t THEN t - ((cur - Half) % TsRange) - Half
  ELSE IF cur > Half /\ t <= (cur + Half) % TsRange THEN t + TsRange - cur
  ELSE t - cur

timestamp_lessthaneq(s, a, b) == RelTime(s.vts, a) <= RelTime(s.vts, b)

Delay(s, q, bytes) == (bytes * Unit) \div s.rate[q]
\* Mutant: the bytes sent cost nothing.
NoCost(s, q, bytes) == s.vts
queue_new_ts(s, q, bytes) == (s.vts + Delay(s, q, bytes)) % TsRange

queue_activate_nolimit(s, q) ==
  LET t == [s EXCEPT !.flag[q] = "nolimit", !.next[<<q, 0>>] = INVAL, !.nltail = q]
  IN  IF s.nltail = INVAL THEN [t EXCEPT !.nlhead = q]
      ELSE [t EXCEPT !.next[<<s.nltail, 0>>] = q]

\* A queue leaves its list.  Its next_idxs are overwritten before anyone reads
\* them again; the model forgets them.
Unlisted(s, q) == [s EXCEPT !.flag[q] = "none",
                             !.next = [x \in {q} \X LevelSet |-> INVAL] @@ @]

\* A reasonable next_ts: not in the past, nor later than after max_chunk bytes.
ReasonableTs(s, q) ==
  LET max_ts == queue_new_ts(s, q, MaxChunk)
  IN  IF timestamp_lessthaneq(s, s.next_ts[q], s.vts) THEN s.vts
      ELSE IF ~timestamp_lessthaneq(s, s.next_ts[q], max_ts) THEN max_ts
      ELSE s.next_ts[q]

\* The last element of level l, searched from element q on, that is not after ts.
RECURSIVE Walk(_, _, _, _, _)
Walk(s, l, ts, pred, idx) ==
  IF idx # INVAL /\ timestamp_lessthaneq(s, s.next_ts[idx], ts)
  THEN Walk(s, l, ts, idx, s.next[<<idx, l>>]) ELSE pred

\* The predecessors at the levels, top-down: a level starts where the one
\* above it stopped.
RECURSIVE Pred(_, _, _)
Pred(s, l, ts) ==
  LET above == IF l = Levels - 1 THEN INVAL ELSE Pred(s, l + 1, ts)
  IN  Walk(s, l, ts, above, IF above # INVAL THEN above ELSE s.next[<<INVAL, l>>])

queue_activate_skiplist(s, q, level) ==
  LET ts == ReasonableTs(s, q)
      at == {<<Pred(s, l, ts), l>> : l \in 0 .. level}
  IN  [s EXCEPT
        !.flag[q] = "skip", !.next_ts[q] = ts,
        !.next = [x \in at |-> q] @@ [x \in {<<q, y[2]>> : y \in at} |->
                   LET y == CHOOSE y \in at : y[2] = x[2] IN s.next[y]] @@ @]

queue_activate(s, q, level) ==
  IF s.rate[q] = 0 THEN queue_activate_nolimit(s, q) ELSE queue_activate_skiplist(s, q, level)

queue_fire(s, q, level) ==
  LET bytes == Min({s.avail[q], MaxChunk})
      t == [s EXCEPT !.avail[q] = @ - bytes, !.early = @ \/ s.wait[q] > 0,
                     !.wait[q] = IF s.rate[q] > 0 THEN Delay(s, q, bytes) ELSE 0,
                     !.next_ts[q] = IF s.rate[q] > 0 THEN queue_new_ts(s, q, bytes) ELSE @]
  IN  IF t.avail[q] > 0 THEN queue_activate(t, q, level) ELSE t
-----------------------------------------------------------------------------
\* Virtual time moves to vts.
SetVirtual(s, vts) ==
  [s EXCEPT !.vts = vts,
            !.wait = [q \in Queues |-> Max({0, @[q] - ((vts - s.vts) % TsRange)})]]

\* poll_nolimit: cnt queues have been returned so far.
RECURSIVE poll_nolimit(_, _, _)
poll_nolimit(s, cnt, level) ==
  LET q == s.nlhead
      t == [Unlisted(s, q) EXCEPT !.nlhead = s.next[<<q, 0>>],
                                  !.nltail = IF s.next[<<q, 0>>] = INVAL THEN INVAL ELSE @]
  IN  IF cnt = Num \/ q = INVAL THEN <<s, cnt>>
      ELSE IF t.avail[q] > 0 THEN poll_nolimit(queue_fire(t, q, level[cnt + 1]), cnt + 1, level)
      ELSE poll_nolimit(t, cnt, level)

\* Mutant: only the lowest level forgets the queue.
LowestLevel(s, q) == {0}
\* The levels of which q is the head.
HeadOf(s, q) == {l \in LevelSet : \A m \in 0 .. l : s.next[<<INVAL, m>>] = q}

RemoveHead(s, q) ==
  LET t == Unlisted(s, q)
  IN  [t EXCEPT !.next = [x \in {INVAL} \X HeadOf(s, q) |-> s.next[<<q, x[2]>>]] @@ @]

RECURSIVE poll_skiplist(_, _, _, _)
poll_skiplist(s, cnt, max_vts, level) ==
  LET q   == s.next[<<INVAL, 0>>]
      due == q # INVAL /\ timestamp_lessthaneq(s, s.next_ts[q], max_vts)
      t   == SetVirtual(RemoveHead(s, q), s.next_ts[q])
  IN  IF cnt = Num THEN <<SetVirtual(s, IF due THEN s.next_ts[q] ELSE max_vts), cnt>>
      ELSE IF ~due THEN <<SetVirtual(s, max_vts), cnt>>
      ELSE IF t.avail[q] > 0
      THEN poll_skiplist(queue_fire(t, q, level[cnt + 1]), cnt + 1, max_vts, level)
      ELSE poll_skiplist(t, cnt, max_vts, level)

\* qman_poll, elapsed after the last one: the lists in alternating order.
qman_poll(elapsed, level) ==
  LET max_vts == (qm.vts + elapsed) % TsRange
      t == [qm EXCEPT !.nolimit_first = ~@]
      x == IF qm.nolimit_first THEN poll_nolimit(t, 0, level)
           ELSE poll_skiplist(t, 0, max_vts, level)
      y == IF qm.nolimit_first THEN poll_skiplist(x[1], x[2], max_vts, level)
           ELSE poll_nolimit(x[1], x[2], level)
  IN  qm' = y[1]

\* qman_set (set_impl): the rate of the flow, and bytes set or added.  A new
\* rate shortens what the queue owes to what max_chunk bytes cost at it.
qman_set(q, rate, avail, set, level) ==
  LET owed == IF rate = 0 THEN 0 ELSE Min({qm.wait[q], (MaxChunk * Unit) \div rate})
      s == [qm EXCEPT !.rate[q] = rate, !.avail[q] = IF set THEN avail ELSE @ + avail,
                      !.wait[q] = owed]
  IN  /\ s.avail[q] <= MaxAvail
      /\ qm' = IF s.avail[q] > 0 /\ s.flag[q] = "none" THEN queue_activate(s, q, level) ELSE s

\* qman_thread_init
QManStart ==
  {[vts |-> 0, rates |-> f, rate |-> [q \in Queues |-> 0], avail |-> [q \in Queues |-> 0],
    next_ts |-> [q \in Queues |-> 0], wait |-> [q \in Queues |-> 0],
    flag |-> [q \in Queues |-> "none"], nlhead |-> INVAL, nltail |-> INVAL,
    next |-> [x \in (Queues \cup {INVAL}) \X LevelSet |-> INVAL],
    nolimit_first |-> FALSE, early |-> FALSE] : f \in RateChoices}

\* Bytes are only added when there are some, and a level is drawn for a queue
\* that is not listed.
QManNext ==
  \/ \E q \in Queues, set \in BOOLEAN :
       \E n \in (IF set THEN 0 ELSE 1) .. MaxAvail, r \in qm.rates[q],
          l \in IF qm.flag[q] = "none" THEN LevelSet ELSE {0} : qman_set(q, r, n, set, l)
  \/ \E e \in 0 .. MaxElapsed, l \in [1 .. Num -> LevelSet] : qman_poll(e, l)
-----------------------------------------------------------------------------
\* The queues of level l from q on, at most n of them.
RECURSIVE Chain(_, _, _)
Chain(q, l, n) == IF q = INVAL \/ n = 0 THEN {} ELSE {q} \cup Chain(qm.next[<<q, l>>], l, n - 1)
N == Cardinality(Queues) + 1

\* No flow with bytes to send is forgotten: through activation in the middle
\* of a poll, changes of the rate and the wrap of virtual time, a queue with
\* avail is on exactly one list, the lists hold exactly the queues flagged
\* for them, and the search that finds the place of a queue in the skip list
\* leaves every level sorted by the time the queues may send.
QueuesListed ==
  LET skip == {q \in Queues : qm.flag[q] = "skip"}
  IN  /\ \A q \in Queues : qm.avail[q] > 0 => qm.flag[q] # "none"
      /\ Chain(qm.nlhead, 0, N) = {q \in Queues : qm.flag[q] = "nolimit"}
      /\ Chain(qm.next[<<INVAL, 0>>], 0, N) = skip
      /\ \A l \in LevelSet : Chain(qm.next[<<INVAL, l>>], l, N) \subseteq skip
      /\ \A l \in LevelSet : \A q \in skip :
           qm.next[<<q, l>>] # INVAL => timestamp_lessthaneq(qm, qm.next_ts[q], qm.next_ts[qm.next[<<q, l>>]])

\* A flow never sends before the bytes it sent last have been paid for at its
\* rate.  This needs the delay of max_chunk bytes to stay under half of the
\* timestamps (QManAssumption).
RateHonoured == ~qm.early
=============================================================================
