------------------------------ MODULE Timeouts ------------------------------
(***************************************************************************)
(* The timeout manager (src/lib/utils/timeout.c): timestamps of            *)
(* TIMEOUT_BITS bits that wrap, a list of armed timeouts that insertion    *)
(* keeps sorted, and a list of those found due.  left is the true time     *)
(* until a timeout expires, which the code does not have.                  *)
(***************************************************************************)
EXTENDS Integers, Sequences, FiniteSets, FiniteSetsExt, Functions

CONSTANTS TimeoutBits,   \* TIMEOUT_BITS (28)
          MaxTimeouts,   \* MAX_TIMEOUTS (64) a poll handles
          MaxLate,       \* bound: a timeout is polled at most this long after it expired
          Timers         \* the struct timeout of the program

Middle == 2 ^ (TimeoutBits - 1)
TsMod == 2 ^ TimeoutBits

ASSUME TimeoutsAssumption ==
  /\ Middle \in Nat \ {0} /\ TsMod = 2 * Middle
  /\ MaxTimeouts \in Nat \ {0} /\ MaxLate \in 0 .. Middle - 1

VARIABLE tm
-----------------------------------------------------------------------------
\* Mutant: the plain difference.
NoWrap(cur_ts, to_ts) == to_ts - cur_ts
\* rel_time: the distance from cur_ts to to_ts, to_ts taken to be in the half
\* of the circle around cur_ts.
rel_time(cur_ts, to_ts) ==
  LET start == (cur_ts - Middle) % TsMod
      end   == ((cur_ts + Middle) % TsMod) + 1
  IN  IF cur_ts < Middle /\ start <= to_ts THEN to_ts - start - Middle
      ELSE IF cur_ts > Middle /\ to_ts < end THEN to_ts + (TsMod - cur_ts)
      ELSE to_ts - cur_ts

timeout_due(s, t) == rel_time(s.now, s.ts[t]) <= 0

\* move_due_timeouts: from the front of the list, as long as they are due.
move_due_timeouts(s) ==
  LET n == Max({i \in 0 .. Len(s.timeouts) :
                  \A j \in 1 .. i : timeout_due(s, s.timeouts[j])})
  IN  [s EXCEPT !.timeouts = SubSeq(@, n + 1, Len(@)), !.due = @ \o SubSeq(s.timeouts, 1, n)]

Armed == Range(tm.timeouts) \cup Range(tm.due)

\* The list without its i-th timeout, and with t after it.
Unlink(list, i) == SubSeq(list, 1, i - 1) \o SubSeq(list, i + 1, Len(list))
LinkAfter(list, i, t) == SubSeq(list, 1, i) \o <<t>> \o SubSeq(list, i + 1, Len(list))

\* util_timeout_arm: behind the last one that is due no later, searched from the end.
util_timeout_arm(t, us) ==
  LET s == move_due_timeouts(tm)
      i == Max({0} \cup {j \in 1 .. Len(s.timeouts) : rel_time(s.now, s.ts[s.timeouts[j]]) <= us})
  IN  /\ t \notin Armed
      /\ tm' = [s EXCEPT !.timeouts = LinkAfter(@, i, t),
                         !.ts[t] = (s.now + us) % TsMod, !.left[t] = us]

util_timeout_disarm(t) ==
  \/ \E i \in 1 .. Len(tm.timeouts) :
        tm.timeouts[i] = t /\ tm' = [tm EXCEPT !.timeouts = Unlink(@, i)]
  \/ \E i \in 1 .. Len(tm.due) : tm.due[i] = t /\ tm' = [tm EXCEPT !.due = Unlink(@, i)]

\* util_timeout_poll: the handlers of the first timeouts of the due list run.
util_timeout_poll ==
  LET s == move_due_timeouts(tm)
  IN  /\ tm' = [s EXCEPT !.due = SubSeq(@, MaxTimeouts + 1, Len(@))]
      /\ tm' # tm

None == -1
util_timeout_next ==
  IF tm.due # <<>> THEN 0
  ELSE IF tm.timeouts = <<>> THEN None
  ELSE Max({0, rel_time(tm.now, tm.ts[tm.timeouts[1]])})

Tick ==
  /\ \A t \in Armed : tm.left[t] - 1 >= -MaxLate
  /\ tm' = [tm EXCEPT !.now = (@ + 1) % TsMod,
                      !.left = [t \in Timers |-> IF t \in Armed THEN @[t] - 1 ELSE 0]]

\* util_timeout_init
TimeoutsStart == {[now |-> 0, timeouts |-> <<>>, due |-> <<>>, ts |-> [t \in Timers |-> 0],
                   left |-> [t \in Timers |-> 0]]}

TimeoutsNext ==
  \/ \E t \in Timers, us \in 1 .. Middle - 1 : util_timeout_arm(t, us)
  \/ \E t \in Timers : util_timeout_disarm(t)
  \/ util_timeout_poll
  \/ Tick

TimeoutsSpec == tm \in TimeoutsStart /\ [][TimeoutsNext]_tm
-----------------------------------------------------------------------------
\* Across the wrap of the clock the list stays in the order in which its
\* timeouts expire, so that the front is enough to look at: nothing is found
\* due before its time, and util_timeout_next, which decides how long the
\* slow path sleeps, is the time to the earliest one.
TimersExact ==
  LET expiry == {tm.left[t] : t \in Armed}
  IN  /\ \A i, j \in 1 .. Len(tm.timeouts) :
           i < j => tm.left[tm.timeouts[i]] <= tm.left[tm.timeouts[j]]
      /\ \A t \in Range(tm.due) : tm.left[t] <= 0
      /\ Armed # {} => util_timeout_next = Max({0, Min(expiry)})
=============================================================================
