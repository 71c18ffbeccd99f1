-------------------------- MODULE CongestionControl --------------------------
(***************************************************************************)
(* The slow path's congestion control of one open connection               *)
(* (src/tas_nic/slow/cc.c): what an iteration of cc_poll does to it with   *)
(* each algorithm, given what the flow counted since the last iteration.   *)
(* Fixed-point fractions are in units of 1/One instead of 1/UINT32_MAX,    *)
(* and rates wrap at RateMod instead of 2^32.                              *)
(***************************************************************************)
EXTENDS Integers, FiniteSetsExt

CONSTANTS Algorithms,                        \* those of config.cc_algorithm to try
          One, RateMod, Mss, TxBuf,
          DctcpWeight, DctcpInit, DctcpStep, DctcpMimd, DctcpMin, DctcpMinPkts,
          TimelyTlow, TimelyThigh, TimelyStep, TimelyInit, TimelyAlpha, TimelyBeta,
          TimelyMinRtt, TimelyMinRate, ConstRate,
          RexmitInts, RttInit,
          Rtts, UsedRates,                   \* bound: RTT estimates, measured rates
          MaxCount                           \* bound: what a flow counts in an interval

ASSUME CongestionControlAssumption ==
  /\ Mss \in Nat \ {0} /\ TxBuf >= Mss /\ RexmitInts \in Nat /\ RttInit \in Nat \ {0}
  /\ DctcpMin \in Nat /\ DctcpMinPkts \in Nat /\ One \in Nat \ {0}

VARIABLE cc
-----------------------------------------------------------------------------
\* C division: towards zero.
Quot(a, b) == IF a >= 0 THEN a \div b ELSE -((-a) \div b)

\* window_to_rate: at most one window per RTT.
window_to_rate(window, rtt) == Min({RateMod - 1, (window * One) \div rtt})

\* The EWMA of the fraction of marked bytes, and what it takes off x.
Ewma(c, ecnb, ackb) ==
  IF ackb = 0 THEN c.ecn_rate
  ELSE (((Min({ecnb, ackb}) * One) \div ackb) * DctcpWeight + c.ecn_rate * (One - DctcpWeight)) \div One
Reduced(x, ecn_rate) == (x * (One - ecn_rate \div 2)) \div One

Rtt(st) == IF st.rtt # 0 THEN st.rtt ELSE RttInit
Congested(c, s) == s.drops > 0 \/ s.ecnb > 0 \/ c.rexmits > 0

\* dctcp_win_update
dctcp_win_update(c, st) ==
  LET ss  == c.slowstart /\ ~Congested(c, st)
      e   == Ewma(c, st.ecnb, st.ackb)
      cut == st.drops > 0 \/ c.rexmits > 0
      win == IF ss THEN c.window + st.ackb
             ELSE IF cut THEN c.window \div 2
             ELSE IF st.ecnb > 0 THEN Reduced(c.window, e)
             ELSE c.window + (st.ackb * Mss) \div c.window
      w   == Min({TxBuf, Max({Mss, win})})
  IN  [c EXCEPT !.slowstart = ss, !.ecn_rate = IF ss \/ cut THEN @ ELSE e, !.window = w,
                !.rate = window_to_rate(w, Rtt(st)), !.rexmits = 0, !.marked = FALSE]

\* The rate the flow used, not below its average; act is the average.
Used(c, rate) == LET avg == (7 * c.act + rate) \div 8 IN <<avg, Max({rate, avg})>>
ClampUsed(rate, used) == Min({rate, (used * 12) \div 10})

\* Mutant: what was counted while the update was deferred is forgotten.
DropsForgotten(c, st) == [ecnb |-> st.ecnb, acks |-> c.unproc.acks + st.acks,
                          ackb |-> c.unproc.ackb + st.ackb, drops |-> st.drops]
\* What the flow counted since an update was last computed.
Unprocessed(c, st) == [ecnb  |-> c.unproc.ecnb + st.ecnb, acks |-> c.unproc.acks + st.acks,
                       ackb  |-> c.unproc.ackb + st.ackb, drops |-> c.unproc.drops + st.drops]
NoneUnprocessed == [ecnb |-> 0, acks |-> 0, ackb |-> 0, drops |-> 0]

AtLeastMinimum(rate) == Max({rate, DctcpMin})

\* dctcp_rate_update: deferred until there are enough ACKs.
dctcp_rate_update(c, st) ==
  LET s    == Unprocessed(c, st)
      used == Used(c, st.rate)
      r    == ClampUsed(c.rate, used[2])
      ss   == c.slowstart /\ ~Congested(c, s)
      e    == Ewma(c, s.ecnb, s.ackb)
      cut  == s.drops > 0 \/ c.rexmits > 0
      rate == IF ss THEN IF (2 * r) % RateMod >= r THEN (2 * r) % RateMod ELSE RateMod - 1
              ELSE IF cut THEN r \div 2
              ELSE IF s.ecnb > 0 THEN Reduced(r, e)
              ELSE IF DctcpMimd = 0 THEN (r + DctcpStep) % RateMod
              ELSE (r + (r * DctcpMimd) \div One) % RateMod
  IN  IF s.acks < DctcpMinPkts THEN [c EXCEPT !.unproc = s]
      ELSE [c EXCEPT !.unproc = NoneUnprocessed, !.act = used[1], !.slowstart = ss,
                     !.ecn_rate = IF ss \/ cut THEN @ ELSE e,
                     !.rate = AtLeastMinimum(rate), !.rexmits = 0, !.marked = FALSE]

\* timely_update: by the RTT and its gradient, never below half of the rate.
timely_update(c, st) ==
  LET used == Used(c, st.rate)
      ss   == c.slowstart /\ st.rtt <= (TimelyTlow + TimelyThigh) \div 2
      r    == IF ss THEN c.rate ELSE ClampUsed(c.rate, used[2])
      diff == IF c.rtt_prev = 0 THEN c.rtt_diff
              ELSE Quot((One - TimelyAlpha) * c.rtt_diff + TimelyAlpha * (st.rtt - c.rtt_prev), One)
      grad == IF c.rtt_prev = 0 THEN 0 ELSE Quot(diff * One, TimelyMinRtt)
      fall == Quot(TimelyBeta * grad, One)
      hai  == c.hai_cnt + 1
      rate == CASE ss -> (2 * r) % RateMod
                [] ~ss /\ st.rtt < TimelyTlow -> (r + TimelyStep) % RateMod
                [] ~ss /\ st.rtt > TimelyThigh ->
                     (r * (One - (TimelyBeta * (One - ((One * TimelyThigh) \div st.rtt))) \div One)) \div One
                [] ~ss /\ st.rtt \in TimelyTlow .. TimelyThigh /\ grad <= 0 ->
                     (r + (IF hai >= 5 THEN 5 ELSE 1) * TimelyStep) % RateMod
                [] OTHER -> (r * Max({0, One - fall})) \div One
      gain == ~ss /\ st.rtt \in TimelyTlow .. TimelyThigh /\ grad <= 0
  IN  IF st.rtt = 0 THEN [c EXCEPT !.act = used[1]]
      ELSE [c EXCEPT !.act = used[1], !.slowstart = ss, !.rtt_diff = diff, !.rtt_prev = st.rtt,
                     !.hai_cnt = IF ss THEN @ ELSE IF gain THEN Min({hai, 4}) ELSE 0,
                     !.rate = Max({rate, r \div 2, TimelyMinRate}),
                     !.rexmits = 0, !.marked = FALSE]

const_rate_update(c, st) == [c EXCEPT !.rexmits = 0, !.marked = FALSE]
-----------------------------------------------------------------------------
\* Mutant: an interval with ACKs does not start the count over.
CountsOn(c, st) == IF st.txp THEN c.cnt_tx_pending + 1 ELSE c.cnt_tx_pending
\* Intervals in which data was outstanding and nothing was acknowledged.
Pending(c, st) == IF st.txp /\ st.ackb = 0 THEN c.cnt_tx_pending + 1 ELSE 0

\* issue_retransmits; may: two RTTs have passed since the first of the
\* intervals, and the queue to the fast path has room.
issue_retransmits(c, st, may) ==
  LET cnt == Pending(c, st)
      due == cnt > 1 /\ cnt >= RexmitInts /\ st.txp /\ may
  IN  [c EXCEPT !.cnt_tx_pending = IF due THEN 0 ELSE Min({cnt, RexmitInts + 1}),
                !.rexmits = IF due THEN Min({2, @ + 1}) ELSE @,
                !.marked = @ \/ due,
                !.idle = IF due \/ ~st.txp \/ st.ackb > 0 THEN 0 ELSE Min({@ + 1, RexmitInts + 1}),
                !.hasty = @ \/ (due /\ c.idle + 1 < RexmitInts)]

\* One connection in cc_poll.
cc_poll_conn(st, may) ==
  LET c == [cc EXCEPT !.marked = @ \/ st.drops > 0 \/ st.ecnb > 0]
      u == CASE c.alg = "dctcp_win"  -> dctcp_win_update(c, st)
             [] c.alg = "dctcp_rate" -> dctcp_rate_update(c, st)
             [] c.alg = "timely"     -> timely_update(c, st)
             [] c.alg = "const_rate" -> const_rate_update(c, st)
      raised == /\ c.alg \in {"dctcp_win", "dctcp_rate"} /\ c.marked /\ ~u.marked
                /\ IF c.alg = "dctcp_win" THEN u.window > c.window
                   ELSE u.rate > Max({c.rate, DctcpMin})
  IN  cc' = [issue_retransmits(u, st, may) EXCEPT !.raised = raised]

\* What the flow's counters can have gone up by, and the rate it used.
Stats == {s \in [drops : 0 .. 1, acks : 0 .. 1, ackb : 0 .. MaxCount, ecnb : 0 .. MaxCount,
                 rate : UsedRates, rtt : Rtts, txp : BOOLEAN] :
            /\ s.ecnb <= s.ackb /\ (s.acks = 0 => s.ackb = 0)}

\* cc_conn_init; the average rate (act) is not initialised.
cc_conn_init(alg, act) ==
  [alg |-> alg, slowstart |-> alg # "const_rate", ecn_rate |-> 0, act |-> act, window |-> 2 * Mss,
   rate |-> CASE alg = "dctcp_win"  -> window_to_rate(2 * Mss, RttInit)
              [] alg = "dctcp_rate" -> DctcpInit
              [] alg = "timely"     -> TimelyInit
              [] OTHER              -> ConstRate,
   unproc |-> NoneUnprocessed, rtt_prev |-> 0, rtt_diff |-> 0, hai_cnt |-> 0,
   rexmits |-> 0, cnt_tx_pending |-> 0,
   marked |-> FALSE, raised |-> FALSE, idle |-> 0, hasty |-> FALSE]

CongestionControlStart == {cc_conn_init(alg, act) : alg \in Algorithms, act \in {0, RateMod - 1}}

\* Which of the statistics an algorithm reads (besides ackb, acks and txp).
Reads(alg) == CASE alg = "dctcp_win"  -> {"drops", "ecnb", "rtt"}
                [] alg = "dctcp_rate" -> {"drops", "ecnb", "rate"}
                [] alg = "timely"     -> {"rtt", "rate"}
                [] OTHER              -> {}

\* What is not read is 0, and may only matters with data outstanding.
CongestionControlNext ==
  \E st \in Stats, may \in BOOLEAN :
    /\ \A f \in {"drops", "ecnb", "rtt", "rate"} \ Reads(cc.alg) : st[f] = 0
    /\ may => st.txp
    /\ cc.unproc.ackb + st.ackb <= 2 * MaxCount /\ cc.unproc.drops + st.drops <= 2 * MaxCount
    /\ cc_poll_conn(st, may)

CongestionControlSpec == cc \in CongestionControlStart /\ [][CongestionControlNext]_cc
-----------------------------------------------------------------------------
\* Congestion is never answered with a raise: a drop, a mark or a
\* retransmission since the last update that DCTCP computed keeps the next
\* one from raising window or rate, over all the intervals that
\* dctcp_rate_update only collects.  And however often the rate is cut, it
\* never becomes 0, which the queue manager of the fast path takes for no limit
\* at all; that takes a minimum above 0 (cc_dctcp_min, by default 0, and
\* cc_timely_min_rate).
CongestionCuts == ~cc.raised /\ (cc.alg # "const_rate" => cc.rate > 0)

\* The slow path retransmits only after RexmitInts intervals in a row in which
\* data was outstanding and no byte of it was acknowledged.
RexmitJustified == ~cc.hasty
=============================================================================
