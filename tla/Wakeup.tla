------------------------------- MODULE Wakeup -------------------------------
(***************************************************************************)
(* Blocking and waking up (tas_nic/blocking.c, the blocking parts of       *)
(* fast/fastemu.c, slow/kernel.c and lib/tas/init.c, lib/tas/kernel.c, and *)
(* the relay of wake-ups by tas_host).  A party that finds no work sleeps; *)
(* one that queued work for it wakes it only if it did not do so within    *)
(* the last Delta cycles, because the other polls at least that long.      *)
(*                                                                         *)
(* A behaviour follows one receiver, who, a fast path core, the slow path  *)
(* or a context of an application, and the parties that send to it.  Each  *)
(* clock value in the code is kept as its age, which Tick increases.       *)
(*   q     messages queued for the receiver;                               *)
(*   evfd  its eventfd;                                                    *)
(*   rcv   pc, and can_block, second_bar, act (the age of last_active_ts)  *)
(*         of a loop, or flags and act (of last_inev_ts) of a context; cyc *)
(*         the age of the clock read at the start of the iteration; had    *)
(*         whether it found something; ran whether it already ran in this  *)
(*         tick; tmo the timeout it sleeps with in ms, -1 for none;        *)
(*   snd   of every sender, pc, age (of last_ts) and tsc (the age of the   *)
(*         clock value that it uses);                                      *)
(*   host  the eventfds of tas_host that are set;                          *)
(*   wire  the wake-ups on the way between tas_host and the NIC.           *)
(* The margin of the code is the one poll after the interval.  A tick is   *)
(* the time of an iteration: the receiver takes at most one in a tick.  At *)
(* most SendLag ticks pass between the clock a sender reads and its        *)
(* message, and IterLag between the clock a loop reads and its polls.      *)
(***************************************************************************)
EXTENDS Integers

CONSTANTS Delta,      \* poll_cycle_tas, poll_cycle_app
          SendLag, IterLag,
          MaxQueue,   \* bound: messages queued
          Senders     \* among AllSenders

AllSenders == {"slow2core", "app2core", "core2slow", "app2slow", "core2app", "slow2app"}
ASSUME SendersKnown == Senders \subseteq AllSenders /\ {Delta, SendLag, IterLag, MaxQueue} \subseteq Nat

VARIABLES who, q, evfd, rcv, snd, host, wire
vars == <<who, q, evfd, rcv, snd, host, wire>>

To(x) == CASE x \in {"slow2core", "app2core"} -> "core"
           [] x \in {"core2slow", "app2slow"} -> "slow"
           [] OTHER -> "app"
Cap == Delta + SendLag + IterLag + 2
Older(a) == IF a < Cap THEN a + 1 ELSE Cap

--------------------------------------------------------------------------
(* Senders. *)

\* the core uses the clock it read at the start of its loop for notify_appctx
Sample(x) ==
    /\ x = "core2app" /\ snd[x].pc = "idle" /\ q < MaxQueue
    /\ snd' = [snd EXCEPT ![x].pc = "sampled", ![x].tsc = 0]
    /\ UNCHANGED <<who, q, evfd, rcv, host, wire>>

Enqueue(x) ==
    /\ IF x = "core2app" THEN snd[x].pc = "sampled" ELSE snd[x].pc = "idle" /\ q < MaxQueue
    /\ snd' = [snd EXCEPT ![x].pc = "queued"]
    /\ q' = q + 1
    /\ UNCHANGED <<who, evfd, rcv, host, wire>>

\* an eventfd of the receiver, an eventfd of tas_host, or a message to tas_host
Signal(x) ==
    CASE x \in {"slow2core", "core2slow"} -> evfd' = TRUE /\ UNCHANGED <<host, wire>>
      [] x \in {"app2core", "app2slow"} -> host' = host \cup {To(x)} /\ UNCHANGED <<evfd, wire>>
      [] OTHER -> wire' = wire \cup {"app"} /\ UNCHANGED <<evfd, host>>

\* notify_communicator, flextcp_flexnic_kick, flextcp_kernel_kick
notify_communicator(x) ==
    LET tsc == IF x = "core2app" THEN snd[x].tsc ELSE 0 IN
    /\ snd[x].pc = "queued"
    /\ snd' = [snd EXCEPT ![x] = [pc |-> "idle", age |-> tsc, tsc |-> 0]]
    /\ IF snd[x].age - tsc > Delta THEN Signal(x) ELSE UNCHANGED <<evfd, host, wire>>
    /\ UNCHANGED <<who, q, rcv>>

--------------------------------------------------------------------------
(* tas_host and the thread of the NIC that takes its messages. *)

\* the main loop of tas_host sends the flags of the slow path and of the cores
\* in each other's field; 1 in wakeup_fast stands for core 0
tas_host ==
    /\ host # {}
    /\ host' = {}
    /\ wire' = wire \cup (IF "slow" \in host THEN {"core"} ELSE {})
                    \cup (IF "core" \in host THEN {"slow"} ELSE {})
    /\ UNCHANGED <<who, q, evfd, rcv, snd>>

\* handle_recv_wakeup of the NIC, handle_wakeup of tas_host
handle_wakeup ==
    /\ wire # {}
    /\ wire' = {}
    /\ evfd' = (evfd \/ who \in wire)
    /\ UNCHANGED <<who, q, rcv, snd, host>>

--------------------------------------------------------------------------
(* The loops of the core and of the slow path. *)

\* a mutant: it blocks as soon as the interval is over
BlocksAtOnce(r, now) ==
    IF r.had THEN [r EXCEPT !.can_block = FALSE, !.second_bar = FALSE, !.act = now, !.pc = "start"]
    ELSE IF r.can_block /\ r.act - now > Delta
    THEN [r EXCEPT !.can_block = FALSE, !.act = now, !.pc = "block"]
    ELSE [r EXCEPT !.can_block = TRUE, !.pc = "start"]

\* now is the age of the clock value it is called with
notify_canblock(r, now) ==
    IF r.had THEN [r EXCEPT !.can_block = FALSE, !.second_bar = FALSE, !.act = now, !.pc = "start"]
    ELSE IF r.second_bar
    THEN [r EXCEPT !.can_block = FALSE, !.second_bar = FALSE, !.act = now, !.pc = "block"]
    ELSE IF r.can_block /\ r.act - now > Delta THEN [r EXCEPT !.second_bar = TRUE, !.pc = "start"]
    ELSE [r EXCEPT !.can_block = TRUE, !.pc = "start"]

\* dataplane_loop and slowpath_main: the clock, the polls, notify_canblock
Start ==
    /\ who # "app" /\ rcv.pc = "start" /\ ~rcv.ran
    /\ rcv' = [rcv EXCEPT !.pc = "poll", !.cyc = 0, !.ran = TRUE]
    /\ UNCHANGED <<who, q, evfd, snd, host, wire>>

Poll ==
    /\ who # "app" /\ rcv.pc = "poll"
    /\ rcv' = [rcv EXCEPT !.pc = "check", !.had = q > 0]
    /\ q' = 0
    /\ UNCHANGED <<who, evfd, snd, host, wire>>

\* the slow path reads the clock again
Check ==
    /\ who # "app" /\ rcv.pc = "check"
    /\ rcv' = [notify_canblock(rcv, IF who = "core" THEN rcv.cyc ELSE 0) EXCEPT !.had = FALSE, !.cyc = 0]
    /\ UNCHANGED <<who, q, evfd, snd, host, wire>>

\* a mutant: the timeout is not limited
Unlimited(cc, util) ==
    CASE cc # -1 /\ util # -1 -> IF cc < util THEN cc ELSE util
      [] cc # -1 /\ util = -1 -> util
      [] OTHER -> cc

\* the timeout of slowpath_block; with one timer it takes the other one, and
\* the limit for the load monitor covers that
slowpath_timeout(cc, util) ==
    LET t == CASE cc # -1 /\ util # -1 -> IF cc < util THEN cc ELSE util
               [] cc # -1 /\ util = -1 -> util
               [] OTHER -> cc
    IN IF t = -1 \/ t > 1000 THEN 10 ELSE t

Timeouts == IF who = "slow" THEN {slowpath_timeout(d[1], d[2]) : d \in {-1, 5, 2000} \X {-1, 5, 2000}}
                            ELSE {-1}

\* dataplane_block with no flow that waits for its rate, and slowpath_block
Block ==
    /\ rcv.pc = "block"
    /\ \E t \in Timeouts : rcv' = [rcv EXCEPT !.pc = "asleep", !.tmo = t]
    /\ UNCHANGED <<who, q, evfd, snd, host, wire>>

--------------------------------------------------------------------------
(* A context of an application that waits for events. *)

flextcp_context_poll ==
    /\ who = "app" /\ rcv.pc = "start" /\ ~rcv.ran
    /\ rcv' = [rcv EXCEPT !.pc = IF q > 0 THEN "start" ELSE "wait", !.ran = TRUE,
                          !.flags = @ \cup {"CALLED"} \cup (IF q > 0 THEN {"EVENTS"} ELSE {})]
    /\ q' = 0
    /\ UNCHANGED <<who, evfd, snd, host, wire>>

flextcp_context_canwait ==
    /\ who = "app" /\ rcv.pc = "wait"
    /\ LET f == rcv.flags IN
       rcv' = IF "EVENTS" \in f
              THEN [rcv EXCEPT !.pc = "start", !.flags = f \ {"EVENTS", "WANTWAIT", "LASTWAIT"}]
              ELSE IF "WANTWAIT" \in f
              THEN [rcv EXCEPT !.pc = "start",
                               !.flags = IF rcv.act > Delta
                                         THEN (f \ {"CALLED", "WANTWAIT"}) \cup {"LASTWAIT"} ELSE f]
              ELSE IF "LASTWAIT" \in f
              THEN [rcv EXCEPT !.pc = IF "CALLED" \in f THEN "asleep" ELSE "start", !.tmo = -1]
              ELSE IF "CALLED" \in f
              THEN [rcv EXCEPT !.pc = "start", !.flags = f \cup {"WANTWAIT"}, !.act = 0]
              ELSE [rcv EXCEPT !.pc = "start"]
    /\ UNCHANGED <<who, q, evfd, snd, host, wire>>

--------------------------------------------------------------------------
\* the eventfd is read; notify_canblock_reset or flextcp_context_waitclear
Wake ==
    /\ rcv.pc = "asleep" /\ (evfd \/ rcv.tmo # -1)
    /\ evfd' = FALSE
    /\ rcv' = [rcv EXCEPT !.pc = "start", !.can_block = FALSE, !.second_bar = FALSE, !.tmo = -1,
                          !.flags = @ \ {"WANTWAIT", "LASTWAIT", "CALLED"}]
    /\ UNCHANGED <<who, q, snd, host, wire>>

Busy(x) == snd[x].pc # "idle"
Tick ==
    /\ \A x \in Senders : Busy(x) => snd[x].tsc < SendLag
    /\ rcv.pc \in {"poll", "check"} => rcv.cyc < IterLag
    /\ snd' = [x \in Senders |-> [snd[x] EXCEPT !.age = Older(@), !.tsc = IF Busy(x) THEN @ + 1 ELSE 0]]
    /\ rcv' = [rcv EXCEPT !.act = Older(@), !.ran = FALSE,
                          !.cyc = IF rcv.pc \in {"poll", "check"} THEN @ + 1 ELSE 0]
    /\ UNCHANGED <<who, q, evfd, host, wire>>

Init ==
    /\ who \in {To(x) : x \in Senders}
    /\ q = 0 /\ evfd = FALSE /\ host = {} /\ wire = {}
    /\ rcv = [pc |-> "start", can_block |-> FALSE, second_bar |-> FALSE, act |-> Cap, cyc |-> 0,
              had |-> FALSE, ran |-> FALSE, tmo |-> -1, flags |-> {}]
    /\ snd = [x \in Senders |-> [pc |-> "idle", age |-> Cap, tsc |-> 0]]

Receive == Start \/ Poll \/ Check \/ Block \/ flextcp_context_poll \/ flextcp_context_canwait \/ Wake
Finish(x) == (x = "core2app" /\ Enqueue(x)) \/ notify_communicator(x)
Next ==
    \/ \E x \in Senders : To(x) = who /\ (Sample(x) \/ Enqueue(x) \/ notify_communicator(x))
    \/ Receive \/ tas_host \/ handle_wakeup \/ Tick

\* Threads run, sends come to their end, and the network delivers.
Fairness ==
    /\ WF_vars(Receive) /\ WF_vars(tas_host) /\ WF_vars(handle_wakeup) /\ WF_vars(Tick)
    /\ \A x \in Senders : WF_vars(Finish(x))
Spec == Init /\ [][Next]_vars /\ Fairness

--------------------------------------------------------------------------
(* Properties. *)

\* A core or an application never sleeps on a message while nobody is about to
\* wake it (the slow path always sleeps with a timeout): notify_communicator may
\* leave out the wake-up within Delta cycles of the last one, because
\* notify_canblock has the receiver poll once more after it was idle for as long.
NoLostWakeup ==
    who # "slow" /\ rcv.pc = "asleep" /\ q > 0
      => \/ evfd \/ who \in wire \/ host # {}
         \/ \E x \in Senders : snd[x].pc = "queued"

\* Every message is received, through a wake-up or, for the slow path, at the
\* latest when its timeout is over.
Served == q > 0 ~> q = 0
=============================================================================
