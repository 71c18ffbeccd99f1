---------------------------- MODULE WakeupProofs ----------------------------
(***************************************************************************)
(* No wake-up of a core or of an application is lost, for every length     *)
(* Delta of the polling interval, every bound on the queue and every set   *)
(* of senders that do not go through tas_host, as long as a message        *)
(* follows its clock within one iteration (Delays).                        *)
(*                                                                         *)
(* The argument: a sender leaves a wake-up out only within Delta of its    *)
(* last one.  What it sent then is still queued or was received, and then  *)
(* the receiver counts its idle time from no earlier than that (Counted).  *)
(* So at the last poll before it sleeps, which comes an iteration after    *)
(* the interval, every sender is Far from its last wake-up, and the next   *)
(* message brings a new one (Answered).                                    *)
(*                                                                         *)
(* The last section is about tas_host, which relays wake-ups: its loop     *)
(* never blocks on an event that is gone (HostAlwaysServes).               *)
(***************************************************************************)
EXTENDS Wakeup, TasHost, FiniteSetTheorems, TLAPS
-------------------------------------------------------------------------------
Delays == SendLag \in {0, 1} /\ IterLag = 0 /\ "app2core" \notin Senders

Toward == {x \in Senders : To(x) = who}
Waking == evfd \/ who \in wire
Has(f) == f \in rcv.flags
Counting == Has("WANTWAIT") \/ Has("LASTWAIT")

\* The next message of x brings a wake-up.
Far(x) == snd[x].age - (IF x = "core2app" THEN snd[x].tsc ELSE 0) > Delta

\* The receiver has polled for the last time before it sleeps.
Committed ==
  \/ rcv.pc \in {"block", "asleep"}
  \/ rcv.pc = "check" /\ rcv.second_bar /\ ~rcv.had
  \/ rcv.pc = "wait" /\ Has("LASTWAIT") /\ ~Has("EVENTS")

Receiver == [pc : {"start", "poll", "check", "block", "asleep", "wait"},
             can_block : BOOLEAN, second_bar : BOOLEAN, act : 0..Cap, cyc : {0},
             had : BOOLEAN, ran : BOOLEAN, tmo : Int,
             flags : SUBSET {"CALLED", "EVENTS", "WANTWAIT", "LASTWAIT"}]
Sender == [pc : {"idle", "sampled", "queued"}, age : 0..Cap, tsc : 0..SendLag]

Typed ==
  /\ who \in {"core", "slow", "app"} /\ q \in Nat /\ evfd \in BOOLEAN
  /\ rcv \in Receiver /\ snd \in [Senders -> Sender]
  /\ \A x \in Senders : snd[x].pc = "idle" => snd[x].tsc = 0
  /\ who # "slow" => host = {} /\ wire \subseteq {who}

\* A core: act is no older than the last message of a sender, but for its lag.
CountedCore ==
  /\ rcv.pc # "wait"
  /\ rcv.had => rcv.pc = "check"
  /\ rcv.pc \in {"poll", "check"} => rcv.ran
  /\ rcv.second_bar => /\ rcv.pc \in {"start", "poll", "check"}
                       /\ rcv.act > Delta
                       /\ rcv.pc # "start" \/ ~rcv.ran => rcv.act > Delta + 1
  /\ q = 0 /\ ~rcv.had => \A x \in Toward :
       /\ rcv.act <= snd[x].age + SendLag
       /\ snd[x].pc = "queued" => rcv.act <= snd[x].tsc

\* An application: two polls lie between a message and the start of its count.
CountedApp ==
  /\ rcv.pc \in {"start", "wait", "asleep"}
  /\ rcv.pc = "asleep" => Has("LASTWAIT") /\ ~Has("EVENTS")
  /\ Has("LASTWAIT") => rcv.act > Delta
  /\ q = 0 => \A x \in Toward :
       /\ ~Has("EVENTS") /\ Counting =>
            snd[x].pc # "queued" /\ (snd[x].age > rcv.act \/ snd[x].age = Cap)
       /\ ~Has("EVENTS") /\ ~Counting =>
            /\ rcv.pc = "start" /\ rcv.ran /\ snd[x].pc = "queued" => snd[x].tsc >= 1
            /\ rcv.pc = "wait" \/ ~rcv.ran => snd[x].pc # "queued" /\ snd[x].age >= 1
       /\ Has("EVENTS") =>
            /\ (rcv.pc = "start" /\ rcv.ran) \/ (snd[x].pc = "queued" => snd[x].tsc >= 1)
            /\ rcv.pc = "wait" /\ ~rcv.ran => snd[x].pc # "queued" /\ snd[x].age >= 1

Answered ==
  Committed => /\ \A x \in Toward : Far(x) \/ (q > 0 /\ Waking)
               /\ \A x \in Toward : snd[x].pc = "queued" => q > 0
               /\ q > 0 => Waking \/ \E x \in Senders : snd[x].pc = "queued"

WakeupInv ==
  /\ Delays /\ Typed
  /\ who = "core" => CountedCore /\ Answered
  /\ who = "app" => CountedApp /\ Answered

--------------------------------------------------------------------------
(* The steps of a sender, as the proofs use them. *)

\* The bounds on the clock values are natural numbers.
LEMMA ConstantsNat == /\ Delta \in Nat /\ SendLag \in Nat /\ IterLag \in Nat
                      /\ Cap \in Nat /\ Cap >= Delta + SendLag + 2
BY SendersKnown DEF Cap

\* Every sender has one receiver.
LEMMA ToKnown == ASSUME NEW x \in Senders
                 PROVE  /\ x \in AllSenders /\ To(x) \in {"core", "slow", "app"}
                        /\ To(x) = "core" <=> x \in {"slow2core", "app2core"}
                        /\ To(x) = "slow" <=> x \in {"core2slow", "app2slow"}
                        /\ To(x) = "app" <=> x \in {"core2app", "slow2app"}
BY SendersKnown DEF To, AllSenders

\* At the start nobody has polled, and every sender is Far.
LEMMA InitWakeupInv == ASSUME Delays PROVE Init => WakeupInv
<1> SUFFICES ASSUME Init PROVE WakeupInv
  OBVIOUS
<1>1. who \in {"core", "slow", "app"}
  BY ToKnown DEF Init
<1>2. Typed
  <2>1. rcv \in Receiver
    BY ConstantsNat DEF Init, Receiver
  <2>2. snd \in [Senders -> Sender]
    BY ConstantsNat DEF Init, Sender
  <2> QED
    BY <1>1, <2>1, <2>2, Zenon DEF Init, Typed
<1>3. CountedCore /\ CountedApp /\ ~Committed
  BY ConstantsNat DEF Init, CountedCore, CountedApp, Committed, Toward, Has, Counting
<1> QED
  BY <1>2, <1>3 DEF WakeupInv, Answered

\* A step that signals is seen by Waking, and tas_host has nothing to do.
LEMMA SignalWakes ==
  ASSUME Delays, Typed, who # "slow", NEW x \in Senders, To(x) = who, Signal(x), who' = who
  PROVE  Waking' /\ host' = {} /\ wire' \subseteq {who} /\ evfd' \in BOOLEAN
BY ToKnown, Zenon DEF Delays, Typed, Signal, Waking

\* What a step may do to the record of a sender, and to that of the receiver.
LEMMA SenderStep ==
  ASSUME Typed, NEW x \in Senders, NEW s \in Sender, snd' = [snd EXCEPT ![x] = s],
         s.pc = "idle" => s.tsc = 0
  PROVE  /\ snd' \in [Senders -> Sender]
         /\ \A y \in Senders : snd'[y].pc = "idle" => snd'[y].tsc = 0
BY DEF Typed

\* notify_canblock returns a receiver, whichever way it decides.
LEMMA CanblockTyped == ASSUME NEW r \in Receiver PROVE notify_canblock(r, 0) \in Receiver
<1>0. 0 \in 0..Cap
  BY ConstantsNat
<1>1. CASE r.had
  BY <1>0, <1>1, Zenon DEF notify_canblock, Receiver
<1>2. CASE ~r.had /\ r.second_bar
  BY <1>0, <1>2, Zenon DEF notify_canblock, Receiver
<1>3. CASE ~r.had /\ ~r.second_bar /\ r.can_block /\ r.act - 0 > Delta
  BY <1>3, Zenon DEF notify_canblock, Receiver
<1>4. CASE ~r.had /\ ~r.second_bar /\ ~(r.can_block /\ r.act - 0 > Delta)
  BY <1>4, Zenon DEF notify_canblock, Receiver
<1> QED
  BY <1>1, <1>2, <1>3, <1>4

\* The timeout of slowpath_block is a number of milliseconds.
LEMMA TimeoutInt == ASSUME NEW cc \in Int, NEW util \in Int PROVE slowpath_timeout(cc, util) \in Int
BY DEF slowpath_timeout

\* A receiver that goes to sleep or gets up is one.
LEMMA TimeoutTyped ==
  ASSUME NEW r \in Receiver, NEW p \in {"start", "asleep"}, NEW t \in Int
  PROVE  [r EXCEPT !.pc = p, !.tmo = t] \in Receiver
BY Zenon DEF Receiver

\* Every step keeps the types, and keeps tas_host out of the way.
LEMMA TypedStep == ASSUME WakeupInv, [Next]_vars PROVE Typed'
<1> USE ConstantsNat DEF WakeupInv
<1>1. ASSUME NEW x \in Senders, To(x) = who, Sample(x) PROVE Typed'
  <2>1. snd[x] \in Sender
    BY DEF Typed
  <2>2. [snd[x] EXCEPT !.pc = "sampled", !.tsc = 0] \in Sender
    <3>1. 0 \in 0..SendLag
      OBVIOUS
    <3> QED
      BY ONLY <2>1, <3>1, Zenon DEF Sender
  <2>3. snd' = [snd EXCEPT ![x] = [snd[x] EXCEPT !.pc = "sampled", !.tsc = 0]]
    BY <1>1, Zenon DEF Sample
  <2> QED
    BY <1>1, <2>1, <2>2, <2>3, SenderStep DEF Sample, Typed, Sender
<1>2. ASSUME NEW x \in Senders, To(x) = who, Enqueue(x) PROVE Typed'
  <2>1. snd[x] \in Sender
    BY DEF Typed
  <2>2. [snd[x] EXCEPT !.pc = "queued"] \in Sender
    BY <2>1 DEF Sender
  <2>3. snd' = [snd EXCEPT ![x] = [snd[x] EXCEPT !.pc = "queued"]]
    BY <1>2 DEF Enqueue
  <2> QED
    BY <1>2, <2>1, <2>2, <2>3, SenderStep DEF Enqueue, Typed, Sender
<1>3. ASSUME NEW x \in Senders, To(x) = who, notify_communicator(x) PROVE Typed'
  <2> DEFINE tsc == IF x = "core2app" THEN snd[x].tsc ELSE 0
             s == [pc |-> "idle", age |-> tsc, tsc |-> 0]
  <2>1. who' = who /\ q' = q /\ rcv' = rcv /\ snd' = [snd EXCEPT ![x] = s]
    BY <1>3 DEF notify_communicator
  <2>2. s \in Sender
    BY DEF Typed, Sender
  <2>3. evfd' \in BOOLEAN /\ (who # "slow" => host' = {} /\ wire' \subseteq {who})
    <3>1. CASE Signal(x)
      BY <3>1, <1>3, <2>1, SignalWakes, Zenon DEF Typed, Signal
    <3>2. CASE UNCHANGED <<evfd, host, wire>>
      BY <3>2 DEF Typed
    <3> QED
      BY <3>1, <3>2, <1>3 DEF notify_communicator
  <2>4. /\ snd' \in [Senders -> Sender]
        /\ \A y \in Senders : snd'[y].pc = "idle" => snd'[y].tsc = 0
    BY <2>1, <2>2, SenderStep, Zenon
  <2> QED
    BY <2>1, <2>3, <2>4 DEF Typed
<1>4. CASE Start
  BY <1>4, Zenon DEF Start, Typed, Receiver
<1>5. CASE Poll
  <2> DEFINE found == q > 0
  <2>1. found \in BOOLEAN /\ rcv' = [rcv EXCEPT !.pc = "check", !.had = found]
    BY <1>5 DEF Poll
  <2> HIDE DEF found
  <2>2. rcv' \in Receiver
    BY <2>1, Zenon DEF Typed, Receiver
  <2> QED
    BY <1>5, <2>2 DEF Poll, Typed
<1>6. CASE Check
  <2>1. rcv.cyc = 0 /\ notify_canblock(rcv, 0) \in Receiver
    BY CanblockTyped DEF Typed, Receiver
  <2>2. rcv' = [notify_canblock(rcv, 0) EXCEPT !.had = FALSE, !.cyc = 0]
    BY <1>6, <2>1 DEF Check
  <2>3. rcv' \in Receiver
    BY <2>1, <2>2, Zenon DEF Receiver
  <2> QED
    BY <1>6, <2>3 DEF Check, Typed
<1>7. CASE Block
  <2>1. PICK t \in Timeouts : rcv' = [rcv EXCEPT !.pc = "asleep", !.tmo = t]
    BY <1>7, Zenon DEF Block
  <2>2. t \in Int
    <3>1. CASE who = "slow"
      <4>1. PICK d \in {-1, 5, 2000} \X {-1, 5, 2000} : t = slowpath_timeout(d[1], d[2])
        <5>1. t \in {slowpath_timeout(d[1], d[2]) : d \in {-1, 5, 2000} \X {-1, 5, 2000}}
          BY <3>1 DEF Timeouts
        <5> QED
          BY ONLY <5>1, SMT
      <4>2. d[1] \in Int /\ d[2] \in Int
        OBVIOUS
      <4> QED
        BY <4>1, <4>2, TimeoutInt
    <3>2. CASE who # "slow"
      BY <3>2 DEF Timeouts
    <3> QED
      BY <3>1, <3>2
  <2>3. rcv \in Receiver
    BY DEF Typed
  <2>4. rcv' \in Receiver
    BY ONLY <2>1, <2>2, <2>3, "asleep" \in {"start", "asleep"}, TimeoutTyped, Zenon
  <2> QED
    BY <1>7, <2>4 DEF Block, Typed
<1>8. CASE flextcp_context_poll
  BY <1>8, Zenon DEF flextcp_context_poll, Typed, Receiver
<1>9. CASE flextcp_context_canwait
  <2>0. rcv \in Receiver /\ rcv.flags \in SUBSET {"CALLED", "EVENTS", "WANTWAIT", "LASTWAIT"}
    BY DEF Typed, Receiver
  <2>6. rcv' \in Receiver
    <3> DEFINE f == rcv.flags
    <3>1. CASE "EVENTS" \in f
      <4>1. rcv' = [rcv EXCEPT !.pc = "start", !.flags = f \ {"EVENTS", "WANTWAIT", "LASTWAIT"}]
        BY <1>9, <3>1 DEF flextcp_context_canwait
      <4> QED
        BY ONLY <2>0, <4>1, Zenon DEF Receiver
    <3>2. CASE "EVENTS" \notin f /\ "WANTWAIT" \in f
      <4> DEFINE g == IF rcv.act > Delta THEN (f \ {"CALLED", "WANTWAIT"}) \cup {"LASTWAIT"} ELSE f
      <4>1. rcv' = [rcv EXCEPT !.pc = "start", !.flags = g]
        BY <1>9, <3>2 DEF flextcp_context_canwait
      <4>2. g \in SUBSET {"CALLED", "EVENTS", "WANTWAIT", "LASTWAIT"}
        BY <2>0
      <4> HIDE DEF g
      <4> QED
        BY ONLY <2>0, <4>1, <4>2, Zenon DEF Receiver
    <3>3. CASE "EVENTS" \notin f /\ "WANTWAIT" \notin f /\ "LASTWAIT" \in f
      <4> DEFINE p == IF "CALLED" \in f THEN "asleep" ELSE "start"
      <4>1. rcv' = [rcv EXCEPT !.pc = p, !.tmo = -1] /\ p \in {"asleep", "start"}
        BY <1>9, <3>3 DEF flextcp_context_canwait
      <4> HIDE DEF p
      <4> QED
        BY ONLY <2>0, <4>1, -1 \in Int, TimeoutTyped, Zenon
    <3>4. CASE f \cap {"EVENTS", "WANTWAIT", "LASTWAIT"} = {} /\ "CALLED" \in f
      <4>1. rcv' = [rcv EXCEPT !.pc = "start", !.flags = f \cup {"WANTWAIT"}, !.act = 0]
        BY <1>9, <3>4 DEF flextcp_context_canwait
      <4>2. 0 \in 0..Cap /\ f \cup {"WANTWAIT"} \in SUBSET {"CALLED", "EVENTS", "WANTWAIT", "LASTWAIT"}
        BY <2>0
      <4> QED
        BY ONLY <2>0, <4>1, <4>2, Zenon DEF Receiver
    <3>5. CASE f \cap {"EVENTS", "WANTWAIT", "LASTWAIT"} = {} /\ "CALLED" \notin f
      <4>1. rcv' = [rcv EXCEPT !.pc = "start"]
        BY <1>9, <3>5 DEF flextcp_context_canwait
      <4> QED
        BY ONLY <2>0, <4>1 DEF Receiver
    <3> QED
      BY <3>1, <3>2, <3>3, <3>4, <3>5
  <2> QED
    BY <1>9, <2>6 DEF flextcp_context_canwait, Typed
<1>10. CASE Wake
  <2> DEFINE g == rcv.flags \ {"WANTWAIT", "LASTWAIT", "CALLED"}
  <2>1. rcv \in Receiver /\ g \in SUBSET {"CALLED", "EVENTS", "WANTWAIT", "LASTWAIT"}
    BY DEF Typed, Receiver
  <2>2. rcv' = [rcv EXCEPT !.pc = "start", !.can_block = FALSE, !.second_bar = FALSE, !.tmo = -1,
                           !.flags = g]
    BY <1>10 DEF Wake
  <2> HIDE DEF g
  <2>3. rcv' \in Receiver
    BY ONLY <2>1, <2>2, -1 \in Int, Zenon DEF Receiver
  <2> QED
    BY <1>10, <2>3, Zenon DEF Wake, Typed
<1>11. CASE tas_host
  BY <1>11 DEF tas_host, Typed
<1>12. CASE handle_wakeup
  BY <1>12 DEF handle_wakeup, Typed
<1>13. CASE Tick
  <2>1. rcv \in Receiver /\ Older(rcv.act) \in 0..Cap
    BY DEF Typed, Receiver, Older
  <2>2. rcv' = [rcv EXCEPT !.act = Older(rcv.act), !.ran = FALSE, !.cyc = 0]
    <3>1. rcv.cyc = 0 /\ IterLag = 0 /\ rcv.pc \notin {"poll", "check"}
      <4>1. rcv.pc \in {"poll", "check"} => rcv.cyc < IterLag
        BY <1>13, Zenon DEF Tick
      <4> QED
        BY <2>1, <4>1 DEF Receiver, Delays
    <3> QED
      BY <1>13, <3>1, Zenon DEF Tick
  <2>3. rcv' \in Receiver
    BY <2>1, <2>2, Zenon DEF Receiver
  <2>4. ASSUME NEW x \in Senders PROVE snd'[x] \in Sender /\ (snd'[x].pc = "idle" => snd'[x].tsc = 0)
    <3> DEFINE s == snd[x]
               t == IF Busy(x) THEN s.tsc + 1 ELSE 0
    <3>1. s \in Sender
      BY DEF Typed
    <3>2. t \in 0..SendLag /\ (s.pc = "idle" => t = 0)
      <4>1. s.tsc \in 0..SendLag /\ (s.pc # "idle" => s.tsc < SendLag)
        BY <1>13, <3>1, Zenon DEF Tick, Busy, Sender
      <4> QED
        BY <4>1 DEF Busy
    <3>3. Older(s.age) \in 0..Cap
      BY <3>1 DEF Sender, Older
    <3>4. snd'[x] = [s EXCEPT !.age = Older(s.age), !.tsc = t]
      BY <1>13, Zenon DEF Tick
    <3> HIDE DEF s, t
    <3> QED
      BY <3>1, <3>2, <3>3, <3>4, Zenon DEF Sender
  <2>5. snd' \in [Senders -> Sender]
    <3>1. snd' = [x \in Senders |-> snd'[x]]
      BY <1>13, Zenon DEF Tick
    <3> QED
      BY <2>4, <3>1
  <2> QED
    BY <1>13, <2>3, <2>4, <2>5, Zenon DEF Tick, Typed
<1>14. CASE UNCHANGED vars
  BY <1>14 DEF vars, Typed
<1> QED
  BY <1>1, <1>2, <1>3, <1>4, <1>5, <1>6, <1>7, <1>8, <1>9, <1>10, <1>11, <1>12, <1>13, <1>14
     DEF Next, Receive

--------------------------------------------------------------------------
(* What the steps that a core and an application share do to the fields. *)

\* A notification ends a send; it wakes the receiver if the sender is Far.
LEMMA NotifyStep ==
  ASSUME Delays, Typed, who # "slow", NEW x \in Senders, To(x) = who, notify_communicator(x)
  PROVE  /\ snd[x].pc = "queued" /\ rcv' = rcv /\ q' = q
         /\ snd'[x].pc = "idle" /\ snd'[x].tsc = 0
         /\ snd'[x].age = IF x = "core2app" THEN snd[x].tsc ELSE 0
         /\ \A y \in Senders \ {x} : snd'[y] = snd[y]
         /\ Far(x) \/ Waking => Waking'
<1>1. who' = who /\ snd[x].pc = "queued" /\ rcv' = rcv /\ q' = q
  BY DEF notify_communicator
<1>2. /\ snd'[x].pc = "idle" /\ snd'[x].tsc = 0
      /\ snd'[x].age = IF x = "core2app" THEN snd[x].tsc ELSE 0
      /\ \A y \in Senders \ {x} : snd'[y] = snd[y]
  BY DEF notify_communicator, Typed
<1>3. Far(x) => Signal(x)
  BY Zenon DEF notify_communicator, Far
<1>4. Signal(x) \/ UNCHANGED <<evfd, host, wire>>
  BY Zenon DEF notify_communicator
<1>5. Signal(x) => Waking'
  BY <1>1, SignalWakes
<1>6. UNCHANGED <<evfd, host, wire>> /\ Waking => Waking'
  BY <1>1 DEF Waking
<1> QED
  BY <1>1, <1>2, <1>3, <1>4, <1>5, <1>6

\* A tick ages every clock value, and finds no loop between its clock and notify_canblock.
LEMMA TickStep ==
  ASSUME Delays, Typed, Tick
  PROVE  /\ rcv.pc \notin {"poll", "check"} /\ rcv'.pc = rcv.pc /\ rcv'.act = Older(rcv.act)
         /\ rcv'.second_bar = rcv.second_bar /\ rcv'.had = rcv.had /\ rcv'.flags = rcv.flags
         /\ ~rcv'.ran
         /\ q' = q /\ evfd' = evfd /\ wire' = wire
         /\ \A x \in Senders : /\ snd'[x].pc = snd[x].pc /\ snd'[x].age = Older(snd[x].age)
                               /\ snd[x].pc # "idle" => snd[x].tsc < SendLag /\ snd'[x].tsc = snd[x].tsc + 1
                               /\ snd[x].pc = "idle" => snd'[x].tsc = 0
<1>1. rcv \in Receiver /\ snd \in [Senders -> Sender] /\ IterLag = 0
  BY DEF Typed, Delays
<1>2. rcv.pc \notin {"poll", "check"}
  <2>1. rcv.pc \in {"poll", "check"} => rcv.cyc < IterLag
    BY Zenon DEF Tick
  <2> QED
    BY <1>1, <2>1 DEF Receiver
<1>3. rcv' = [rcv EXCEPT !.act = Older(rcv.act), !.ran = FALSE, !.cyc = 0]
  BY <1>2, Zenon DEF Tick
<1>4. /\ rcv'.pc = rcv.pc /\ rcv'.act = Older(rcv.act) /\ ~rcv'.ran
      /\ rcv'.second_bar = rcv.second_bar /\ rcv'.had = rcv.had /\ rcv'.flags = rcv.flags
  BY <1>1, <1>3 DEF Receiver
<1>5. ASSUME NEW x \in Senders
      PROVE  /\ snd'[x].pc = snd[x].pc /\ snd'[x].age = Older(snd[x].age)
             /\ snd[x].pc # "idle" => snd[x].tsc < SendLag /\ snd'[x].tsc = snd[x].tsc + 1
             /\ snd[x].pc = "idle" => snd'[x].tsc = 0
  <2> DEFINE t == IF Busy(x) THEN snd[x].tsc + 1 ELSE 0
  <2>1. snd'[x] = [snd[x] EXCEPT !.age = Older(snd[x].age), !.tsc = t]
    BY Zenon DEF Tick
  <2>2. snd[x] \in Sender
    BY <1>1
  <2>3. snd'[x].pc = snd[x].pc /\ snd'[x].age = Older(snd[x].age) /\ snd'[x].tsc = t
    BY ONLY <2>1, <2>2 DEF Sender
  <2> QED
    BY <2>3, Zenon DEF Tick, Busy
<1> QED
  BY <1>2, <1>4, <1>5, Zenon DEF Tick

--------------------------------------------------------------------------
(* A fast path core. *)

\* Every step keeps the idle count of a core no older than the last message,
\* and so finds every sender Far when second_bar lets the core block.
LEMMA CoreStep == ASSUME WakeupInv, [Next]_vars, who = "core" PROVE CountedCore' /\ Answered'
<1> USE ConstantsNat
<1>1. Typed /\ Typed' /\ CountedCore /\ Answered /\ SendLag \in {0, 1} /\ IterLag = 0
  BY TypedStep DEF WakeupInv, Delays
<1>2. who' = who
  BY Zenon DEF Next, vars, Sample, Enqueue, notify_communicator, Receive, Start, Poll, Check, Block,
         flextcp_context_poll, flextcp_context_canwait, Wake, tas_host, handle_wakeup, Tick
<1>3. Toward' = Toward /\ Toward \subseteq {"slow2core"} \cap Senders
  BY <1>2, ToKnown DEF Toward, WakeupInv, Delays
<1>4. /\ rcv.act \in Int /\ rcv'.act \in Int /\ rcv.act <= Cap /\ rcv.act >= 0 /\ q \in Nat
      /\ \A x \in Toward : /\ snd[x].age \in 0..Cap /\ snd[x].tsc \in 0..SendLag
                          /\ snd'[x].age \in 0..Cap /\ snd'[x].tsc \in 0..SendLag
  BY <1>1, <1>3 DEF Typed, Receiver, Sender
<1>5. ASSUME NEW x \in Senders, To(x) = who, Sample(x) PROVE FALSE
  BY <1>5, ToKnown DEF Sample
<1>6. ASSUME NEW x \in Senders, To(x) = who, Enqueue(x) PROVE CountedCore' /\ Answered'
  <2>1. /\ rcv' = rcv /\ evfd' = evfd /\ wire' = wire /\ q' = q + 1
        /\ snd'[x].pc = "queued"
        /\ \A y \in Senders : snd'[y].age = snd[y].age
    BY <1>1, <1>6 DEF Enqueue, Typed, Sender
  <2>2. CountedCore'
    BY <1>1, <1>3, <1>4, <2>1 DEF CountedCore
  <2>3. Answered'
    BY <1>1, <1>2, <1>3, <1>4, <2>1 DEF Answered, Committed, Far, Waking, Has
  <2> QED
    BY <2>2, <2>3
<1>7. ASSUME NEW x \in Senders, To(x) = who, notify_communicator(x) PROVE CountedCore' /\ Answered'
  <2>1. x = "slow2core" /\ x \in Toward /\ Toward = {x}
    BY <1>3, <1>7 DEF Toward
  <2>2. /\ snd[x].pc = "queued" /\ rcv' = rcv /\ q' = q
        /\ snd'[x].age = 0 /\ snd'[x].pc = "idle" /\ (Far(x) \/ Waking => Waking')
    BY <1>1, <1>7, <2>1, NotifyStep DEF WakeupInv
  <2>3. CountedCore'
    BY <1>1, <1>3, <1>4, <2>1, <2>2 DEF CountedCore
  <2>4. Answered'
    BY <1>1, <1>3, <2>1, <2>2 DEF Answered, Committed, Has
  <2> QED
    BY <2>3, <2>4
<1>8. CASE Start
  <2>1. /\ rcv'.pc = "poll" /\ rcv'.act = rcv.act /\ rcv'.second_bar = rcv.second_bar
        /\ rcv'.had = rcv.had /\ rcv'.ran /\ rcv.pc = "start" /\ ~rcv.ran
        /\ q' = q /\ snd' = snd
    BY <1>1, <1>8 DEF Start, Typed, Receiver
  <2>2. CountedCore'
    BY <1>1, <1>3, <2>1 DEF CountedCore
  <2> QED
    BY <2>1, <2>2 DEF Answered, Committed
<1>9. CASE Poll
  <2>1. /\ rcv'.pc = "check" /\ rcv'.act = rcv.act /\ rcv'.second_bar = rcv.second_bar
        /\ rcv'.had <=> q > 0
        /\ rcv'.ran = rcv.ran /\ rcv.pc = "poll"
        /\ q' = 0 /\ snd' = snd
    BY <1>1, <1>9, Zenon DEF Poll, Typed, Receiver
  <2>2. CountedCore'
    BY <1>1, <1>3, <1>4, <2>1 DEF CountedCore
  <2>3. ASSUME NEW x \in Toward, rcv'.second_bar, ~rcv'.had
        PROVE  snd[x].age > Delta /\ snd[x].pc # "queued"
    BY <1>1, <1>4, <2>1, <2>3 DEF CountedCore
  <2>4. Answered'
    <3>1. q' = 0 /\ (Committed' <=> rcv'.second_bar /\ ~rcv'.had)
      BY <2>1 DEF Committed
    <3>2. ASSUME Committed', NEW x \in Toward PROVE Far(x)' /\ snd'[x].pc # "queued"
      <4>1. x = "slow2core" /\ snd'[x] = snd[x] /\ snd[x].age > Delta /\ snd[x].pc # "queued"
        BY <1>3, <2>1, <2>3, <3>1, <3>2
      <4> QED
        BY <1>4, <4>1 DEF Far
    <3> QED
      BY <1>3, <3>1, <3>2 DEF Answered
  <2> QED
    BY <2>2, <2>4
<1>10. CASE Check
  <2>1. /\ q' = q /\ snd' = snd /\ evfd' = evfd /\ wire' = wire /\ rcv.pc = "check" /\ rcv.ran
        /\ rcv' = [notify_canblock(rcv, 0) EXCEPT !.had = FALSE, !.cyc = 0]
    BY <1>1, <1>10, Zenon DEF Check, Typed, Receiver, CountedCore
  <2>2. notify_canblock(rcv, 0) \in Receiver
    BY <1>1, CanblockTyped DEF Typed
  <2> DEFINE r == notify_canblock(rcv, 0)
  <2>3. /\ rcv'.pc = r.pc /\ rcv'.act = r.act /\ rcv'.second_bar = r.second_bar /\ rcv'.ran = r.ran
        /\ ~rcv'.had
    BY <2>1, <2>2 DEF Receiver
  <2>4. CASE rcv.had
    <3>1. r.pc = "start" /\ r.act = 0 /\ ~r.second_bar
      BY <1>1, <2>4 DEF notify_canblock, Typed, Receiver
    <3> QED
      BY <1>3, <1>4, <2>1, <2>3, <3>1 DEF CountedCore, Answered, Committed
  <2>5. CASE ~rcv.had /\ rcv.second_bar
    <3>1. r.pc = "block" /\ r.act = 0 /\ ~r.second_bar
      BY <1>1, <2>5 DEF notify_canblock, Typed, Receiver
    <3>2. CountedCore'
      BY <1>3, <1>4, <2>1, <2>3, <3>1 DEF CountedCore
    <3>3. Committed
      BY <2>1, <2>5 DEF Committed
    <3> QED
      BY <1>1, <1>2, <1>3, <2>1, <3>2, <3>3 DEF Answered, Far, Waking
  <2>6. CASE ~rcv.had /\ ~rcv.second_bar
    <3>1. r.pc = "start" /\ r.act = rcv.act /\ r.ran = rcv.ran /\ (r.second_bar => rcv.act > Delta)
      <4>1. CASE rcv.can_block /\ rcv.act - 0 > Delta
        BY <1>1, <1>4, <2>6, <4>1 DEF notify_canblock, Typed, Receiver
      <4>2. CASE ~(rcv.can_block /\ rcv.act - 0 > Delta)
        BY <1>1, <2>6, <4>2 DEF notify_canblock, Typed, Receiver
      <4> QED
        BY <4>1, <4>2
    <3> QED
      BY <1>1, <1>3, <2>1, <2>3, <2>6, <3>1, Zenon DEF CountedCore, Answered, Committed
  <2> QED
    BY <2>4, <2>5, <2>6
<1>11. CASE Block
  <2>1. /\ rcv'.pc = "asleep" /\ rcv'.act = rcv.act /\ rcv'.second_bar = rcv.second_bar
        /\ rcv'.had = rcv.had /\ rcv.pc = "block" /\ q' = q /\ snd' = snd /\ evfd' = evfd /\ wire' = wire
    BY <1>1, <1>11 DEF Block, Typed, Receiver
  <2>2. CountedCore'
    BY <1>1, <1>3, <2>1 DEF CountedCore
  <2> QED
    BY <1>1, <1>2, <1>3, <2>1, <2>2 DEF Answered, Committed, Far, Waking
<1>12. ~flextcp_context_poll /\ ~flextcp_context_canwait
  BY DEF flextcp_context_poll, flextcp_context_canwait
<1>13. CASE Wake
  <2>1. /\ rcv'.pc = "start" /\ rcv'.act = rcv.act /\ ~rcv'.second_bar
        /\ rcv'.had = rcv.had /\ rcv.pc = "asleep" /\ q' = q /\ snd' = snd
    BY <1>1, <1>13 DEF Wake, Typed, Receiver
  <2> QED
    BY <1>1, <1>3, <2>1 DEF CountedCore, Answered, Committed
<1>14. ~tas_host
  BY <1>1 DEF tas_host, Typed
<1>15. CASE handle_wakeup
  <2>1. Waking' /\ q' = q /\ rcv' = rcv /\ snd' = snd
    BY <1>1, <1>15, Zenon DEF handle_wakeup, Typed, Waking
  <2> QED
    BY <1>1, <1>3, <2>1 DEF CountedCore, Answered, Committed, Far, Has
<1>16. CASE Tick
  <2>1. /\ rcv.pc \notin {"poll", "check"} /\ rcv'.pc = rcv.pc /\ rcv'.act = Older(rcv.act)
        /\ rcv'.second_bar = rcv.second_bar /\ rcv'.had = rcv.had /\ rcv'.flags = rcv.flags
        /\ q' = q /\ evfd' = evfd /\ wire' = wire
    BY <1>1, <1>16, TickStep DEF WakeupInv
  <2>2. ASSUME NEW x \in Toward
        PROVE  /\ snd'[x].pc = snd[x].pc /\ snd'[x].age = Older(snd[x].age) /\ x = "slow2core"
               /\ snd[x].pc = "queued" => snd'[x].tsc = snd[x].tsc + 1
    BY <1>1, <1>3, <1>16, TickStep DEF WakeupInv
  <2>3. CountedCore'
    BY <1>1, <1>3, <1>4, <2>1, <2>2 DEF CountedCore, Older
  <2>4. /\ Committed' <=> Committed
        /\ Waking' <=> Waking
        /\ (\E x \in Senders : snd[x].pc = "queued") => \E x \in Senders : snd'[x].pc = "queued"
    BY <1>1, <1>2, <1>16, <2>1, TickStep DEF Committed, Has, Waking, WakeupInv
  <2>5. ASSUME NEW x \in Toward, Far(x) PROVE Far(x)'
    BY <1>4, <2>5, <2>2 DEF Far, Older
  <2>6. Answered'
    BY <1>1, <1>3, <2>1, <2>4, <2>5, <2>2 DEF Answered
  <2> QED
    BY <2>3, <2>6
<1>17. CASE UNCHANGED vars
  BY <1>1, <1>17 DEF vars, CountedCore, Answered, Committed, Far, Waking, Has, Toward
<1> QED
  BY <1>5, <1>6, <1>7, <1>8, <1>9, <1>10, <1>11, <1>12, <1>13, <1>14, <1>15, <1>16, <1>17
     DEF Next, Receive

--------------------------------------------------------------------------
(* An application. *)

\* Every step keeps two polls between a message and the count of an application,
\* which flextcp_context_canwait starts with WANTWAIT and ends with LASTWAIT.
LEMMA AppStep == ASSUME WakeupInv, [Next]_vars, who = "app" PROVE CountedApp' /\ Answered'
<1> USE ConstantsNat
<1>1. Typed /\ Typed' /\ CountedApp /\ Answered /\ Delays /\ SendLag \in {0, 1}
  BY TypedStep DEF WakeupInv, Delays
<1>2. who' = who
  BY Zenon DEF Next, vars, Sample, Enqueue, notify_communicator, Receive, Start, Poll, Check, Block,
         flextcp_context_poll, flextcp_context_canwait, Wake, tas_host, handle_wakeup, Tick
<1>3. Toward' = Toward /\ Toward \subseteq {"core2app", "slow2app"} \cap Senders
  BY <1>2, ToKnown DEF Toward
<1>4. /\ rcv.act \in Int /\ rcv'.act \in Int /\ rcv.act <= Cap /\ rcv.act >= 0 /\ q \in Nat
      /\ \A x \in Toward : /\ snd[x].age \in 0..Cap /\ snd[x].tsc \in 0..SendLag
                          /\ snd'[x].age \in 0..Cap /\ snd'[x].tsc \in 0..SendLag
  BY <1>1, <1>3 DEF Typed, Receiver, Sender
<1>5. \A x \in Toward : snd[x].pc = "idle" => snd[x].tsc = 0
  BY <1>1, <1>3 DEF Typed
<1>6. ASSUME NEW x \in Senders, To(x) = who, Sample(x) PROVE CountedApp' /\ Answered'
  <2>1. /\ rcv' = rcv /\ evfd' = evfd /\ wire' = wire /\ q' = q /\ x \in Toward
        /\ snd[x].pc = "idle" /\ snd'[x].pc = "sampled" /\ snd'[x].tsc = 0 /\ snd'[x].age = snd[x].age
        /\ \A y \in Senders \ {x} : snd'[y] = snd[y]
    BY <1>1, <1>6 DEF Sample, Typed, Sender, Toward
  <2>2. CountedApp'
    BY <1>1, <1>3, <1>4, <2>1 DEF CountedApp, Has, Counting
  <2>3. ASSUME NEW y \in Toward, Far(y) PROVE Far(y)'
    <3>1. CASE y = x
      <4>1. /\ snd[x].tsc = 0 /\ snd'[x].tsc = 0 /\ snd'[x].age = snd[x].age /\ snd[x].age \in Int
        BY <1>4, <1>5, <2>1
      <4> QED
        BY ONLY <2>3, <3>1, <4>1 DEF Far
    <3>2. CASE y # x
      BY <1>3, <2>1, <2>3, <3>2 DEF Far
    <3> QED
      BY <3>1, <3>2
  <2>4. Answered'
    BY <1>1, <1>2, <1>3, <2>1, <2>3 DEF Answered, Committed, Waking, Has
  <2> QED
    BY <2>2, <2>4
<1>7. ASSUME NEW x \in Senders, To(x) = who, Enqueue(x) PROVE CountedApp' /\ Answered'
  <2>1. /\ rcv' = rcv /\ evfd' = evfd /\ wire' = wire /\ q' = q + 1
        /\ snd'[x].pc = "queued"
        /\ \A y \in Senders : snd'[y].age = snd[y].age /\ snd'[y].tsc = snd[y].tsc
    BY <1>1, <1>7 DEF Enqueue, Typed, Sender
  <2>2. CountedApp'
    BY <1>1, <1>3, <1>4, <2>1 DEF CountedApp, Has
  <2>3. Answered'
    BY <1>1, <1>2, <1>3, <1>4, <2>1 DEF Answered, Committed, Far, Waking, Has
  <2> QED
    BY <2>2, <2>3
<1>8. ASSUME NEW x \in Senders, To(x) = who, notify_communicator(x) PROVE CountedApp' /\ Answered'
  <2>1. /\ x \in Toward /\ snd[x].pc = "queued" /\ rcv' = rcv /\ q' = q
        /\ snd'[x].pc = "idle" /\ snd'[x].tsc = 0 /\ (Far(x) \/ Waking => Waking')
        /\ \A y \in Senders \ {x} : snd'[y] = snd[y]
    BY <1>1, <1>8, NotifyStep DEF Toward
  <2>2. CountedApp'
    BY <1>1, <1>3, <1>4, <2>1 DEF CountedApp, Has, Counting
  <2>3. ASSUME NEW y \in Toward, y # x, Far(y) PROVE Far(y)'
    BY <1>3, <2>1, <2>3 DEF Far
  <2>4. Answered'
    BY <1>1, <1>3, <2>1, <2>3 DEF Answered, Committed, Has
  <2> QED
    BY <2>2, <2>4
<1>9. ~Start /\ ~Poll /\ ~Check
  BY DEF Start, Poll, Check
<1>10. ~Block
  BY <1>1, Zenon DEF Block, CountedApp
<1>11. CASE flextcp_context_poll
  <2>1. /\ rcv.pc = "start" /\ ~rcv.ran /\ rcv'.ran /\ rcv'.act = rcv.act /\ q' = 0 /\ snd' = snd
        /\ q > 0 => rcv'.pc = "start" /\ rcv'.flags = rcv.flags \cup {"CALLED", "EVENTS"}
        /\ q = 0 => rcv'.pc = "wait" /\ rcv'.flags = rcv.flags \cup {"CALLED"}
    BY <1>1, <1>11 DEF flextcp_context_poll, Typed, Receiver
  <2>2. CASE q > 0
    BY <1>1, <1>3, <2>1, <2>2 DEF CountedApp, Answered, Committed, Has, Counting
  <2>3. CASE q = 0
    <3>1. \A f \in {"EVENTS", "WANTWAIT", "LASTWAIT"} : Has(f)' <=> Has(f)
      BY <2>1, <2>3 DEF Has
    <3>2. CountedApp'
      BY <1>1, <1>3, <2>1, <2>3, <3>1 DEF CountedApp, Counting
    <3>3. ASSUME Committed', NEW x \in Toward PROVE Far(x) /\ snd[x].pc # "queued"
      <4>1. Has("LASTWAIT") /\ ~Has("EVENTS")
        BY <2>1, <2>3, <3>1, <3>3 DEF Committed
      <4>2. rcv.act > Delta /\ snd[x].pc # "queued" /\ (snd[x].age > rcv.act \/ snd[x].age = Cap)
        BY <1>1, <2>3, <4>1 DEF CountedApp, Counting
      <4>3. /\ rcv.act \in Int /\ snd[x].age \in Int /\ snd[x].tsc \in Int
            /\ snd[x].tsc >= 0 /\ snd[x].tsc <= 1
        BY <1>1, <1>4
      <4> QED
        BY <4>2, <4>3 DEF Far
    <3> QED
      BY <1>3, <2>1, <3>2, <3>3 DEF Answered, Far
  <2> QED
    BY <1>4, <2>2, <2>3
<1>12. CASE flextcp_context_canwait
  <2>1. /\ rcv.pc = "wait" /\ q' = q /\ snd' = snd /\ evfd' = evfd /\ wire' = wire /\ rcv \in Receiver
    BY <1>1, <1>12 DEF flextcp_context_canwait, Typed
  <2>2. CASE Has("EVENTS")
    <3>1. rcv' = [rcv EXCEPT !.pc = "start", !.flags = rcv.flags \ {"EVENTS", "WANTWAIT", "LASTWAIT"}]
      BY <1>12, <2>2 DEF flextcp_context_canwait, Has
    <3>2. /\ rcv'.pc = "start" /\ rcv'.ran = rcv.ran /\ rcv'.act = rcv.act
          /\ rcv'.flags = rcv.flags \ {"EVENTS", "WANTWAIT", "LASTWAIT"}
      BY <2>1, <3>1 DEF Receiver
    <3> QED
      BY <1>1, <1>3, <2>1, <2>2, <3>2 DEF CountedApp, Answered, Committed, Has, Counting
  <2>3. CASE ~Has("EVENTS") /\ Has("WANTWAIT")
    <3> DEFINE g == IF rcv.act > Delta THEN (rcv.flags \ {"CALLED", "WANTWAIT"}) \cup {"LASTWAIT"}
                                       ELSE rcv.flags
    <3>1. rcv' = [rcv EXCEPT !.pc = "start", !.flags = g]
      BY <1>12, <2>3 DEF flextcp_context_canwait, Has
    <3>2. rcv'.pc = "start" /\ rcv'.ran = rcv.ran /\ rcv'.act = rcv.act /\ rcv'.flags = g
      BY <2>1, <3>1 DEF Receiver
    <3>3. ~Has("EVENTS")' /\ Counting' /\ (Has("LASTWAIT")' => rcv.act > Delta)
      BY <1>1, <2>3, <3>2 DEF Has, Counting, CountedApp
    <3>4. CountedApp'
      BY <1>1, <1>3, <2>1, <2>3, <3>2, <3>3 DEF CountedApp, Counting
    <3> QED
      BY <3>2, <3>4 DEF Answered, Committed
  <2>4. CASE ~Has("EVENTS") /\ ~Has("WANTWAIT") /\ Has("LASTWAIT")
    <3> DEFINE p == IF "CALLED" \in rcv.flags THEN "asleep" ELSE "start"
    <3>1. rcv' = [rcv EXCEPT !.pc = p, !.tmo = -1] /\ p \in {"asleep", "start"}
      BY <1>12, <2>4 DEF flextcp_context_canwait, Has
    <3>2. rcv'.pc \in {"asleep", "start"} /\ rcv'.ran = rcv.ran /\ rcv'.act = rcv.act /\ rcv'.flags = rcv.flags
      BY <2>1, <3>1 DEF Receiver
    <3>3. CountedApp'
      BY <1>1, <1>3, <2>1, <2>4, <3>2 DEF CountedApp, Counting, Has
    <3>4. Committed
      BY <2>1, <2>4 DEF Committed
    <3> QED
      BY <1>1, <1>2, <1>3, <2>1, <3>3, <3>4 DEF Answered, Far, Waking
  <2>5. CASE rcv.flags \cap {"EVENTS", "WANTWAIT", "LASTWAIT"} = {} /\ "CALLED" \in rcv.flags
    <3>1. rcv' = [rcv EXCEPT !.pc = "start", !.flags = rcv.flags \cup {"WANTWAIT"}, !.act = 0]
      BY <1>12, <2>5 DEF flextcp_context_canwait
    <3>2. rcv'.pc = "start" /\ rcv'.ran = rcv.ran /\ rcv'.act = 0 /\ rcv'.flags = rcv.flags \cup {"WANTWAIT"}
      BY <2>1, <3>1 DEF Receiver
    <3> QED
      <4>1. ~Has("EVENTS") /\ ~Counting /\ ~Has("EVENTS")' /\ Counting' /\ ~Has("LASTWAIT")'
        BY <2>5, <3>2 DEF Has, Counting
      <4>2. ASSUME q = 0, NEW x \in Toward PROVE snd[x].pc # "queued" /\ snd[x].age > 0
        BY <1>1, <1>4, <2>1, <4>1, <4>2 DEF CountedApp
      <4> QED
        BY <1>3, <2>1, <3>2, <4>1, <4>2 DEF CountedApp, Answered, Committed
  <2>6. CASE rcv.flags \cap {"EVENTS", "WANTWAIT", "LASTWAIT"} = {} /\ "CALLED" \notin rcv.flags
    <3>1. rcv' = [rcv EXCEPT !.pc = "start"]
      BY <1>12, <2>6 DEF flextcp_context_canwait
    <3>2. rcv'.pc = "start" /\ rcv'.ran = rcv.ran /\ rcv'.act = rcv.act /\ rcv'.flags = rcv.flags
      BY <2>1, <3>1 DEF Receiver
    <3> QED
      BY <1>1, <1>3, <2>1, <2>6, <3>2 DEF CountedApp, Answered, Committed, Counting, Has
  <2> QED
    BY <2>2, <2>3, <2>4, <2>5, <2>6 DEF Has
<1>13. CASE Wake
  <2> DEFINE g == rcv.flags \ {"WANTWAIT", "LASTWAIT", "CALLED"}
  <2>1. rcv' = [rcv EXCEPT !.pc = "start", !.can_block = FALSE, !.second_bar = FALSE, !.tmo = -1,
                           !.flags = g]
    BY <1>13 DEF Wake
  <2>2. rcv \in Receiver
    BY <1>1 DEF Typed
  <2>3. rcv'.pc = "start" /\ rcv'.ran = rcv.ran /\ rcv'.act = rcv.act /\ rcv'.flags = g
    BY <2>1, <2>2 DEF Receiver
  <2>4. rcv.pc = "asleep" /\ q' = q /\ snd' = snd
    BY <1>13 DEF Wake
  <2> QED
    <3>1. Has("LASTWAIT") /\ ~Has("EVENTS") /\ ~Has("EVENTS")' /\ ~Counting' /\ ~Has("LASTWAIT")'
      BY <1>1, <2>3, <2>4 DEF CountedApp, Has, Counting
    <3>2. ASSUME q = 0, NEW x \in Toward PROVE snd[x].pc # "queued" /\ snd[x].age >= 1
      <4>1. snd[x].pc # "queued" /\ (snd[x].age > rcv.act \/ snd[x].age = Cap)
        BY <1>1, <3>1, <3>2 DEF CountedApp, Counting
      <4> QED
        BY <1>4, <4>1
    <3> QED
      BY <1>3, <2>3, <2>4, <3>1, <3>2 DEF CountedApp, Answered, Committed
<1>14. ~tas_host
  BY <1>1 DEF tas_host, Typed
<1>15. CASE handle_wakeup
  <2>1. Waking' /\ q' = q /\ rcv' = rcv /\ snd' = snd
    BY <1>1, <1>15, Zenon DEF handle_wakeup, Typed, Waking
  <2> QED
    BY <1>1, <1>3, <2>1 DEF CountedApp, Answered, Committed, Far, Has, Counting
<1>16. CASE Tick
  <2>1. /\ rcv'.pc = rcv.pc /\ rcv'.act = Older(rcv.act) /\ rcv'.flags = rcv.flags /\ ~rcv'.ran
        /\ rcv.pc # "check" /\ q' = q /\ evfd' = evfd /\ wire' = wire
    BY <1>1, <1>16, TickStep
  <2>2. ASSUME NEW x \in Toward
        PROVE  /\ snd'[x].pc = snd[x].pc /\ snd'[x].age = Older(snd[x].age)
               /\ snd[x].pc # "idle" => snd[x].tsc = 0 /\ SendLag = 1 /\ snd'[x].tsc = 1
               /\ snd[x].pc = "idle" => snd'[x].tsc = 0
    <3>1. /\ snd'[x].pc = snd[x].pc /\ snd'[x].age = Older(snd[x].age)
          /\ snd[x].pc # "idle" => snd[x].tsc < SendLag /\ snd'[x].tsc = snd[x].tsc + 1
          /\ snd[x].pc = "idle" => snd'[x].tsc = 0
      BY <1>1, <1>3, <1>16, TickStep
    <3> QED
      BY <1>1, <1>4, <3>1
  <2>3. CountedApp'
    <3>1. \A f \in {"CALLED", "EVENTS", "WANTWAIT", "LASTWAIT"} : Has(f)' <=> Has(f)
      BY <2>1 DEF Has
    <3>2. Has("LASTWAIT") => Older(rcv.act) > Delta
      BY <1>1, <1>4 DEF CountedApp, Older
    <3>3. ASSUME q = 0, NEW x \in Toward
          PROVE  /\ ~Has("EVENTS") /\ Counting =>
                       snd[x].pc # "queued" /\ (Older(snd[x].age) > Older(rcv.act) \/ Older(snd[x].age) = Cap)
                 /\ ~Has("EVENTS") /\ ~Counting => snd[x].pc # "queued" /\ Older(snd[x].age) >= 1
                 /\ Has("EVENTS") /\ rcv.pc = "wait" => snd[x].pc # "queued" /\ Older(snd[x].age) >= 1
      <4>1. snd[x].pc = "queued" => ~(snd[x].tsc >= 1)
        BY <1>4, <2>2
      <4>2. Older(snd[x].age) >= 1
        BY <1>4 DEF Older
      <4>3. CASE ~Has("EVENTS") /\ Counting
        <5>1. snd[x].pc # "queued" /\ (snd[x].age > rcv.act \/ snd[x].age = Cap)
          BY <1>1, <3>3, <4>3 DEF CountedApp
        <5> QED
          BY <1>4, <4>3, <5>1 DEF Older
      <4>4. CASE ~Has("EVENTS") /\ ~Counting
        <5>1. rcv.pc \in {"start", "wait"}
          BY <1>1, <4>4 DEF CountedApp, Counting
        <5> QED
          BY <1>1, <3>3, <4>1, <4>2, <4>4, <5>1 DEF CountedApp
      <4>5. CASE Has("EVENTS")
        BY <1>1, <3>3, <4>1, <4>2, <4>5 DEF CountedApp
      <4> QED
        BY <4>3, <4>4, <4>5
    <3> QED
      BY <1>1, <1>3, <1>4, <2>1, <2>2, <3>1, <3>2, <3>3 DEF CountedApp, Counting
  <2>4. /\ Committed' <=> Committed
        /\ Waking' <=> Waking
        /\ (\E x \in Senders : snd[x].pc = "queued") => \E x \in Senders : snd'[x].pc = "queued"
    BY <1>1, <1>2, <1>16, <2>1, TickStep DEF Committed, Has, Waking
  <2>5. ASSUME NEW x \in Toward, Far(x) PROVE Far(x)'
    <3>1. /\ snd[x].age \in 0..Cap /\ snd[x].tsc \in 0..SendLag /\ (snd[x].pc = "idle" => snd[x].tsc = 0)
      BY <1>4, <1>5
    <3>2. CASE snd[x].pc = "idle"
      BY <2>2, <2>5, <3>1, <3>2 DEF Far, Older
    <3>3. CASE snd[x].pc # "idle"
      BY <2>2, <2>5, <3>1, <3>3 DEF Far, Older
    <3> QED
      BY <3>2, <3>3
  <2>6. Answered'
    BY <1>1, <1>3, <2>1, <2>2, <2>4, <2>5 DEF Answered
  <2> QED
    BY <2>3, <2>6
<1>17. CASE UNCHANGED vars
  BY <1>1, <1>17 DEF vars, CountedApp, Answered, Committed, Far, Waking, Has, Counting, Toward
<1> QED
  BY <1>6, <1>7, <1>8, <1>9, <1>10, <1>11, <1>12, <1>13, <1>14, <1>15, <1>16, <1>17
     DEF Next, Receive

--------------------------------------------------------------------------
\* WakeupInv is inductive.
LEMMA WakeupInvStep == WakeupInv /\ [Next]_vars => WakeupInv'
<1> SUFFICES ASSUME WakeupInv, [Next]_vars PROVE WakeupInv'
  OBVIOUS
<1>1. who' = who
  BY Zenon DEF Next, vars, Sample, Enqueue, notify_communicator, Receive, Start, Poll, Check, Block,
         flextcp_context_poll, flextcp_context_canwait, Wake, tas_host, handle_wakeup, Tick
<1>2. Typed'
  BY TypedStep
<1>3. Delays'
  BY DEF WakeupInv, Delays
<1> QED
  BY <1>1, <1>2, <1>3, CoreStep, AppStep DEF WakeupInv

\* While every message follows its clock within one iteration, a core and an
\* application never sleep on a message that nobody is about to wake them for:
\* notify_communicator may leave a wake-up out within Delta of the last one.
THEOREM WakeupsNeverLost == ASSUME Delays PROVE Spec => []NoLostWakeup
<1>1. Init => WakeupInv
  BY InitWakeupInv
<1>2. WakeupInv /\ [Next]_vars => WakeupInv'
  BY WakeupInvStep
<1>3. WakeupInv => NoLostWakeup
  <2> SUFFICES ASSUME WakeupInv, who # "slow", rcv.pc = "asleep", q > 0
               PROVE  Waking \/ \E x \in Senders : snd[x].pc = "queued"
    BY DEF NoLostWakeup, Waking
  <2>1. Answered
    BY DEF WakeupInv, Typed
  <2> QED
    BY <2>1 DEF Answered, Committed
<1> QED
  BY <1>1, <1>2, <1>3, PTL DEF Spec
-------------------------------------------------------------------------------
(* tas_host *)
USE HostAssumption

\* The configurations in which the loop is right: the last message to an application
\* that connects carries one descriptor, and an application asks for one context.
OneAtATime == NumCores % 4 = 1 /\ HostCtxs \in {0, 1}

Marks == HostCores \cup {"nic", "kern"}
Events == Marks \cup {"mfd", "apps", NoEvent}
LibStates == {"off", "connect", "idle", "ask", "told"}
HostRec == [pc : {"wait", "loop"}, event : Seq(Events), n : Nat, i : Nat, set : SUBSET Marks,
            lib : [HostApps -> LibStates], watched : SUBSET HostApps, ctxs : [HostApps -> Nat]]

\* What is left of the array of events holds each event once, and what the loop would
\* block for is still there.
EventsRight(event, i, n, lib, watched) ==
  \A j \in i .. n :
    /\ (event[j] = "mfd" => \E a \in HostApps : lib[a] = "connect")
    /\ (event[j] = "apps" => \E a \in HostApps : lib[a] = "ask" /\ a \in watched)
    /\ \A k \in i .. n : event[j] = event[k] => j = k

\* An application is watched until it has been answered once.
WatchedRight(lib, watched, ctxs) ==
  \A a \in HostApps :
    /\ (lib[a] \in {"off", "connect"} => ctxs[a] = 0)
    /\ (lib[a] = "idle" /\ ctxs[a] = 0 => a \in watched)
    /\ (lib[a] = "ask" => a \in watched)
    /\ (lib[a] \in {"ask", "told"} => ctxs[a] = 1)

\* The inductive invariant of the loop and the applications.
HostInv ==
  /\ th \in HostRec /\ Len(th.event) >= 1 /\ th.i >= 1
  /\ (th.pc = "loop" => EventsRight(th.event, th.i, th.n, th.lib, th.watched))
  /\ WatchedRight(th.lib, th.watched, th.ctxs)

\* The state in its parts.
LEMMA HostParts ==
  ASSUME HostInv
  PROVE  /\ th = [pc |-> th.pc, event |-> th.event, n |-> th.n, i |-> th.i, set |-> th.set,
                  lib |-> th.lib, watched |-> th.watched, ctxs |-> th.ctxs]
         /\ th.pc \in {"wait", "loop"} /\ th.event \in Seq(Events) /\ Len(th.event) >= 1
         /\ th.n \in Nat /\ th.i \in Nat /\ th.i >= 1 /\ th.set \in SUBSET Marks
         /\ th.lib \in [HostApps -> LibStates] /\ th.watched \in SUBSET HostApps
         /\ th.ctxs \in [HostApps -> Nat]
BY DEF HostInv, HostRec

\* The next state from its parts.
LEMMA HostNew ==
  ASSUME NEW pc \in {"wait", "loop"}, NEW event \in Seq(Events), Len(event) >= 1, NEW n \in Nat,
         NEW i \in Nat, i >= 1, NEW set \in SUBSET Marks, NEW lib \in [HostApps -> LibStates],
         NEW watched \in SUBSET HostApps, NEW ctxs \in [HostApps -> Nat],
         th' = [pc |-> pc, event |-> event, n |-> n, i |-> i, set |-> set, lib |-> lib,
                watched |-> watched, ctxs |-> ctxs],
         pc = "loop" => EventsRight(event, i, n, lib, watched),
         WatchedRight(lib, watched, ctxs)
  PROVE  HostInv'
<1>1. th' \in HostRec
  BY DEF HostRec
<1>2. /\ th'.pc = pc /\ th'.event = event /\ th'.n = n /\ th'.i = i /\ th'.lib = lib
      /\ th'.watched = watched /\ th'.ctxs = ctxs
  OBVIOUS
<1>3. (th'.pc = "loop" => EventsRight(th'.event, th'.i, th'.n, th'.lib, th'.watched))
  BY <1>2, Zenon
<1>4. WatchedRight(th'.lib, th'.watched, th'.ctxs)
  BY <1>2, Zenon
<1> QED
  BY <1>1, <1>2, <1>3, <1>4 DEF HostInv

\* One event less to handle.
LEMMA EventsLater ==
  ASSUME NEW event, NEW i \in Nat, NEW n \in Nat, NEW lib, NEW watched,
         EventsRight(event, i, n, lib, watched)
  PROVE  EventsRight(event, i + 1, n, lib, watched)
<1>1. \A j \in i + 1 .. n : j \in i .. n
  OBVIOUS
<1> QED
  BY <1>1 DEF EventsRight

\* The last message carries one descriptor.
LEMMA BatchIsOne ==
  ASSUME OneAtATime
  PROVE  LastBatch = 1
<1>1. NumCores \in Nat
  BY FS_CardinalityType DEF NumCores
<1> QED
  BY <1>1 DEF OneAtATime, LastBatch

\* epoll_wait fills the array with events that are ready, each once.
LEMMA WaitStep ==
  ASSUME OneAtATime, HostInv, host_wait
  PROVE  HostInv'
<1>1. PICK es \in Injection(1 .. Cardinality(HostReady), HostReady) :
         th' = [th EXCEPT !.pc = "loop", !.i = 1, !.n = Len(es),
                          !.event = es \o SubSeq(@, Len(es) + 1, LastBatch)]
  BY Zenon DEF host_wait
<1>2. HostReady # {} /\ HostReady \subseteq Events
  BY HostParts DEF host_wait, HostReady, Events
<1>3. IsFiniteSet(HostReady)
  <2>1. IsFiniteSet({"nic", "kern"}) /\ IsFiniteSet({"mfd", "apps", NoEvent})
    <3>1. IsFiniteSet({"nic"}) /\ IsFiniteSet({"mfd"})
      BY FS_Singleton, Zenon
    <3>2. IsFiniteSet({"nic"} \cup {"kern"})
      BY <3>1, FS_AddElement
    <3>3. IsFiniteSet({"mfd"} \cup {"apps"})
      BY <3>1, FS_AddElement
    <3>4. IsFiniteSet(({"mfd"} \cup {"apps"}) \cup {NoEvent})
      BY <3>3, FS_AddElement
    <3>5. {"nic", "kern"} = {"nic"} \cup {"kern"}
      OBVIOUS
    <3>6. {"mfd", "apps", NoEvent} = ({"mfd"} \cup {"apps"}) \cup {NoEvent}
      OBVIOUS
    <3> QED
      BY <3>2, <3>4, <3>5, <3>6, Zenon
  <2>2. IsFiniteSet(Marks)
    BY <2>1, FS_Union, Zenon DEF Marks
  <2>3. IsFiniteSet(Events)
    BY <2>1, <2>2, FS_Union, Zenon DEF Events
  <2> QED
    BY <1>2, <2>3, FS_Subset
<1>4. Cardinality(HostReady) \in Nat /\ Cardinality(HostReady) # 0
  BY <1>2, <1>3, FS_CardinalityType, FS_EmptySet
<1> DEFINE m == Cardinality(HostReady)
<1> HIDE DEF m
<1>5. m \in Nat /\ m >= 1
  BY <1>4 DEF m
<1>6. es \in [1 .. m -> HostReady] /\ \A j, k \in 1 .. m : es[j] = es[k] => j = k
  BY <1>1 DEF m, Injection, IsInjective
<1>7. es \in Seq(Events) /\ Len(es) = m
  BY <1>2, <1>5, <1>6
<1>8. es \o SubSeq(th.event, Len(es) + 1, LastBatch) = es
  <2>1. SubSeq(th.event, m + 1, 1) = << >>
    BY <1>5, HostParts
  <2>2. es \o << >> = es
    BY <1>7
  <2> QED
    BY <1>7, <2>1, <2>2, BatchIsOne, Zenon
<1>9. th' = [pc |-> "loop", event |-> es, n |-> m, i |-> 1, set |-> th.set, lib |-> th.lib,
             watched |-> th.watched, ctxs |-> th.ctxs]
  BY <1>1, <1>7, <1>8, HostParts, Zenon
<1>10. EventsRight(es, 1, m, th.lib, th.watched)
  <2> SUFFICES ASSUME NEW j \in 1 .. m
               PROVE  /\ (es[j] = "mfd" => \E a \in HostApps : th.lib[a] = "connect")
                      /\ (es[j] = "apps" => \E a \in HostApps : th.lib[a] = "ask" /\ a \in th.watched)
    BY <1>6 DEF EventsRight
  <2>1. es[j] \in HostReady
    BY <1>6
  <2>2. "mfd" \notin th.set /\ "apps" \notin th.set
    BY HostParts DEF Marks
  <2> QED
    BY <2>1, <2>2 DEF HostReady, Requests, Waiting
<1>11. WatchedRight(th.lib, th.watched, th.ctxs)
  BY DEF HostInv
<1> QED
  BY <1>5, <1>7, <1>9, <1>10, <1>11, HostParts, HostNew

\* Handling an event of a core, the NIC or the kernel clears its mark and nothing else.
LEMMA ClearEvent ==
  ASSUME HostInv, th.pc = "loop", NEW e, th' = Step([th EXCEPT !.set = @ \ {e}])
  PROVE  HostInv'
<1> DEFINE set2 == th.set \ {e}
<1>1. set2 \in SUBSET Marks
  BY HostParts
<1>2. th' = [pc |-> "loop", event |-> th.event, n |-> th.n, i |-> th.i + 1, set |-> set2, lib |-> th.lib,
             watched |-> th.watched, ctxs |-> th.ctxs]
  BY HostParts, Zenon DEF Step
<1> HIDE DEF set2
<1>3. EventsRight(th.event, th.i + 1, th.n, th.lib, th.watched)
  BY HostParts, EventsLater DEF HostInv
<1>4. WatchedRight(th.lib, th.watched, th.ctxs) /\ th.i + 1 \in Nat /\ th.i + 1 >= 1
  BY HostParts DEF HostInv
<1> QED
  BY <1>1, <1>2, <1>3, <1>4, HostParts, HostNew, Zenon

\* Accepting an application overwrites n by the one descriptor of the last message.
LEMMA AcceptStep ==
  ASSUME OneAtATime, HostInv, host_accept
  PROVE  HostInv'
<1>1. PICK a \in Waiting("connect") : th' = Step([Welcome(th, a) EXCEPT !.n = LastBatch])
  BY Zenon DEF host_accept
<1>2. a \in HostApps /\ th.lib[a] = "connect" /\ th.pc = "loop"
  BY <1>1 DEF Waiting, host_accept, At
<1> DEFINE lib2 == [th.lib EXCEPT ![a] = "idle"]
           w2   == th.watched \cup {a}
<1>3. lib2 \in [HostApps -> LibStates] /\ w2 \in SUBSET HostApps
  BY <1>2, HostParts DEF LibStates
<1>4. th' = [pc |-> "loop", event |-> th.event, n |-> 1, i |-> th.i + 1, set |-> th.set, lib |-> lib2,
             watched |-> w2, ctxs |-> th.ctxs]
  BY <1>1, <1>2, HostParts, BatchIsOne, Zenon DEF Step, Welcome
<1>5. WatchedRight(lib2, w2, th.ctxs)
  BY <1>2, HostParts DEF HostInv, WatchedRight
<1> HIDE DEF lib2, w2
<1>6. th.i + 1 \in Nat /\ th.i + 1 >= 2
  BY HostParts
<1>7. EventsRight(th.event, th.i + 1, 1, lib2, w2)
  BY <1>6 DEF EventsRight
<1>8. th.i + 1 >= 1
  BY <1>6
<1> QED
  BY <1>3, <1>4, <1>5, <1>6, <1>7, <1>8, HostParts, HostNew

\* Every request for a context that is waiting is answered, so none is left to block for.
LEMMA AppsStep ==
  ASSUME HostInv, host_apps
  PROVE  HostInv'
<1> DEFINE lib2 == [a \in HostApps |-> IF a \in Requests THEN "told" ELSE th.lib[a]]
           w2   == th.watched \ Requests
<1>1. th' = Step([th EXCEPT !.lib = lib2, !.watched = w2])
  BY Zenon DEF host_apps
<1>2. th.pc = "loop" /\ th.i <= th.n /\ th.event[th.i] = "apps"
  BY DEF host_apps, At
<1>3. lib2 \in [HostApps -> LibStates] /\ w2 \in SUBSET HostApps
  BY HostParts DEF LibStates
<1>4. \A a \in HostApps : a \in Requests <=> th.lib[a] = "ask" /\ a \in th.watched
  BY DEF Requests, Waiting
<1>5. \A a \in HostApps : lib2[a] = IF a \in Requests THEN "told" ELSE th.lib[a]
  OBVIOUS
<1>6. \A a \in HostApps : a \in w2 <=> a \in th.watched /\ a \notin Requests
  OBVIOUS
<1> HIDE DEF lib2, w2
<1>7. th' = [pc |-> "loop", event |-> th.event, n |-> th.n, i |-> th.i + 1, set |-> th.set, lib |-> lib2,
             watched |-> w2, ctxs |-> th.ctxs]
  BY <1>1, <1>2, HostParts, Zenon DEF Step
<1>8. WatchedRight(lib2, w2, th.ctxs)
  BY <1>4, <1>5, <1>6 DEF HostInv, WatchedRight
<1>9. EventsRight(th.event, th.i + 1, th.n, lib2, w2)
  <2>1. EventsRight(th.event, th.i, th.n, th.lib, th.watched)
    BY <1>2 DEF HostInv
  <2>2. EventsRight(th.event, th.i + 1, th.n, th.lib, th.watched)
    BY <2>1, HostParts, EventsLater
  <2>3. \A j \in th.i + 1 .. th.n : th.event[j] # "apps"
    <3>1. th.i \in th.i .. th.n /\ \A j \in th.i + 1 .. th.n : j \in th.i .. th.n /\ j # th.i
      BY <1>2, HostParts
    <3> QED
      BY <1>2, <2>1, <3>1 DEF EventsRight
  <2>4. ASSUME NEW a \in HostApps, th.lib[a] = "connect" PROVE lib2[a] = "connect"
    BY <1>4, <1>5, <2>4
  <2> QED
    BY <2>2, <2>3, <2>4 DEF EventsRight
<1>10. th.i + 1 \in Nat /\ th.i + 1 >= 1
  BY HostParts
<1> QED
  BY <1>3, <1>7, <1>8, <1>9, <1>10, HostParts, HostNew

\* Sending the descriptors keeps one event in the array.
LEMMA SendStep ==
  ASSUME OneAtATime, HostInv, host_send
  PROVE  HostInv'
<1> DEFINE ev2 == SubSeq(th.event, 1, 1)
<1>1. th' = [th EXCEPT !.pc = "wait", !.n = 0, !.i = 1, !.event = ev2]
  BY BatchIsOne DEF host_send
<1>2. ev2 \in Seq(Events) /\ Len(ev2) >= 1
  BY HostParts
<1> HIDE DEF ev2
<1>3. th' = [pc |-> "wait", event |-> ev2, n |-> 0, i |-> 1, set |-> th.set, lib |-> th.lib,
             watched |-> th.watched, ctxs |-> th.ctxs]
  BY <1>1, HostParts, Zenon
<1>4. WatchedRight(th.lib, th.watched, th.ctxs)
  BY DEF HostInv
<1> QED
  BY <1>2, <1>3, <1>4, HostParts, HostNew

\* A step of an application a that is no answer, nor a request.
LEMMA LibStep ==
  ASSUME HostInv, NEW a \in HostApps, NEW what \in LibStates, NEW ctxs \in [HostApps -> Nat],
         th' = [pc |-> th.pc, event |-> th.event, n |-> th.n, i |-> th.i, set |-> th.set,
                lib |-> [th.lib EXCEPT ![a] = what], watched |-> th.watched, ctxs |-> ctxs],
         th.lib[a] \notin {"connect", "ask"},
         WatchedRight([th.lib EXCEPT ![a] = what], th.watched, ctxs)
  PROVE  HostInv'
<1> DEFINE lib2 == [th.lib EXCEPT ![a] = what]
<1>1. lib2 \in [HostApps -> LibStates] /\ \A b \in HostApps : b # a => lib2[b] = th.lib[b]
  BY HostParts
<1> HIDE DEF lib2
<1>2. th.pc = "loop" => EventsRight(th.event, th.i, th.n, lib2, th.watched)
  BY <1>1 DEF HostInv, EventsRight
<1>3. /\ WatchedRight(lib2, th.watched, ctxs)
      /\ th' = [pc |-> th.pc, event |-> th.event, n |-> th.n, i |-> th.i, set |-> th.set,
                lib |-> lib2, watched |-> th.watched, ctxs |-> ctxs]
  BY DEF lib2
<1> QED
  BY <1>1, <1>2, <1>3, HostParts, HostNew, Zenon

\* An application connects, asks for its context and is told of it, once.
LEMMA HostAppStep ==
  ASSUME OneAtATime, HostInv, NEW a \in HostApps, app_connect(a) \/ app_newctx(a) \/ app_told(a)
  PROVE  HostInv'
<1>0. WatchedRight(th.lib, th.watched, th.ctxs)
  BY DEF HostInv
<1>1. CASE app_connect(a)
  <2>1. th.lib[a] = "off" /\ th' = [th EXCEPT !.lib[a] = "connect"]
    BY <1>1 DEF app_connect
  <2>2. th' = [pc |-> th.pc, event |-> th.event, n |-> th.n, i |-> th.i, set |-> th.set,
               lib |-> [th.lib EXCEPT ![a] = "connect"], watched |-> th.watched, ctxs |-> th.ctxs]
    BY <2>1, HostParts, Zenon
  <2>3. WatchedRight([th.lib EXCEPT ![a] = "connect"], th.watched, th.ctxs)
    BY <1>0, <2>1, HostParts DEF WatchedRight
  <2>4. "connect" \in LibStates
    BY DEF LibStates
  <2> QED
    BY <2>1, <2>2, <2>3, <2>4, HostParts, LibStep, Zenon
<1>2. CASE app_newctx(a)
  <2> DEFINE c2 == [th.ctxs EXCEPT ![a] = th.ctxs[a] + 1]
  <2>1. /\ th.lib[a] = "idle" /\ th.ctxs[a] < HostCtxs
        /\ th' = [th EXCEPT !.lib[a] = "ask", !.ctxs[a] = @ + 1]
    BY <1>2 DEF app_newctx
  <2>2. th.ctxs[a] = 0
    BY <2>1, HostParts DEF OneAtATime
  <2>3. c2 \in [HostApps -> Nat] /\ c2[a] = 1 /\ \A b \in HostApps : b # a => c2[b] = th.ctxs[b]
    BY <2>2, HostParts
  <2>4. th' = [pc |-> th.pc, event |-> th.event, n |-> th.n, i |-> th.i, set |-> th.set,
               lib |-> [th.lib EXCEPT ![a] = "ask"], watched |-> th.watched, ctxs |-> c2]
    BY <2>1, HostParts, Zenon
  <2> HIDE DEF c2
  <2>5. WatchedRight([th.lib EXCEPT ![a] = "ask"], th.watched, c2)
    BY <1>0, <2>1, <2>2, <2>3, HostParts DEF WatchedRight
  <2>6. "ask" \in LibStates
    BY DEF LibStates
  <2> QED
    BY <2>1, <2>3, <2>4, <2>5, <2>6, HostParts, LibStep, Zenon
<1>3. CASE app_told(a)
  <2>1. th.lib[a] = "told" /\ th' = [th EXCEPT !.lib[a] = "idle"]
    BY <1>3 DEF app_told
  <2>2. th' = [pc |-> th.pc, event |-> th.event, n |-> th.n, i |-> th.i, set |-> th.set,
               lib |-> [th.lib EXCEPT ![a] = "idle"], watched |-> th.watched, ctxs |-> th.ctxs]
    BY <2>1, HostParts, Zenon
  <2>3. WatchedRight([th.lib EXCEPT ![a] = "idle"], th.watched, th.ctxs)
    BY <1>0, <2>1, HostParts DEF WatchedRight
  <2>4. "idle" \in LibStates
    BY DEF LibStates
  <2> QED
    BY <2>1, <2>2, <2>3, <2>4, HostParts, LibStep, Zenon
<1> QED
  BY <1>1, <1>2, <1>3

\* A notification only adds to what is ready.
LEMMA MarkStep ==
  ASSUME HostInv, NEW e \in Marks, th' = [th EXCEPT !.set = @ \cup {e}]
  PROVE  HostInv'
<1> DEFINE set2 == th.set \cup {e}
<1>1. set2 \in SUBSET Marks
  BY HostParts
<1>2. th' = [pc |-> th.pc, event |-> th.event, n |-> th.n, i |-> th.i, set |-> set2, lib |-> th.lib,
             watched |-> th.watched, ctxs |-> th.ctxs]
  BY HostParts, Zenon
<1> HIDE DEF set2
<1>3. /\ (th.pc = "loop" => EventsRight(th.event, th.i, th.n, th.lib, th.watched))
      /\ WatchedRight(th.lib, th.watched, th.ctxs)
  BY DEF HostInv
<1> QED
  BY <1>1, <1>2, <1>3, HostParts, HostNew, Zenon

\* The loop starts with an empty array.
LEMMA InitHost ==
  ASSUME OneAtATime, th \in TasHostStart
  PROVE  HostInv
<1> DEFINE ev == [k \in 1 .. LastBatch |-> NoEvent]
           lib == [a \in HostApps |-> "off"]
           ctxs == [a \in HostApps |-> 0]
<1>1. th = [pc |-> "wait", event |-> ev, n |-> 0, i |-> 1, set |-> {}, lib |-> lib, watched |-> {},
            ctxs |-> ctxs]
  BY DEF TasHostStart
<1>2. ev \in Seq(Events) /\ Len(ev) >= 1
  BY BatchIsOne DEF Events
<1>3. lib \in [HostApps -> LibStates] /\ ctxs \in [HostApps -> Nat] /\ WatchedRight(lib, {}, ctxs)
  BY DEF LibStates, WatchedRight
<1> HIDE DEF ev, lib, ctxs
<1>4. th \in HostRec
  BY <1>1, <1>2, <1>3 DEF HostRec
<1> QED
  BY <1>1, <1>2, <1>3, <1>4 DEF HostInv

\* Every step of the loop and of the applications keeps the invariant.
LEMMA NextHost ==
  ASSUME OneAtATime, HostInv, [TasHostNext]_th
  PROVE  HostInv'
<1>1. CASE UNCHANGED th
  BY <1>1 DEF HostInv
<1>2. CASE host_wait
  BY <1>2, WaitStep
<1>3. CASE host_nic
  BY <1>3, ClearEvent DEF host_nic, At
<1>4. CASE host_accept
  BY <1>4, AcceptStep
<1>5. CASE host_kern
  BY <1>5, ClearEvent DEF host_kern, At
<1>6. CASE host_apps
  BY <1>6, AppsStep
<1>7. CASE host_fast
  BY <1>7, ClearEvent DEF host_fast
<1>8. CASE host_send
  BY <1>8, SendStep
<1>9. CASE nic_message
  BY <1>9, MarkStep DEF nic_message, Marks
<1>10. ASSUME NEW a \in HostApps, app_connect(a) \/ app_newctx(a) \/ app_told(a) PROVE HostInv'
  BY <1>10, HostAppStep
<1>11. ASSUME NEW e \in HostCores \cup {"kern"}, app_kick(e) PROVE HostInv'
  BY <1>11, MarkStep DEF app_kick, Marks
<1> QED
  BY <1>1, <1>2, <1>3, <1>4, <1>5, <1>6, <1>7, <1>8, <1>9, <1>10, <1>11 DEF TasHostNext

\* The loop of tas_host never blocks for an application that is not there, and every
\* application that asked is watched, whatever the applications, as long as the last
\* message of accept carries one descriptor (1, 5, 9, ... cores) and an application
\* asks for one context.
THEOREM HostAlwaysServes ==
  ASSUME OneAtATime
  PROVE  TasHostSpec => []HostServes
<1>1. ASSUME th \in TasHostStart PROVE HostInv
  BY <1>1, InitHost
<1>2. ASSUME HostInv, [TasHostNext]_th PROVE HostInv'
  BY <1>2, NextHost
<1>3. ASSUME HostInv PROVE HostServes
  <2>1. ASSUME th.pc = "loop", th.i <= th.n PROVE th.i \in th.i .. th.n
    BY <1>3, <2>1, HostParts
  <2>2. At("mfd") => Waiting("connect") # {}
    BY <1>3, <2>1 DEF HostInv, EventsRight, At, Waiting
  <2>3. At("apps") => Requests # {}
    BY <1>3, <2>1 DEF HostInv, EventsRight, At, Waiting, Requests
  <2>4. Waiting("ask") \subseteq th.watched
    BY <1>3 DEF HostInv, WatchedRight, Waiting
  <2> QED
    BY <2>2, <2>3, <2>4 DEF HostServes
<1> QED
  BY <1>1, <1>2, <1>3, PTL DEF TasHostSpec
===============================================================================
