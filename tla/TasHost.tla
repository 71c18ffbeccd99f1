------------------------------ MODULE TasHost ------------------------------
(***************************************************************************)
(* The loop of tas_host (tas_host/tas_host.c), which runs beside the       *)
(* applications on the host when TAS is on the NIC.  It hands every        *)
(* application the eventfds of the slow path and of the cores, learns the  *)
(* eventfd of its context and passes wake-ups on.  th has the fields       *)
(*   pc     "wait" in epoll_wait, or "loop";                               *)
(*   event, n, i  the array of events, in which earlier ones stay behind   *)
(*          those of the last epoll_wait, their number and the next one;   *)
(*   set    the eventfds that are set, and "nic" when there is a message;  *)
(*   lib    the state of each application, watched those in app_epfd;      *)
(*   ctxs   the contexts an application asked for.                         *)
(* Events are "nic" (nicif_fd), "mfd", "kern" (k_evfd), "apps" (app_epfd)  *)
(* and the cores, for fp_evfds.  What becomes of the wake-ups that the     *)
(* loop collects is in the module Wakeup.                                  *)
(***************************************************************************)
EXTENDS Integers, Sequences, FiniteSets, Functions

CONSTANTS HostApps, HostCores,
          HostCtxs    \* bound: contexts an application asks for

ASSUME HostAssumption ==
  IsFiniteSet(HostCores) /\ HostCores \cap {"nic", "mfd", "kern", "apps"} = {}

VARIABLE th

NoEvent == "none"
NumCores == Cardinality(HostCores)

Waiting(what) == {a \in HostApps : th.lib[a] = what}
Requests == Waiting("ask") \cap th.watched
HostReady == th.set \cup (IF Waiting("connect") # {} THEN {"mfd"} ELSE {})
                    \cup (IF Requests # {} THEN {"apps"} ELSE {})

\* a message carries up to four descriptors; this is the number in the last one
LastBatch == IF NumCores % 4 = 0 THEN 4 ELSE NumCores % 4

\* the events come in any order; the rest of the array keeps what it held (of
\* which no more than LastBatch can matter)
host_wait ==
    /\ th.pc = "wait" /\ HostReady # {}
    /\ \E es \in Injection(1 .. Cardinality(HostReady), HostReady) :
         th' = [th EXCEPT !.pc = "loop", !.i = 1, !.n = Len(es),
                          !.event = es \o SubSeq(@, Len(es) + 1, LastBatch)]

At(e) == th.pc = "loop" /\ th.i <= th.n /\ th.event[th.i] = e
Step(s) == [s EXCEPT !.i = @ + 1]

\* on_nicif_event handles what there is
host_nic == At("nic") /\ th' = Step([th EXCEPT !.set = @ \ {"nic"}])

\* a mutant: the socket of the application is not watched
NotWatched(s, a) == [s EXCEPT !.lib[a] = "idle"]

Welcome(s, a) == [s EXCEPT !.lib[a] = "idle", !.watched = @ \cup {a}]

\* blocks while nobody connects; the number of descriptors in the last message
\* is left in n
host_accept ==
    /\ At("mfd")
    /\ \E a \in Waiting("connect") : th' = Step([Welcome(th, a) EXCEPT !.n = LastBatch])

host_kern == At("kern") /\ th' = Step([th EXCEPT !.set = @ \ {"kern"}])

\* blocks while there is no request; each is answered, and its socket is not
\* watched any more
host_apps ==
    /\ At("apps") /\ Requests # {}
    /\ th' = Step([th EXCEPT !.lib = [a \in HostApps |-> IF a \in Requests THEN "told" ELSE @[a]],
                             !.watched = @ \ Requests])

\* an event of a core, or one the array held from before the program set it
host_fast ==
    /\ th.pc = "loop" /\ th.i <= th.n
    /\ LET e == th.event[th.i] IN
       /\ e \notin {"nic", "mfd", "kern", "apps"}
       /\ th' = Step([th EXCEPT !.set = @ \ {e}])

\* the wake-ups are sent
host_send ==
    /\ th.pc = "loop" /\ th.i > th.n
    /\ th' = [th EXCEPT !.pc = "wait", !.n = 0, !.i = 1, !.event = SubSeq(@, 1, LastBatch)]

--------------------------------------------------------------------------
(* The applications (lib/tas/kernel.c) and the NIC. *)

app_connect(a) == th.lib[a] = "off" /\ th' = [th EXCEPT !.lib[a] = "connect"]
app_newctx(a) ==
    /\ th.lib[a] = "idle" /\ th.ctxs[a] < HostCtxs
    /\ th' = [th EXCEPT !.lib[a] = "ask", !.ctxs[a] = @ + 1]
app_told(a) == th.lib[a] = "told" /\ th' = [th EXCEPT !.lib[a] = "idle"]
app_kick(e) ==
    /\ \E a \in HostApps : th.lib[a] \in {"idle", "ask", "told"}
    /\ e \notin th.set /\ th' = [th EXCEPT !.set = @ \cup {e}]
nic_message == "nic" \notin th.set /\ th' = [th EXCEPT !.set = @ \cup {"nic"}]

TasHostStart ==
    {[pc |-> "wait", event |-> [k \in 1..LastBatch |-> NoEvent], n |-> 0, i |-> 1, set |-> {},
      lib |-> [a \in HostApps |-> "off"], watched |-> {}, ctxs |-> [a \in HostApps |-> 0]]}

TasHostNext ==
    \/ host_wait \/ host_nic \/ host_accept \/ host_kern \/ host_apps \/ host_fast \/ host_send
    \/ nic_message
    \/ \E a \in HostApps : app_connect(a) \/ app_newctx(a) \/ app_told(a)
    \/ \E e \in HostCores \cup {"kern"} : app_kick(e)

TasHostSpec == th \in TasHostStart /\ [][TasHostNext]_th

--------------------------------------------------------------------------
(* Properties. *)

\* tas_host never waits for one application while others need it: accept and the
\* epoll_wait for requests are only called when they do not block.  And no
\* application waits for an answer that does not come: one that asked is watched.
HostServes ==
    /\ At("mfd") => Waiting("connect") # {}
    /\ At("apps") => Requests # {}
    /\ Waiting("ask") \subseteq th.watched
=============================================================================
