-------------------------------- MODULE Epoll --------------------------------
(***************************************************************************)
(* File descriptors and epoll of the sockets layer (lib/sockets/epoll.c,   *)
(* manage_fd.c and tas_close of control.c), with the calls of one thread.  *)
(* po has the fields                                                       *)
(*   fhs    what each file descriptor stands for: NoFd, a socket or epoll; *)
(*   refs   the reference count of every socket and epoll, 0 when freed;   *)
(*   ev     ep_events of every socket;                                     *)
(*   mask   for <<ep, s>>, a struct epoll_socket, its mask; {} if there is *)
(*          none (every mask has EPOLLERR, so no other is empty);          *)
(*   active of every struct epoll_socket;                                  *)
(*   eps    the list of each socket, newest first;                         *)
(*   first, last, inactive  heads of the lists of each epoll, next and     *)
(*          prev the links;                                                *)
(*   num_active, num_tas  its counters;                                    *)
(*   bad    an assertion failed or freed memory was used.                  *)
(* Descriptors of Linux are left out: they only add calls to Linux.  Wild  *)
(* says whether a socket may be removed from an epoll it was never added   *)
(* to, or added twice.                                                     *)
(***************************************************************************)
EXTENDS Integers, Sequences, FiniteSets
LOCAL INSTANCE SequencesExt

CONSTANTS Fds, Socks, Eps, NoFd,
          Masks,      \* the event masks the application asks for
          MaxEvents,  \* of epoll_wait
          Wild

VARIABLE po

Pairs == Eps \X Socks
Evts == {"IN", "OUT"}
Nil == <<NoFd, NoFd>>
Registered(s) == {p \in Pairs : s.mask[p] # {}}
Bad(s, holds) == IF holds THEN s ELSE [s EXCEPT !.bad = TRUE]

--------------------------------------------------------------------------
(* The two doubly linked lists of an epoll. *)

es_remove_inactive(s, p) ==
    LET n == s.next[p]  q == s.prev[p] IN
    Bad([s EXCEPT !.next = IF q = Nil THEN @ ELSE [@ EXCEPT ![q] = n],
                  !.inactive[p[1]] = IF q = Nil THEN n ELSE @,
                  !.prev = IF n = Nil THEN @ ELSE [@ EXCEPT ![n] = q]],
        ~s.active[p])

es_add_inactive(s, p) ==
    LET h == s.inactive[p[1]] IN
    [s EXCEPT !.next[p] = h,
              !.prev = IF h = Nil THEN [@ EXCEPT ![p] = Nil] ELSE [@ EXCEPT ![p] = Nil, ![h] = p],
              !.inactive[p[1]] = p]

\* a mutant: active_last is left at an entry that was removed
RemoveKeepsLast(s, p) ==
    LET n == s.next[p]  q == s.prev[p] IN
    [s EXCEPT !.next = IF q = Nil THEN @ ELSE [@ EXCEPT ![q] = n],
              !.first[p[1]] = IF q = Nil THEN n ELSE @,
              !.prev = IF n = Nil THEN @ ELSE [@ EXCEPT ![n] = q],
              !.num_active[p[1]] = @ - 1]

es_remove_active(s, p) ==
    LET n == s.next[p]  q == s.prev[p] IN
    Bad([s EXCEPT !.next = IF q = Nil THEN @ ELSE [@ EXCEPT ![q] = n],
                  !.first[p[1]] = IF q = Nil THEN n ELSE @,
                  !.prev = IF n = Nil THEN @ ELSE [@ EXCEPT ![n] = q],
                  !.last[p[1]] = IF n = Nil THEN q ELSE @,
                  !.num_active[p[1]] = @ - 1],
        s.active[p] /\ s.num_active[p[1]] > 0)

es_add_active(s, p) ==
    LET l == s.last[p[1]] IN
    [s EXCEPT !.next = IF l = Nil THEN [@ EXCEPT ![p] = Nil] ELSE [@ EXCEPT ![p] = Nil, ![l] = p],
              !.prev[p] = l,
              !.first[p[1]] = IF l = Nil THEN p ELSE @,
              !.last[p[1]] = p,
              !.num_active[p[1]] = @ + 1]

es_activate(s, p) ==
    IF s.active[p] THEN s
    ELSE es_add_active([es_remove_inactive(s, p) EXCEPT !.active[p] = TRUE], p)

es_deactivate(s, p) ==
    IF ~s.active[p] THEN s
    ELSE es_add_inactive([es_remove_active(s, p) EXCEPT !.active[p] = FALSE], p)

es_active_pushback(s, p) == es_add_active(es_remove_active(s, p), p)

\* es_remove_sock, es_remove_ep and free
es_remove(s, p) ==
    LET r == IF s.active[p] THEN es_remove_active(s, p) ELSE es_remove_inactive(s, p) IN
    [r EXCEPT !.eps[p[2]] = SelectSeq(@, LAMBDA q : q # p), !.mask[p] = {},
              !.active[p] = FALSE, !.next[p] = Nil, !.prev[p] = Nil]

--------------------------------------------------------------------------
(* What the sockets layer does to a socket. *)

\* a mutant: an event that is already set is still taken for news, a new one not
SetOld(s, k, evts) ==
    LET old == SelectSeq(s.eps[k], LAMBDA p : evts \cap s.ev[k] \cap s.mask[p] # {}) IN
    FoldLeft(es_activate, [s EXCEPT !.ev[k] = @ \cup evts], old)

\* only new events activate, and only where the mask has them
flextcp_epoll_set(s, k, evts) ==
    LET due == SelectSeq(s.eps[k], LAMBDA p : (evts \ s.ev[k]) \cap s.mask[p] # {}) IN
    FoldLeft(es_activate, [s EXCEPT !.ev[k] = @ \cup evts], due)

\* the lists stay as they are until the next epoll_wait
flextcp_epoll_clear(s, k, evts) == [s EXCEPT !.ev[k] = @ \ evts]

flextcp_epoll_sockclose(s, k) == FoldLeft(es_remove, s, s.eps[k])

\* the active entries and then the inactive ones
flextcp_epoll_destroy(s, e) ==
    LET dead == SetToSeq({p \in Registered(s) : p[1] = e}) IN
    [FoldLeft(es_remove, s, dead) EXCEPT !.num_tas[e] = 0]

--------------------------------------------------------------------------
(* The calls. *)

OfFd(fd, Kind) == po.fhs[fd] \in Kind

Set(k) == po.refs[k] > 0 /\ \E e \in Evts : po' = flextcp_epoll_set(po, k, {e})
Clear(k) == po.refs[k] > 0 /\ po' = flextcp_epoll_clear(po, k, {"IN"})

\* flextcp_fd_salloc, flextcp_fd_ealloc: calloc
Open(fd, o) ==
    /\ po.fhs[fd] = NoFd /\ po.refs[o] = 0
    /\ po' = [po EXCEPT !.fhs[fd] = o, !.refs[o] = 1,
                        !.ev = IF o \in Socks THEN [@ EXCEPT ![o] = {}] ELSE @]

\* num_tas counts before the call can fail
tas_epoll_ctl(epfd, op, fd, asked) ==
    LET p == <<po.fhs[epfd], po.fhs[fd]>>
        events == asked \cup {"ERR"}
        there == po.mask[p] # {}
        n == [po EXCEPT !.num_tas[p[1]] = IF op = "ADD" THEN @ + 1 ELSE @ - 1]
        hot(s) == IF s.ev[p[2]] \cap events # {} THEN es_activate(s, p) ELSE s
    IN /\ OfFd(epfd, Eps) /\ OfFd(fd, Socks)
       /\ op \in (IF Wild THEN {"ADD", "MOD", "DEL"}
                  ELSE IF there THEN {"MOD", "DEL"} ELSE {"ADD"})
       /\ po' = CASE op = "ADD" /\ ~there ->
                       hot(es_add_inactive([n EXCEPT !.mask[p] = events, !.active[p] = FALSE,
                                                     !.eps[p[2]] = <<p>> \o @], p))
                  [] op = "MOD" /\ there -> hot([po EXCEPT !.mask[p] = events])
                  [] op = "DEL" /\ there -> es_remove(n, p)
                  [] op = "MOD" /\ ~there -> po
                  [] OTHER -> n

\* ep_poll_tas after the poll: at most as many entries as were active at the
\* start, and until maxevents were reported; each goes to the end or is idle
ep_poll_tas(s, e, maxevents) ==
    LET round[i \in 0..s.num_active[e]] ==
            IF i = 0 THEN [s |-> s, n |-> 0]
            ELSE LET b == round[i - 1]  p == b.s.first[e] IN
                 IF b.n = maxevents \/ p = Nil THEN b
                 ELSE IF b.s.ev[p[2]] \cap b.s.mask[p] # {}
                 THEN [s |-> es_active_pushback(b.s, p), n |-> b.n + 1]
                 ELSE [s |-> es_deactivate(b.s, p), n |-> b.n]
    IN round[s.num_active[e]].s

\* without descriptors of TAS the call goes to Linux
tas_epoll_wait(epfd) ==
    /\ OfFd(epfd, Eps) /\ po.num_tas[po.fhs[epfd]] # 0
    /\ po' = ep_poll_tas(po, po.fhs[epfd], MaxEvents)

\* flextcp_fd_close and the end of the object with its last descriptor
Unref(s, fd) ==
    LET o == s.fhs[fd]
        d == [s EXCEPT !.fhs[fd] = NoFd, !.refs[o] = @ - 1]
    IN IF d.refs[o] > 0 THEN d
       ELSE IF o \in Socks THEN [flextcp_epoll_sockclose(d, o) EXCEPT !.ev[o] = {}]
       ELSE flextcp_epoll_destroy(d, o)

tas_close(fd) == po.fhs[fd] # NoFd /\ po' = Unref(po, fd)


\* the new descriptor is closed first if it is in use
internal_dup3(s, old, new) ==
    LET c == IF s.fhs[new] = NoFd THEN s ELSE Unref(s, new) IN
    [c EXCEPT !.fhs[new] = c.fhs[old], !.refs[c.fhs[old]] = @ + 1]

\* only sockets: for an epoll the code releases the wrong lock
tas_dup2(old, new) ==
    OfFd(old, Socks) /\ old # new /\ po' = internal_dup3(po, old, new)

Objects == Socks \cup Eps
EpollStart ==
    {[fhs |-> [f \in Fds |-> NoFd], refs |-> [o \in Objects |-> 0], ev |-> [k \in Socks |-> {}],
      mask |-> [p \in Pairs |-> {}], active |-> [p \in Pairs |-> FALSE],
      eps |-> [k \in Socks |-> <<>>],
      first |-> [e \in Eps |-> Nil], last |-> [e \in Eps |-> Nil], inactive |-> [e \in Eps |-> Nil],
      next |-> [p \in Pairs |-> Nil], prev |-> [p \in Pairs |-> Nil],
      num_active |-> [e \in Eps |-> 0], num_tas |-> [e \in Eps |-> 0], bad |-> FALSE]}

MaxTas == 3   \* bound on num_tas, which closed sockets never give back
EpollNext ==
    \/ \E k \in Socks : Set(k) \/ Clear(k)
    \/ \E fd \in Fds, o \in Objects : Open(fd, o)
    \/ \E fd, fd2 \in Fds : tas_dup2(fd, fd2)
    \/ \E fd \in Fds : tas_epoll_wait(fd) \/ tas_close(fd)
    \/ \E fd, fd2 \in Fds, op \in {"ADD", "MOD", "DEL"}, m \in Masks :
          /\ OfFd(fd, Eps) => po.num_tas[po.fhs[fd]] \in 0..MaxTas - 1 \/ op # "ADD"
          /\ tas_epoll_ctl(fd, op, fd2, m)

--------------------------------------------------------------------------
(* Properties. *)

\* The entries reached from p through next, or from p through prev.
Reach(link, p) ==
    LET n == Cardinality(Pairs)
        at[i \in 0..n] == IF i = 0 THEN p ELSE IF at[i - 1] = Nil THEN Nil ELSE link[at[i - 1]]
    IN [i \in 0..n |-> at[i]]
Cells(link, p) == {Reach(link, p)[i] : i \in 0..Cardinality(Pairs)} \ {Nil}

\* The links are those of two lists per epoll, of its active and of its idle
\* sockets, that can be walked both ways and end; num_active counts the first.
\* No assertion of epoll.c fails and every descriptor counts as one reference,
\* so nothing is freed that a descriptor, a list or another socket can reach.
EpollListsExact ==
    /\ ~po.bad
    /\ \A o \in Objects : po.refs[o] = Cardinality({f \in Fds : po.fhs[f] = o})
    /\ \A p \in Registered(po) : po.refs[p[1]] > 0 /\ po.refs[p[2]] > 0
    /\ \A k \in Socks : {po.eps[k][i] : i \in DOMAIN po.eps[k]} = {p \in Registered(po) : p[2] = k}
    /\ \A e \in Eps :
          LET on == {p \in Registered(po) : p[1] = e /\ po.active[p]}
              off == {p \in Registered(po) : p[1] = e /\ ~po.active[p]}
          IN /\ Cells(po.next, po.first[e]) = on /\ Cells(po.prev, po.last[e]) = on
             /\ Cells(po.next, po.inactive[e]) = off
             /\ po.num_active[e] = Cardinality(on)
             /\ \A p \in on \cup off : po.next[p] # Nil => po.prev[po.next[p]] = p

\* A socket with an event its epoll asked for is on the active list of it, and
\* epoll_wait polls TAS at all: level triggered events are never lost, however
\* they are set, cleared, masked and polled.
EpollReady ==
    \A p \in Registered(po) : po.ev[p[2]] \cap po.mask[p] # {} => po.active[p] /\ po.num_tas[p[1]] # 0
=============================================================================
