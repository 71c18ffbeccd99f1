----------------------------- MODULE FlowTable -----------------------------
(***************************************************************************)
(* The flow hash table that the slow path writes (flow_slot_alloc and      *)
(* flow_slot_clear in src/tas_nic/slow/nicif.c) while fast path cores look *)
(* packets up in it (fast_flows_packet_fss).  Every store and every load   *)
(* that a MEM_BARRIER separates from the next is a step.  A flow stands    *)
(* for its 4-tuple and its flow id.                                        *)
(***************************************************************************)
EXTENDS Integers, FiniteSets, FiniteSetsExt

CONSTANTS Flows, Hash,        \* the 4-tuples and their 32 bit hashes
          HtEntries,          \* FLEXNIC_PL_FLOWHT_ENTRIES
          NbSz,               \* FLEXNIC_PL_FLOWHT_NBSZ
          MaxMoves,           \* bound: how often an entry is moved while it is installed
          NoFlow

ASSUME FlowTableAssumption == 5 * NbSz < HtEntries /\ NoFlow \notin Flows

VARIABLE ft
-----------------------------------------------------------------------------
Writing == [pc |-> "idle", f |-> NoFlow, k |-> 0, i |-> 0]
Reading == [pc |-> "idle", f |-> NoFlow, j |-> 0, fid |-> NoFlow, stable |-> FALSE]

HtSlot(n) == n % HtEntries
\* The flow id, and the position stored in it, are gone; the hash stays.
Cleared(e) == [e EXCEPT !.id = NoFlow, !.pos = 0]
Valid(i) == ft.ht[i].id # NoFlow
Home(f) == HtSlot(Hash[f])
\* The slots n steps or less after the home of f.
InReach(f, i) == HtSlot(i - Home(f)) < NbSz

\* flow_slot_alloc: the first free slot of the neighbourhood, or else the
\* first free one further away, from which the hole has to be moved back.
flow_slot_alloc(f) ==
  LET free == {n \in 0 .. 5 * NbSz - 1 : ~Valid(HtSlot(Home(f) + n))}
      n    == Min(free)
  IN  /\ ft.w.pc = "idle" /\ f \notin ft.installed
      /\ free # {}
      /\ ft' = [ft EXCEPT !.w = [pc |-> IF n < NbSz THEN "insert" ELSE "move",
                                 f |-> f, k |-> HtSlot(Home(f) + n), i |-> 0]]

\* How much further the element in slot i can be moved, from the position
\* stored with it.
CanMove(i, k) == HtSlot(k - i) <= NbSz - 1 - ft.ht[i].pos

\* The element that is moved into the hole k; its new entry keeps the
\* position stored in the old one.
MoveUp ==
  LET k    == ft.w.k
      cand == {n \in 1 .. NbSz : CanMove(HtSlot(k - n), k)}
      i    == HtSlot(k - Max(cand))
      e    == ft.ht[i]
  IN  /\ ft.w.pc = "move"
      /\ cand # {} => ft.moved[e.id] < MaxMoves
      /\ IF cand = {} THEN ft' = [ft EXCEPT !.w = Writing]
         ELSE ft' = [ft EXCEPT !.ht[k] = e, !.w.pc = "clear", !.w.i = i,
                               !.moved[e.id] = @ + 1]

EmptyOriginal ==
  /\ ft.w.pc = "clear"
  /\ ft' = [ft EXCEPT !.ht[ft.w.i] = Cleared(@), !.w.k = ft.w.i,
                      !.w.pc = IF InReach(ft.w.f, ft.w.i) THEN "insert" ELSE "move"]

\* nicif_connection_add, its last step: hash, barrier, valid flow id.
InsertEntry ==
  LET f == ft.w.f
      k == ft.w.k
  IN  /\ ft.w.pc = "insert"
      /\ ft' = [ft EXCEPT !.ht[k] = [id |-> f, hash |-> Hash[f], pos |-> HtSlot(k - Home(f))],
                          !.installed = @ \cup {f}, !.moved[f] = 0, !.w = Writing]

flow_slot_clear(f) ==
  LET at == {n \in 0 .. NbSz - 1 : LET e == ft.ht[HtSlot(Home(f) + n)]
                                   IN  e.id = f /\ e.hash = Hash[f]}
  IN  /\ ft.w.pc = "idle" /\ f \in ft.installed
      /\ ft' = [ft EXCEPT
           !.ht = IF at = {} THEN @ ELSE [ft.ht EXCEPT ![HtSlot(Home(f) + Min(at))] = Cleared(@)],
           !.installed = @ \ {f},
           !.rd.stable = @ /\ ft.rd.f # f]
-----------------------------------------------------------------------------
\* fast_flows_packet_fss for one packet of flow f.
Lookup(f) ==
  /\ ft.rd.pc = "idle"
  /\ ft' = [ft EXCEPT !.rd = [pc |-> "id", f |-> f, j |-> 0, fid |-> NoFlow,
                              stable |-> f \in ft.installed]]

\* Mutant: the neighbourhood is searched from its far end.
FromTheEnd == HtSlot(Hash[ft.rd.f] + NbSz - 1 - ft.rd.j)
Probe == HtSlot(Hash[ft.rd.f] + ft.rd.j)

LoadId ==
  /\ ft.rd.pc = "id" /\ ft.rd.j < NbSz
  /\ ft' = IF Valid(Probe) THEN [ft EXCEPT !.rd.fid = ft.ht[Probe].id, !.rd.pc = "hash"]
           ELSE [ft EXCEPT !.rd.j = @ + 1]

\* The hash, and then the tuple in the flow state of the id loaded before.
LoadHash ==
  /\ ft.rd.pc = "hash"
  /\ ft' = IF ft.ht[Probe].hash = Hash[ft.rd.f] /\ ft.rd.fid = ft.rd.f
           THEN [ft EXCEPT !.rd = Reading]
           ELSE [ft EXCEPT !.rd.pc = "id", !.rd.fid = NoFlow, !.rd.j = @ + 1]

NotFound == ft.rd.pc = "id" /\ ft.rd.j = NbSz
Miss == NotFound /\ ft' = [ft EXCEPT !.rd = Reading]

FlowTableStart ==
  {[ht |-> [i \in 0 .. HtEntries - 1 |-> [id |-> NoFlow, hash |-> 0, pos |-> 0]],
    installed |-> {}, moved |-> [f \in Flows |-> 0], w |-> Writing, rd |-> Reading]}

FlowTableNext ==
  \/ \E f \in Flows : flow_slot_alloc(f) \/ flow_slot_clear(f) \/ Lookup(f)
  \/ MoveUp \/ EmptyOriginal \/ InsertEntry
  \/ LoadId \/ LoadHash \/ Miss

FlowTableSpec == ft \in FlowTableStart /\ [][FlowTableNext]_ft
-----------------------------------------------------------------------------
\* A packet of a flow that is installed all the time its lookup takes is
\* found, however the slow path moves the entry meanwhile: fast_flows_packet_fss
\* takes no lock, it only reads in the direction in which entries move.
\* It holds as long as no entry is moved twice (MaxMoves 1): the second time
\* CanMove goes by the position from before the first.
LookupFinds == ~(NotFound /\ ft.rd.stable)
=============================================================================
