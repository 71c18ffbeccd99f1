--------------------------- MODULE FastPathProofs ---------------------------
(***************************************************************************)
(* What the fast path decides about a packet: a lookup that runs while the *)
(* slow path changes the flow table finds every installed flow             *)
(* (LookupsFind), and its comparisons of sequence numbers and counters     *)
(* that wrap are exact for every size of the number space, 2^32 and 2^16   *)
(* included (AckWindowExact, BumpOrderExact, TrimKeepsWhatFits and, for    *)
(* all of them, SequenceExact).                                            *)
(***************************************************************************)
EXTENDS MCTcpSeq, FlowTable, ArithmeticProofs, TLAPS
-------------------------------------------------------------------------------
(* flow_slot_alloc, flow_slot_clear, fast_flows_packet_fss *)
\* The table is a ring of slots, larger than what flow_slot_alloc searches, no entry
\* is moved twice, and a hash is a number.
TableFits ==
  /\ HtEntries \in Nat /\ NbSz \in Nat \ {0} /\ MaxMoves \in {0, 1}
  /\ \A f \in Flows : Hash[f] \in Nat

Slots == 0 .. HtEntries - 1
\* How far MoveUp looks back from the hole.
Back == 1 .. NbSz
\* How far slot i is from the home of f.
Dist(f, i) == HtSlot(i - Home(f))

USE FlowTableAssumption

\* Slots are numbered around the ring, forwards and backwards.
LEMMA SlotsAround ==
  ASSUME TableFits, NEW a \in Slots, NEW n \in Slots
  PROVE  /\ HtSlot(a + n) = (IF a + n < HtEntries THEN a + n ELSE a + n - HtEntries)
         /\ HtSlot(a - n) = (IF a >= n THEN a - n ELSE a - n + HtEntries)
         /\ HtSlot(a + n) \in Slots /\ HtSlot(a - n) \in Slots
<1>1. HtEntries \in Nat \ {0}
  BY DEF TableFits
<1>2. /\ HtSlot(a + n) = (IF a + n < HtEntries THEN a + n ELSE a + n - HtEntries)
      /\ HtSlot(a - n) = (IF a >= n THEN a - n ELSE a - n + HtEntries)
  BY <1>1, SeqWraps DEF HtSlot, Slots
<1> QED
  BY <1>1, <1>2 DEF Slots

\* The home of a flow is a slot.
LEMMA HomeSlot ==
  ASSUME TableFits, NEW f \in Flows
  PROVE  Home(f) \in Slots
BY DEF TableFits, Home, HtSlot, Slots

\* The distance from home counts the slots, and a slot is known by it.
LEMMA DistSlot ==
  ASSUME TableFits, NEW f \in Flows, NEW i \in Slots
  PROVE  /\ Dist(f, i) \in Slots
         /\ Dist(f, i) = (IF i >= Home(f) THEN i - Home(f) ELSE i - Home(f) + HtEntries)
BY HomeSlot, SlotsAround DEF Dist

\* The slot n after home is at distance n.
LEMMA DistOf ==
  ASSUME TableFits, NEW f \in Flows, NEW n \in Slots
  PROVE  HtSlot(Home(f) + n) \in Slots /\ Dist(f, HtSlot(Home(f) + n)) = n
<1>1. Home(f) \in Slots
  BY HomeSlot
<1>2. /\ HtSlot(Home(f) + n) = (IF Home(f) + n < HtEntries THEN Home(f) + n ELSE Home(f) + n - HtEntries)
      /\ HtSlot(Home(f) + n) \in Slots
  BY <1>1, SlotsAround
<1>3. Dist(f, HtSlot(Home(f) + n)) = (IF HtSlot(Home(f) + n) >= Home(f) THEN HtSlot(Home(f) + n) - Home(f)
                                   ELSE HtSlot(Home(f) + n) - Home(f) + HtEntries)
  BY <1>2, DistSlot
<1> QED
  BY <1>1, <1>2, <1>3 DEF Slots, TableFits

\* Two slots at one distance are the same.
LEMMA DistInjective ==
  ASSUME TableFits, NEW f \in Flows, NEW i \in Slots, NEW j \in Slots, Dist(f, i) = Dist(f, j)
  PROVE  i = j
BY DistSlot, HomeSlot DEF Slots, TableFits

\* n slots back from k.
LEMMA DistBack ==
  ASSUME TableFits, NEW f \in Flows, NEW k \in Slots, NEW n \in Slots
  PROVE  LET i == HtSlot(k - n)
         IN  /\ i \in Slots /\ HtSlot(k - i) = n
             /\ (n <= Dist(f, k) => Dist(f, i) = Dist(f, k) - n)
             /\ (Dist(f, i) + n < HtEntries => Dist(f, k) = Dist(f, i) + n)
<1> DEFINE i == HtSlot(k - n)
<1>1. Home(f) \in Slots
  BY HomeSlot
<1>2. i = (IF k >= n THEN k - n ELSE k - n + HtEntries) /\ i \in Slots
  BY SlotsAround
<1> HIDE DEF i
<1>3. HtSlot(k - i) = IF k >= i THEN k - i ELSE k - i + HtEntries
  BY <1>2, SlotsAround, Zenon
<1>4. Dist(f, i) = (IF i >= Home(f) THEN i - Home(f) ELSE i - Home(f) + HtEntries)
  BY <1>2, DistSlot
<1>5. Dist(f, k) = (IF k >= Home(f) THEN k - Home(f) ELSE k - Home(f) + HtEntries)
  BY DistSlot
<1>6. HtSlot(k - i) = n
  BY <1>2, <1>3 DEF Slots, TableFits
<1>7. n <= Dist(f, k) => Dist(f, i) = Dist(f, k) - n
  BY <1>1, <1>2, <1>4, <1>5 DEF Slots, TableFits
<1>8. Dist(f, i) + n < HtEntries => Dist(f, k) = Dist(f, i) + n
  BY <1>1, <1>2, <1>4, <1>5 DEF Slots, TableFits
<1> QED
  BY <1>2, <1>6, <1>7, <1>8 DEF i

\* The slot that the lookup of a packet looks at.
LEMMA ProbeSlot ==
  ASSUME TableFits, NEW f \in Flows, NEW j \in Slots
  PROVE  HtSlot(Hash[f] + j) \in Slots /\ Dist(f, HtSlot(Hash[f] + j)) = j
<1>1. HtSlot(Hash[f] + j) = HtSlot(Home(f) + j)
  BY RemainderAdds DEF TableFits, Slots, HtSlot, Home
<1> QED
  BY <1>1, DistOf

-------------------------------------------------------------------------------
Entry == [id : Flows \cup {NoFlow}, hash : Nat, pos : Nat]

\* The entry in slot i is flow f's, and not the original of one just moved.
Live(ht, pc, from, f, i) == i \in Slots /\ ht[i].id = f /\ ~(pc = "clear" /\ from = i)

\* Every entry is within reach of its home and, as long as it was not moved, has its
\* position stored with it.
EntryRight(ht, ins, mv, i) ==
  LET g == ht[i].id
  IN  g \in ins /\ ht[i].hash = Hash[g] /\ Dist(g, i) < NbSz /\ (mv[g] = 0 => ht[i].pos = Dist(g, i))
EntriesRight(ht, ins, mv) == \A i \in Slots : ht[i].id # NoFlow => EntryRight(ht, ins, mv, i)

\* Only the entry that is being moved is there twice.
Single(ht, pc, k, from) ==
  \A a \in Slots, b \in Slots :
    ht[a].id # NoFlow /\ ht[a].id = ht[b].id /\ a # b =>
      pc = "clear" /\ a \in {k, from} /\ b \in {k, from}
Present(ht, ins, pc, from) == \A f \in ins : \E i \in Slots : Live(ht, pc, from, f, i)

\* Where the writer is: f is to be installed, k is the hole, from the original of
\* the entry just moved; from the home of f to the hole every slot is taken.
Taken(ht, f, d) == \A n \in Slots : n < d => ht[HtSlot(Home(f) + n)].id # NoFlow
WriterRight(ht, ins, mv, pc, f, k, from) ==
  /\ (pc # "idle" => f \in Flows /\ f \notin ins)
  /\ (pc = "insert" => ht[k].id = NoFlow /\ Dist(f, k) < NbSz)
  /\ (pc = "move" => ht[k].id = NoFlow /\ NbSz <= Dist(f, k) /\ Dist(f, k) < 5 * NbSz /\ Taken(ht, f, Dist(f, k)))
  /\ (pc = "clear" =>
       LET g == ht[from].id
       IN  /\ g # NoFlow /\ ht[k].id = g /\ mv[g] # 0 /\ Dist(g, from) < Dist(g, k)
           /\ Dist(f, from) < 5 * NbSz /\ Taken(ht, f, Dist(f, from)))

TableInv(ht, ins, mv, pc, f, k, from) ==
  /\ EntriesRight(ht, ins, mv) /\ Single(ht, pc, k, from) /\ Present(ht, ins, pc, from)
  /\ WriterRight(ht, ins, mv, pc, f, k, from)

\* A flow that has been installed since its lookup began has an entry that the
\* lookup has not passed.
Unpassed(ht, pc, from, rpc, f, j, fid) ==
  \E i \in Slots : /\ Live(ht, pc, from, f, i)
                   /\ Dist(f, i) > j \/ (Dist(f, i) = j /\ (rpc = "hash" => fid = f))
ReaderInv(ht, ins, pc, from, rpc, f, j, fid, stable) ==
  /\ (rpc # "idle" => f \in Flows /\ j \in 0 .. NbSz)
  /\ (rpc = "hash" => j < NbSz)
  /\ (stable => rpc # "idle" /\ f \in ins /\ Unpassed(ht, pc, from, rpc, f, j, fid))

\* Every entry of these flows stays where it is or is there further from its home.
MovesOn(flows, ht, pc, from, ht2, pc2, from2) ==
  \A g \in flows, i \in Slots : Live(ht, pc, from, g, i) =>
     Live(ht2, pc2, from2, g, i) \/
     \E i2 \in Slots : Live(ht2, pc2, from2, g, i2) /\ Dist(g, i2) > Dist(g, i)

\* The writer only moves entries on: a reader stays behind.
LEMMA ReaderKept ==
  ASSUME TableFits, NEW ht, NEW ins \in SUBSET Flows, NEW pc, NEW from, NEW rpc, NEW f, NEW j, NEW fid,
         NEW stable, ReaderInv(ht, ins, pc, from, rpc, f, j, fid, stable),
         NEW ht2, NEW ins2 \in SUBSET Flows, NEW pc2, NEW from2, NEW stable2,
         stable2 => stable /\ f \in ins2,
         MovesOn(ins \cap ins2, ht, pc, from, ht2, pc2, from2)
  PROVE  ReaderInv(ht2, ins2, pc2, from2, rpc, f, j, fid, stable2)
<1>1. ASSUME stable2 PROVE Unpassed(ht2, pc2, from2, rpc, f, j, fid)
  <2>1. stable /\ f \in ins \cap ins2 /\ f \in Flows /\ j \in 0 .. NbSz
    BY <1>1 DEF ReaderInv
  <2>2. PICK i \in Slots : /\ Live(ht, pc, from, f, i)
                           /\ Dist(f, i) > j \/ (Dist(f, i) = j /\ (rpc = "hash" => fid = f))
    BY <2>1 DEF ReaderInv, Unpassed
  <2>3. CASE Live(ht2, pc2, from2, f, i)
    BY <2>2, <2>3 DEF Unpassed
  <2>4. CASE ~Live(ht2, pc2, from2, f, i)
    <3>1. PICK i2 \in Slots : Live(ht2, pc2, from2, f, i2) /\ Dist(f, i2) > Dist(f, i)
      BY <2>1, <2>2, <2>4 DEF MovesOn
    <3>2. Dist(f, i) \in Int /\ Dist(f, i2) \in Int /\ j \in Int
      BY <2>1, DistSlot DEF Slots
    <3>3. Dist(f, i2) > j
      BY <2>2, <3>1, <3>2
    <3> QED
      BY <3>1, <3>3 DEF Unpassed
  <2> QED
    BY <2>3, <2>4
<1> QED
  BY <1>1 DEF ReaderInv

\* flow_slot_alloc: the first free slot is the hole.
LEMMA AllocTable ==
  ASSUME TableFits, NEW ht \in [Slots -> Entry], NEW ins \in SUBSET Flows, NEW mv, NEW f0, NEW k0, NEW from0,
         TableInv(ht, ins, mv, "idle", f0, k0, from0),
         NEW f \in Flows, f \notin ins, NEW n \in 0 .. 5 * NbSz - 1,
         ht[HtSlot(Home(f) + n)].id = NoFlow,
         \A m \in 0 .. n - 1 : ht[HtSlot(Home(f) + m)].id # NoFlow
  PROVE  /\ HtSlot(Home(f) + n) \in Slots
         /\ TableInv(ht, ins, mv, IF n < NbSz THEN "insert" ELSE "move", f, HtSlot(Home(f) + n), 0)
<1> DEFINE k  == HtSlot(Home(f) + n)
           pc == IF n < NbSz THEN "insert" ELSE "move"
<1>1. n \in Slots
  BY DEF Slots, TableFits
<1>2. k \in Slots /\ Dist(f, k) = n
  BY <1>1, DistOf
<1>3. pc = "insert" \/ pc = "move"
  OBVIOUS
<1>4. pc # "clear" /\ "idle" # "clear" /\ pc # "idle"
  OBVIOUS
<1>5. Single(ht, pc, k, 0) /\ Present(ht, ins, pc, 0)
  BY <1>4 DEF TableInv, Single, Present, Live
<1>6. Taken(ht, f, n)
  BY <1>1 DEF Taken, Slots
<1>7. WriterRight(ht, ins, mv, pc, f, k, 0)
  <2>1. pc = "insert" => n < NbSz
    OBVIOUS
  <2>2. pc = "move" => NbSz <= n /\ n < 5 * NbSz
    BY DEF TableFits
  <2>3. ht[k].id = NoFlow
    OBVIOUS
  <2> HIDE DEF pc, k
  <2> QED
    BY <1>2, <1>4, <1>6, <2>1, <2>2, <2>3 DEF WriterRight
<1> QED
  BY <1>2, <1>5, <1>7 DEF TableInv

\* The slots before the hole are taken.
LEMMA BeforeHole ==
  ASSUME TableFits, NEW ht \in [Slots -> Entry], NEW ins \in SUBSET Flows, NEW mv, NEW f, NEW k \in Slots,
         NEW from, TableInv(ht, ins, mv, "move", f, k, from), NEW n \in Back
  PROVE  LET i == HtSlot(k - n)
         IN  /\ i \in Slots /\ ht[i].id # NoFlow /\ i # k /\ HtSlot(k - i) = n
             /\ Dist(f, i) < Dist(f, k) /\ Dist(f, k) < 5 * NbSz
<1> DEFINE i == HtSlot(k - n)
<1>1. f \in Flows /\ NbSz <= Dist(f, k) /\ Dist(f, k) < 5 * NbSz /\ Taken(ht, f, Dist(f, k))
  BY DEF TableInv, WriterRight
<1>2. n \in Slots
  BY DEF Slots, TableFits, Back
<1>3. Dist(f, k) \in Slots
  BY <1>1, DistSlot
<1>4. n <= Dist(f, k)
  BY <1>1, <1>3 DEF Slots, TableFits, Back
<1>5. i \in Slots /\ HtSlot(k - i) = n /\ Dist(f, i) = Dist(f, k) - n
  BY <1>1, <1>2, <1>4, DistBack
<1> HIDE DEF i
<1>6. Dist(f, i) \in Slots
  BY <1>1, <1>5, DistSlot
<1>7. Dist(f, i) < Dist(f, k)
  BY <1>3, <1>5 DEF Slots, Back, TableFits
<1>8. HtSlot(Home(f) + Dist(f, i)) = i
  <2>1. /\ HtSlot(Home(f) + Dist(f, i)) \in Slots
        /\ Dist(f, HtSlot(Home(f) + Dist(f, i))) = Dist(f, i)
    BY <1>1, <1>6, DistOf
  <2> QED
    BY <1>1, <1>5, <2>1, DistInjective
<1>9. ht[i].id # NoFlow
  BY <1>1, <1>6, <1>7, <1>8 DEF Taken
<1>10. i # k
  BY <1>3, <1>7 DEF Slots
<1> QED
  BY <1>1, <1>5, <1>7, <1>9, <1>10 DEF i

\* MoveUp: an entry that was not moved before stays within reach of its home.
LEMMA MoveTable ==
  ASSUME TableFits, NEW ht \in [Slots -> Entry], NEW ins \in SUBSET Flows, NEW mv \in [Flows -> Nat],
         NEW f, NEW k \in Slots, NEW from,
         TableInv(ht, ins, mv, "move", f, k, from), NEW n \in Back,
         n <= NbSz - 1 - ht[HtSlot(k - n)].pos, mv[ht[HtSlot(k - n)].id] = 0
  PROVE  LET i   == HtSlot(k - n)
             ht2 == [ht EXCEPT ![k] = ht[i]]
             mv2 == [mv EXCEPT ![ht[i].id] = @ + 1]
         IN  /\ ht2 \in [Slots -> Entry] /\ mv2 \in [Flows -> Nat]
             /\ TableInv(ht2, ins, mv2, "clear", f, k, i)
             /\ MovesOn(ins, ht, "move", from, ht2, "clear", i)
<1> DEFINE i   == HtSlot(k - n)
           e   == ht[i]
           h   == ht[i].id
           ht2 == [ht EXCEPT ![k] = ht[i]]
           mv2 == [mv EXCEPT ![ht[i].id] = @ + 1]
<1>1. /\ i \in Slots /\ h # NoFlow /\ i # k /\ HtSlot(k - i) = n
      /\ Dist(f, i) < Dist(f, k) /\ Dist(f, k) < 5 * NbSz
  BY BeforeHole, Zenon
<1>2. f \in Flows /\ f \notin ins /\ ht[k].id = NoFlow /\ Taken(ht, f, Dist(f, k))
  BY DEF TableInv, WriterRight
<1>3. EntriesRight(ht, ins, mv) /\ EntryRight(ht, ins, mv, i)
  BY <1>1 DEF TableInv, EntriesRight
<1>4. h \in ins /\ h \in Flows /\ e.hash = Hash[h] /\ Dist(h, i) < NbSz /\ e.pos = Dist(h, i)
  BY <1>3 DEF EntryRight
<1>5. n <= NbSz - 1 - e.pos /\ e \in Entry /\ n \in Slots
  BY <1>1 DEF Slots, TableFits, Back
<1>6. i = HtSlot(k - n)
  OBVIOUS
<1>7. mv[h] = 0
  OBVIOUS
<1> HIDE DEF i
<1>8. Dist(h, k) = Dist(h, i) + n /\ Dist(h, k) < NbSz /\ Dist(h, i) < Dist(h, k)
  <2>1. Dist(h, i) \in Nat
    BY <1>1, <1>4, DistSlot DEF Slots
  <2>2. Dist(h, i) + n <= NbSz - 1 /\ Dist(h, i) + n < HtEntries
    BY <1>4, <1>5, <2>1 DEF TableFits, Back
  <2>3. Dist(h, k) = Dist(h, i) + n
    BY <1>4, <1>5, <1>6, <2>2, DistBack
  <2> QED
    BY <2>1, <2>2, <2>3 DEF TableFits, Back
<1>9. ht2 \in [Slots -> Entry] /\ mv2 \in [Flows -> Nat]
  BY <1>4, <1>5
<1>10. ht2[k] = e /\ ht2[i] = e /\ \A a \in Slots : a # k => ht2[a] = ht[a]
  BY <1>1
<1>11. mv2[h] # 0 /\ \A g \in Flows : g # h => mv2[g] = mv[g]
  BY <1>4, <1>7
<1>12. e.id = h
  OBVIOUS
<1> HIDE DEF ht2, mv2, e, h
<1>13. EntriesRight(ht2, ins, mv2)
  <2> SUFFICES ASSUME NEW a \in Slots, ht2[a].id # NoFlow
               PROVE  EntryRight(ht2, ins, mv2, a)
    BY DEF EntriesRight
  <2>1. CASE a = k
    BY <1>4, <1>8, <1>10, <1>11, <1>12, <2>1 DEF EntryRight
  <2>2. CASE a # k
    <3>1. ht2[a] = ht[a] /\ EntryRight(ht, ins, mv, a)
      BY <1>3, <1>10, <2>2 DEF EntriesRight
    <3>2. ht[a].id \in Flows
      BY <3>1 DEF EntryRight
    <3>3. mv2[ht[a].id] = 0 => mv[ht[a].id] = 0
      BY <1>11, <3>2
    <3> QED
      BY <3>1, <3>3 DEF EntryRight
  <2> QED
    BY <2>1, <2>2
<1>14. Single(ht2, "clear", k, i)
  <2>1. Single(ht, "move", k, from)
    BY DEF TableInv
  <2>2. \A a \in Slots, b \in Slots : ht[a].id # NoFlow /\ ht[a].id = ht[b].id => a = b
    BY <2>1 DEF Single
  <2> SUFFICES ASSUME NEW a \in Slots, NEW b \in Slots,
                      ht2[a].id # NoFlow, ht2[a].id = ht2[b].id, a # b
               PROVE  a \in {k, i} /\ b \in {k, i}
    BY DEF Single
  <2>3. CASE a = k
    <3>1. ht2[a] = e /\ ht2[b] = ht[b] /\ ht[i] = e
      BY <1>10, <2>3 DEF e
    <3> QED
      BY <1>1, <2>2, <2>3, <3>1
  <2>4. CASE b = k
    <3>1. ht2[b] = e /\ ht2[a] = ht[a] /\ ht[i] = e
      BY <1>10, <2>4 DEF e
    <3> QED
      BY <1>1, <2>2, <2>4, <3>1
  <2>5. CASE a # k /\ b # k
    BY <1>10, <2>2, <2>5
  <2> QED
    BY <2>3, <2>4, <2>5
<1>15. MovesOn(ins, ht, "move", from, ht2, "clear", i)
  <2> SUFFICES ASSUME NEW g \in ins, NEW a \in Slots, ht[a].id = g
               PROVE  Live(ht2, "clear", i, g, a) \/
                      \E b \in Slots : Live(ht2, "clear", i, g, b) /\ Dist(g, b) > Dist(g, a)
    BY DEF MovesOn, Live
  <2>1. g # NoFlow /\ a # k
    BY <1>2
  <2>2. CASE a = i
    <3>1. g = h
      BY <2>2 DEF h
    <3>2. Live(ht2, "clear", i, g, k)
      BY <1>1, <1>10, <1>12, <3>1 DEF Live
    <3>3. Dist(g, k) > Dist(g, a)
      <4>1. Dist(h, i) \in Int /\ Dist(h, k) \in Int
        BY <1>1, <1>4, DistSlot DEF Slots
      <4> QED
        BY <1>8, <2>2, <3>1, <4>1
    <3> QED
      BY <3>2, <3>3
  <2>3. CASE a # i
    BY <1>10, <2>1, <2>3 DEF Live
  <2> QED
    BY <2>2, <2>3
<1>16. Present(ht2, ins, "clear", i)
  <2>1. Present(ht, ins, "move", from)
    BY DEF TableInv
  <2> QED
    BY <1>15, <2>1 DEF Present, MovesOn
<1>17. WriterRight(ht2, ins, mv2, "clear", f, k, i)
  <2>1. Taken(ht2, f, Dist(f, i))
    <3> SUFFICES ASSUME NEW m \in Slots, m < Dist(f, i)
                 PROVE  ht2[HtSlot(Home(f) + m)].id # NoFlow
      BY DEF Taken
    <3>1. Dist(f, i) \in Int /\ Dist(f, k) \in Int /\ m \in Int
      BY <1>1, <1>2, DistSlot DEF Slots
    <3>2. m < Dist(f, k)
      BY <1>1, <3>1
    <3>3. ht[HtSlot(Home(f) + m)].id # NoFlow
      BY <1>2, <3>2 DEF Taken
    <3>4. HtSlot(Home(f) + m) \in Slots
      BY <1>2, DistOf
    <3> QED
      BY <1>2, <1>10, <3>3, <3>4
  <2>2. Dist(f, i) < 5 * NbSz
    <3>1. Dist(f, i) \in Int /\ Dist(f, k) \in Int
      BY <1>1, <1>2, DistSlot DEF Slots
    <3> QED
      BY <1>1, <3>1 DEF TableFits
  <2> QED
    BY <1>1, <1>2, <1>8, <1>10, <1>11, <1>12, <2>1, <2>2 DEF WriterRight
<1>18. TableInv(ht2, ins, mv2, "clear", f, k, i)
  BY <1>13, <1>14, <1>16, <1>17 DEF TableInv
<1> QED
  BY <1>9, <1>15, <1>18 DEF ht2, mv2, i, h

\* EmptyOriginal: the original becomes the hole.
LEMMA EmptyTable ==
  ASSUME TableFits, NEW ht \in [Slots -> Entry], NEW ins \in SUBSET Flows, NEW mv \in [Flows -> Nat],
         NEW f, NEW k \in Slots, NEW i \in Slots, TableInv(ht, ins, mv, "clear", f, k, i)
  PROVE  LET ht2 == [ht EXCEPT ![i] = Cleared(@)]
             pc2 == IF InReach(f, i) THEN "insert" ELSE "move"
         IN  /\ ht2 \in [Slots -> Entry]
             /\ TableInv(ht2, ins, mv, pc2, f, i, i)
             /\ MovesOn(ins, ht, "clear", i, ht2, pc2, i)
<1> DEFINE ht2 == [ht EXCEPT ![i] = Cleared(@)]
           pc2 == IF InReach(f, i) THEN "insert" ELSE "move"
           h   == ht[i].id
<1>1. /\ f \in Flows /\ f \notin ins /\ h # NoFlow /\ ht[k].id = h /\ Dist(h, i) < Dist(h, k)
      /\ Dist(f, i) < 5 * NbSz /\ Taken(ht, f, Dist(f, i))
  BY DEF TableInv, WriterRight
<1>2. EntriesRight(ht, ins, mv) /\ Single(ht, "clear", k, i) /\ Present(ht, ins, "clear", i)
  BY DEF TableInv
<1>3. h \in ins
  BY <1>1, <1>2 DEF EntriesRight, EntryRight
<1>4. i # k
  <2>1. Dist(h, i) \in Int
    BY <1>3, DistSlot DEF Slots
  <2> QED
    BY <1>1, <2>1
<1>5. Cleared(ht[i]) \in Entry /\ Cleared(ht[i]).id = NoFlow
  <2>1. ht[i] \in Entry
    OBVIOUS
  <2> QED
    BY <2>1, Zenon DEF Cleared, Entry
<1>6. ht2 \in [Slots -> Entry] /\ ht2[i].id = NoFlow /\ \A a \in Slots : a # i => ht2[a] = ht[a]
  BY <1>5
<1>7. pc2 # "clear" /\ pc2 # "idle" /\ (pc2 = "insert" <=> Dist(f, i) < NbSz)
  BY DEF InReach, Dist
<1> HIDE DEF ht2, pc2
<1>8. \A g \in ins, a \in Slots : Live(ht, "clear", i, g, a) => Live(ht2, pc2, i, g, a)
  BY <1>6, <1>7 DEF Live
<1>9. EntriesRight(ht2, ins, mv)
  <2> SUFFICES ASSUME NEW a \in Slots, ht2[a].id # NoFlow
               PROVE  EntryRight(ht2, ins, mv, a)
    BY DEF EntriesRight
  <2>1. ht2[a] = ht[a]
    BY <1>6
  <2> QED
    BY <1>2, <2>1 DEF EntriesRight, EntryRight
<1>10. Single(ht2, pc2, i, i)
  <2> SUFFICES ASSUME NEW a \in Slots, NEW b \in Slots,
                      ht2[a].id # NoFlow, ht2[a].id = ht2[b].id, a # b
               PROVE  FALSE
    BY DEF Single
  <2>1. a # i /\ b # i /\ ht2[a] = ht[a] /\ ht2[b] = ht[b]
    BY <1>6
  <2>2. a \in {k, i} /\ b \in {k, i}
    BY <1>2, <2>1 DEF Single
  <2> QED
    BY <2>1, <2>2
<1>11. Present(ht2, ins, pc2, i)
  BY <1>2, <1>8 DEF Present
<1>12. Taken(ht2, f, Dist(f, i))
  <2> SUFFICES ASSUME NEW m \in Slots, m < Dist(f, i)
               PROVE  ht2[HtSlot(Home(f) + m)].id # NoFlow
    BY DEF Taken
  <2>1. HtSlot(Home(f) + m) \in Slots /\ Dist(f, HtSlot(Home(f) + m)) = m
    BY <1>1, DistOf
  <2>2. Dist(f, i) \in Int /\ m \in Int
    BY <1>1, DistSlot DEF Slots
  <2>3. HtSlot(Home(f) + m) # i
    BY <2>1, <2>2
  <2> QED
    BY <1>1, <1>6, <2>1, <2>3 DEF Taken
<1>13. WriterRight(ht2, ins, mv, pc2, f, i, i)
  <2>1. Dist(f, i) \in Int
    BY <1>1, DistSlot DEF Slots
  <2>2. pc2 = "move" => NbSz <= Dist(f, i)
    BY <1>7, <2>1 DEF TableFits
  <2> QED
    BY <1>1, <1>6, <1>7, <1>12, <2>2 DEF WriterRight
<1>14. TableInv(ht2, ins, mv, pc2, f, i, i)
  BY <1>9, <1>10, <1>11, <1>13 DEF TableInv
<1>15. MovesOn(ins, ht, "clear", i, ht2, pc2, i)
  BY <1>8 DEF MovesOn
<1> QED
  BY <1>6, <1>14, <1>15 DEF ht2, pc2

\* InsertEntry: the flow has its entry, within reach, and its position with it.
LEMMA InsertTable ==
  ASSUME TableFits, NEW ht \in [Slots -> Entry], NEW ins \in SUBSET Flows, NEW mv \in [Flows -> Nat],
         NEW f, NEW k \in Slots, NEW i, TableInv(ht, ins, mv, "insert", f, k, i)
  PROVE  LET ht2 == [ht EXCEPT ![k] = [id |-> f, hash |-> Hash[f], pos |-> HtSlot(k - Home(f))]]
             mv2 == [mv EXCEPT ![f] = 0]
         IN  /\ ht2 \in [Slots -> Entry] /\ mv2 \in [Flows -> Nat] /\ ins \cup {f} \in SUBSET Flows
             /\ TableInv(ht2, ins \cup {f}, mv2, "idle", NoFlow, 0, 0)
             /\ MovesOn(ins, ht, "insert", i, ht2, "idle", 0)
<1> DEFINE e   == [id |-> f, hash |-> Hash[f], pos |-> HtSlot(k - Home(f))]
           ht2 == [ht EXCEPT ![k] = e]
           mv2 == [mv EXCEPT ![f] = 0]
           ins2 == ins \cup {f}
<1>1. f \in Flows /\ f \notin ins /\ ht[k].id = NoFlow /\ Dist(f, k) < NbSz
  BY DEF TableInv, WriterRight
<1>2. EntriesRight(ht, ins, mv) /\ Single(ht, "insert", k, i) /\ Present(ht, ins, "insert", i)
  BY DEF TableInv
<1>3. Dist(f, k) \in Nat /\ Hash[f] \in Nat
  BY <1>1, DistSlot DEF Slots, TableFits
<1>4. e \in Entry /\ e.id = f /\ e.hash = Hash[f] /\ e.pos = Dist(f, k)
  BY <1>1, <1>3 DEF Entry, Dist
<1>5. ht2 \in [Slots -> Entry] /\ ht2[k] = e /\ \A a \in Slots : a # k => ht2[a] = ht[a]
  BY <1>4
<1>6. mv2 \in [Flows -> Nat] /\ \A g \in Flows : g # f => mv2[g] = mv[g]
  BY <1>1
<1> HIDE DEF ht2, mv2, e
<1>7. \A g \in ins, a \in Slots : Live(ht, "insert", i, g, a) => Live(ht2, "idle", 0, g, a)
  <2> SUFFICES ASSUME NEW g \in ins, NEW a \in Slots, ht[a].id = g
               PROVE  ht2[a].id = g
    BY DEF Live
  <2> QED
    BY <1>1, <1>5
<1>8. EntriesRight(ht2, ins2, mv2)
  <2> SUFFICES ASSUME NEW a \in Slots, ht2[a].id # NoFlow
               PROVE  EntryRight(ht2, ins2, mv2, a)
    BY Zenon DEF EntriesRight
  <2>1. CASE a = k
    BY <1>1, <1>4, <1>5, <2>1 DEF EntryRight
  <2>2. CASE a # k
    <3>1. ht2[a] = ht[a] /\ EntryRight(ht, ins, mv, a)
      BY <1>2, <1>5, <2>2 DEF EntriesRight
    <3>2. ht[a].id \in Flows /\ ht[a].id # f
      BY <1>1, <3>1 DEF EntryRight
    <3> QED
      BY <1>6, <3>1, <3>2 DEF EntryRight
  <2> QED
    BY <2>1, <2>2
<1>9. Single(ht2, "idle", 0, 0)
  <2> SUFFICES ASSUME NEW a \in Slots, NEW b \in Slots,
                      ht2[a].id # NoFlow, ht2[a].id = ht2[b].id, a # b
               PROVE  FALSE
    BY DEF Single
  <2>1. \A c \in Slots : ht[c].id # f
    BY <1>1, <1>2 DEF EntriesRight, EntryRight
  <2>2. \A c \in Slots, d \in Slots : ht[c].id # NoFlow /\ ht[c].id = ht[d].id => c = d
    BY <1>2 DEF Single
  <2>3. CASE a = k
    BY <1>4, <1>5, <2>1, <2>3
  <2>4. CASE b = k
    BY <1>4, <1>5, <2>1, <2>4
  <2>5. CASE a # k /\ b # k
    BY <1>5, <2>2, <2>5
  <2> QED
    BY <2>3, <2>4, <2>5
<1>10. Present(ht2, ins2, "idle", 0)
  <2> SUFFICES ASSUME NEW g \in ins2 PROVE \E a \in Slots : Live(ht2, "idle", 0, g, a)
    BY DEF Present
  <2>1. CASE g = f
    BY <1>4, <1>5, <2>1 DEF Live
  <2>2. CASE g # f
    BY <1>2, <1>7, <2>2 DEF Present
  <2> QED
    BY <2>1, <2>2
<1>11. WriterRight(ht2, ins2, mv2, "idle", NoFlow, 0, 0)
  BY DEF WriterRight
<1>12. TableInv(ht2, ins2, mv2, "idle", NoFlow, 0, 0)
  BY <1>8, <1>9, <1>10, <1>11 DEF TableInv
<1>13. MovesOn(ins, ht, "insert", i, ht2, "idle", 0)
  BY <1>7 DEF MovesOn
<1>14. ins \cup {f} \in SUBSET Flows
  BY <1>1
<1> QED
  BY <1>5, <1>6, <1>12, <1>13, <1>14 DEF ht2, mv2, e

\* Where flow_slot_clear finds the flow in the neighbourhood of its home.
FoundAt(ht, f) == {n \in 0 .. NbSz - 1 : LET e == ht[HtSlot(Home(f) + n)]
                                         IN  e.id = f /\ e.hash = Hash[f]}

\* flow_slot_clear: the one entry of the flow is found and is gone.
LEMMA RemoveTable ==
  ASSUME TableFits, NEW ht \in [Slots -> Entry], NEW ins \in SUBSET Flows, NEW mv \in [Flows -> Nat],
         NEW f \in ins, NEW f0, NEW k0, NEW i0, TableInv(ht, ins, mv, "idle", f0, k0, i0)
  PROVE  LET at  == FoundAt(ht, f)
             ht2 == [ht EXCEPT ![HtSlot(Home(f) + Min(at))] = Cleared(@)]
         IN  /\ at # {} /\ ht2 \in [Slots -> Entry]
             /\ TableInv(ht2, ins \ {f}, mv, "idle", f0, k0, i0)
             /\ MovesOn(ins \ {f}, ht, "idle", i0, ht2, "idle", i0)
<1> DEFINE at  == {n \in 0 .. NbSz - 1 : LET e == ht[HtSlot(Home(f) + n)]
                                         IN  e.id = f /\ e.hash = Hash[f]}
           s   == HtSlot(Home(f) + Min(at))
           ht2 == [ht EXCEPT ![s] = Cleared(@)]
           ins2 == ins \ {f}
<1>1. EntriesRight(ht, ins, mv) /\ Single(ht, "idle", k0, i0) /\ Present(ht, ins, "idle", i0)
  BY DEF TableInv
<1>2. PICK i \in Slots : ht[i].id = f
  BY <1>1 DEF Present, Live
<1>3. f \in Flows /\ f # NoFlow
  OBVIOUS
<1>4. ht[i].hash = Hash[f] /\ Dist(f, i) < NbSz
  BY <1>1, <1>2, <1>3 DEF EntriesRight, EntryRight
<1>5. \A n \in 0 .. NbSz - 1 : n \in Slots
  BY DEF Slots, TableFits
<1>6. Dist(f, i) \in 0 .. NbSz - 1 /\ HtSlot(Home(f) + Dist(f, i)) = i
  <2>1. Dist(f, i) \in Slots
    BY <1>3, DistSlot
  <2>2. /\ HtSlot(Home(f) + Dist(f, i)) \in Slots
        /\ Dist(f, HtSlot(Home(f) + Dist(f, i))) = Dist(f, i)
    BY <1>3, <2>1, DistOf
  <2>3. HtSlot(Home(f) + Dist(f, i)) = i
    BY <1>3, <2>2, DistInjective
  <2> QED
    BY <1>4, <2>1, <2>3 DEF Slots, TableFits
<1>7. Dist(f, i) \in at
  BY <1>2, <1>4, <1>6
<1>8. at \in SUBSET Nat /\ at # {}
  BY <1>7 DEF TableFits
<1>9. Min(at) \in at
  BY <1>8, LeastOf, Zenon
<1>10. ht[s].id = f /\ Min(at) \in 0 .. NbSz - 1
  BY <1>9
<1>11. s \in Slots
  BY <1>3, <1>5, <1>10, DistOf
<1> HIDE DEF at, s
<1>12. Cleared(ht[s]) \in Entry /\ Cleared(ht[s]).id = NoFlow
  <2>1. ht[s] \in Entry
    BY <1>11
  <2> QED
    BY <2>1, Zenon DEF Cleared, Entry
<1>13. ht2 \in [Slots -> Entry] /\ ht2[s].id = NoFlow /\ \A a \in Slots : a # s => ht2[a] = ht[a]
  BY <1>11, <1>12
<1> HIDE DEF ht2
<1>14. \A a \in Slots, b \in Slots : ht[a].id # NoFlow /\ ht[a].id = ht[b].id => a = b
  BY <1>1 DEF Single
<1>15. \A g \in ins2, a \in Slots : Live(ht, "idle", i0, g, a) => Live(ht2, "idle", i0, g, a)
  <2> SUFFICES ASSUME NEW g \in ins2, NEW a \in Slots, ht[a].id = g
               PROVE  ht2[a].id = g
    BY DEF Live
  <2> QED
    BY <1>10, <1>13
<1>16. EntriesRight(ht2, ins2, mv)
  <2> SUFFICES ASSUME NEW a \in Slots, ht2[a].id # NoFlow
               PROVE  EntryRight(ht2, ins2, mv, a)
    BY Zenon DEF EntriesRight
  <2>1. a # s /\ ht2[a] = ht[a]
    BY <1>13
  <2>2. EntryRight(ht, ins, mv, a)
    BY <1>1, <2>1 DEF EntriesRight
  <2>3. ht[a].id # f
    BY <1>3, <1>10, <1>11, <1>14, <2>1
  <2> QED
    BY <2>1, <2>2, <2>3 DEF EntryRight
<1>17. Single(ht2, "idle", k0, i0)
  BY <1>13, <1>14 DEF Single
<1>18. Present(ht2, ins2, "idle", i0)
  BY <1>1, <1>15 DEF Present
<1>19. WriterRight(ht2, ins2, mv, "idle", f0, k0, i0)
  BY DEF WriterRight
<1>20. TableInv(ht2, ins2, mv, "idle", f0, k0, i0)
  BY <1>16, <1>17, <1>18, <1>19 DEF TableInv
<1>21. MovesOn(ins2, ht, "idle", i0, ht2, "idle", i0)
  BY <1>15 DEF MovesOn
<1>22. at = FoundAt(ht, f)
  BY DEF FoundAt, at
<1> QED
  BY <1>8, <1>13, <1>20, <1>21, <1>22 DEF ht2, s

-------------------------------------------------------------------------------
WriterRec == [pc : {"idle", "insert", "move", "clear"}, f : Flows \cup {NoFlow}, k : Slots, i : Slots]
ReaderRec == [pc : {"idle", "id", "hash"}, f : Flows \cup {NoFlow}, j : Nat, fid : Flows \cup {NoFlow},
              stable : BOOLEAN]
TableRec == [ht : [Slots -> Entry], installed : SUBSET Flows, moved : [Flows -> Nat],
             w : WriterRec, rd : ReaderRec]

WriterInv(t) == TableInv(t.ht, t.installed, t.moved, t.w.pc, t.w.f, t.w.k, t.w.i)
LookupInv(t) == ReaderInv(t.ht, t.installed, t.w.pc, t.w.i, t.rd.pc, t.rd.f, t.rd.j, t.rd.fid, t.rd.stable)

\* The inductive invariant of table, writer and reader.
FlowInv == ft \in TableRec /\ WriterInv(ft) /\ LookupInv(ft)

\* The state after a step of the writer, in its parts.
LEMMA WriterStep ==
  ASSUME TableFits, FlowInv, NEW new, NEW ht \in [Slots -> Entry], NEW ins \in SUBSET Flows,
         NEW mv \in [Flows -> Nat], NEW w \in WriterRec, NEW rd \in ReaderRec,
         new = [ht |-> ht, installed |-> ins, moved |-> mv, w |-> w, rd |-> rd],
         rd.pc = ft.rd.pc, rd.f = ft.rd.f, rd.j = ft.rd.j, rd.fid = ft.rd.fid,
         rd.stable => ft.rd.stable /\ ft.rd.f \in ins,
         TableInv(ht, ins, mv, w.pc, w.f, w.k, w.i),
         MovesOn(ft.installed \cap ins, ft.ht, ft.w.pc, ft.w.i, ht, w.pc, w.i)
  PROVE  new \in TableRec /\ WriterInv(new) /\ LookupInv(new)
<1>1. new \in TableRec
  BY DEF TableRec
<1>2. new.ht = ht /\ new.installed = ins /\ new.moved = mv /\ new.w = w /\ new.rd = rd
  OBVIOUS
<1>3. WriterInv(new)
  BY <1>2, Zenon DEF WriterInv
<1>4. ft.installed \in SUBSET Flows /\ LookupInv(ft)
  BY DEF FlowInv, TableRec
<1>5. ReaderInv(ht, ins, w.pc, w.i, ft.rd.pc, ft.rd.f, ft.rd.j, ft.rd.fid, rd.stable)
  BY <1>4, ReaderKept DEF LookupInv
<1>6. LookupInv(new)
  BY <1>2, <1>5 DEF LookupInv
<1> QED
  BY <1>1, <1>3, <1>6

\* The parts of the state have their types.
LEMMA TableParts ==
  ASSUME TableFits, FlowInv
  PROVE  /\ ft.ht \in [Slots -> Entry] /\ ft.installed \in SUBSET Flows /\ ft.moved \in [Flows -> Nat]
         /\ ft.w \in WriterRec /\ ft.rd \in ReaderRec
         /\ ft.w.k \in Slots /\ ft.w.i \in Slots /\ ft.w.f \in Flows \cup {NoFlow}
         /\ ft.rd.f \in Flows \cup {NoFlow} /\ ft.rd.j \in Nat
         /\ 0 \in Slots
         /\ TableInv(ft.ht, ft.installed, ft.moved, ft.w.pc, ft.w.f, ft.w.k, ft.w.i)
<1>1. /\ ft.ht \in [Slots -> Entry] /\ ft.installed \in SUBSET Flows /\ ft.moved \in [Flows -> Nat]
      /\ ft.w \in WriterRec /\ ft.rd \in ReaderRec
  BY DEF FlowInv, TableRec
<1>2. ft.w.k \in Slots /\ ft.w.i \in Slots /\ ft.w.f \in Flows \cup {NoFlow}
  BY <1>1 DEF WriterRec
<1>3. ft.rd.f \in Flows \cup {NoFlow} /\ ft.rd.j \in Nat
  BY <1>1 DEF ReaderRec
<1>4. 0 \in Slots
  BY DEF Slots, TableFits
<1>5. TableInv(ft.ht, ft.installed, ft.moved, ft.w.pc, ft.w.f, ft.w.k, ft.w.i)
  BY Zenon DEF FlowInv, WriterInv
<1> QED
  BY <1>1, <1>2, <1>3, <1>4, <1>5

\* A reader that is stable looks for an installed flow.
LEMMA StableInstalled ==
  ASSUME FlowInv
  PROVE  ft.rd.stable => ft.rd.f \in ft.installed
BY DEF FlowInv, LookupInv, ReaderInv

\* flow_slot_alloc only chooses a slot.
LEMMA AllocStep ==
  ASSUME TableFits, FlowInv, NEW f \in Flows, flow_slot_alloc(f)
  PROVE  FlowInv'
<1> DEFINE free == {m \in 0 .. 5 * NbSz - 1 : ~Valid(HtSlot(Home(f) + m))}
           n    == Min(free)
           w    == [pc |-> IF n < NbSz THEN "insert" ELSE "move", f |-> f, k |-> HtSlot(Home(f) + n), i |-> 0]
<1>1. ft.w.pc = "idle" /\ f \notin ft.installed /\ free # {} /\ ft' = [ft EXCEPT !.w = w]
  BY Zenon DEF flow_slot_alloc
<1>2. n \in free /\ \A m \in free : n <= m
  <2>1. free \in SUBSET Nat
    BY DEF TableFits
  <2> QED
    BY <1>1, <2>1, LeastOf
<1>3. /\ n \in 0 .. 5 * NbSz - 1 /\ ft.ht[HtSlot(Home(f) + n)].id = NoFlow
      /\ \A m \in 0 .. n - 1 : ft.ht[HtSlot(Home(f) + m)].id # NoFlow
  <2>1. n \in 0 .. 5 * NbSz - 1 /\ ~Valid(HtSlot(Home(f) + n))
    BY <1>2
  <2>2. \A m \in 0 .. 5 * NbSz - 1 : ~Valid(HtSlot(Home(f) + m)) => n <= m
    BY <1>2
  <2> HIDE DEF n, free
  <2>3. \A m \in 0 .. n - 1 : m \in 0 .. 5 * NbSz - 1 /\ ~(n <= m)
    BY <2>1 DEF TableFits
  <2> QED
    BY <2>1, <2>2, <2>3 DEF Valid
<1> HIDE DEF n, free
<1> DEFINE pc == IF n < NbSz THEN "insert" ELSE "move"
           k  == HtSlot(Home(f) + n)
<1>4. k \in Slots /\ TableInv(ft.ht, ft.installed, ft.moved, pc, f, k, 0)
  BY <1>1, <1>3, TableParts, AllocTable
<1>5. pc \in {"insert", "move"} /\ w = [pc |-> pc, f |-> f, k |-> k, i |-> 0]
  OBVIOUS
<1> HIDE DEF pc, k, w
<1>6. w \in WriterRec /\ w.pc = pc /\ w.f = f /\ w.k = k /\ w.i = 0
  BY <1>4, <1>5, TableParts DEF WriterRec
<1>7. ft' = [ht |-> ft.ht, installed |-> ft.installed, moved |-> ft.moved, w |-> w, rd |-> ft.rd]
  BY <1>1 DEF FlowInv, TableRec
<1>8. TableInv(ft.ht, ft.installed, ft.moved, w.pc, w.f, w.k, w.i)
  BY <1>4, <1>6, Zenon
<1>9. MovesOn(ft.installed \cap ft.installed, ft.ht, ft.w.pc, ft.w.i, ft.ht, w.pc, w.i)
  BY <1>5, <1>6 DEF MovesOn, Live
<1> QED
  BY <1>6, <1>7, <1>8, <1>9, TableParts, StableInstalled, WriterStep DEF FlowInv

\* One move of flow_slot_alloc: the copy is written before the original is cleared.
LEMMA MoveStep ==
  ASSUME TableFits, FlowInv, MoveUp
  PROVE  FlowInv'
<1> DEFINE k    == ft.w.k
           cand == {m \in 1 .. NbSz : CanMove(HtSlot(k - m), k)}
           n    == Max(cand)
           i    == HtSlot(k - n)
           e    == ft.ht[i]
<1>1. /\ ft.w.pc = "move" /\ (cand # {} => ft.moved[e.id] < MaxMoves)
      /\ ft' = IF cand = {} THEN [ft EXCEPT !.w = Writing]
               ELSE [ft EXCEPT !.ht[k] = e, !.w.pc = "clear", !.w.i = i, !.moved[e.id] = @ + 1]
  BY Zenon DEF MoveUp
<1>2. TableInv(ft.ht, ft.installed, ft.moved, "move", ft.w.f, k, ft.w.i)
  BY <1>1, TableParts, Zenon
<1>3. CASE cand = {}
  <2> DEFINE w == [pc |-> "idle", f |-> NoFlow, k |-> 0, i |-> 0]
  <2>1. ft' = [ft EXCEPT !.w = w]
    BY <1>1, <1>3 DEF Writing
  <2>2. w \in WriterRec /\ w.pc = "idle"
    BY TableParts DEF WriterRec
  <2> HIDE DEF w
  <2>3. ft' = [ht |-> ft.ht, installed |-> ft.installed, moved |-> ft.moved, w |-> w, rd |-> ft.rd]
    BY <2>1 DEF FlowInv, TableRec
  <2>4. TableInv(ft.ht, ft.installed, ft.moved, w.pc, w.f, w.k, w.i)
    BY <1>2, <2>2 DEF TableInv, Single, Present, Live, WriterRight
  <2>5. MovesOn(ft.installed \cap ft.installed, ft.ht, ft.w.pc, ft.w.i, ft.ht, w.pc, w.i)
    BY <2>2 DEF MovesOn, Live
  <2> QED
    BY <2>2, <2>3, <2>4, <2>5, TableParts, StableInstalled, WriterStep, Zenon DEF FlowInv
<1>4. CASE cand # {}
  <2>1. n \in cand
    <3>1. cand \in SUBSET Nat /\ NbSz \in Nat /\ \A m \in cand : m <= NbSz
      BY DEF TableFits
    <3> QED
      BY <1>4, <3>1, GreatestOf, Zenon
  <2>2. n \in 1 .. NbSz /\ CanMove(i, k)
    BY <2>1
  <2>3. ft' = [ft EXCEPT !.ht[k] = e, !.w.pc = "clear", !.w.i = i, !.moved[e.id] = @ + 1]
    BY <1>1, <1>4, Zenon
  <2>4. ft.moved[e.id] < MaxMoves
    BY <1>1, <1>4, Zenon
  <2> HIDE DEF n, cand
  <2>5. i \in Slots /\ e.id # NoFlow /\ HtSlot(k - i) = n
    <3>1. ft.ht \in [Slots -> Entry] /\ ft.installed \in SUBSET Flows /\ k \in Slots /\ n \in Back
      BY <2>2, TableParts DEF Back
    <3> HIDE DEF k
    <3> HIDE DEF e
    <3>2. i = HtSlot(k - n) /\ e = ft.ht[i]
      BY Zenon DEF e
    <3>3. PICK ht, ins, mv, f, from :
               /\ ht = ft.ht /\ ins = ft.installed /\ mv = ft.moved /\ f = ft.w.f /\ from = ft.w.i
      OBVIOUS
    <3>4. /\ ht \in [Slots -> Entry] /\ ins \in SUBSET Flows /\ k \in Slots /\ n \in Back
          /\ TableInv(ht, ins, mv, "move", f, k, from)
      BY <1>2, <3>1, <3>3, Zenon
    <3> HIDE DEF i
    <3>5. HtSlot(k - n) \in Slots /\ ht[HtSlot(k - n)].id # NoFlow /\ HtSlot(k - HtSlot(k - n)) = n
      BY ONLY TableFits, <3>4, BeforeHole
    <3> QED
      BY <3>2, <3>3, <3>5, Zenon
  <2>6. e \in Entry /\ e.id \in Flows
    BY <2>5, TableParts DEF Entry
  <2>7. ft.moved[e.id] = 0
    <3>1. ft.moved[e.id] \in Nat
      BY <2>6, TableParts
    <3> QED
      BY <2>4, <3>1 DEF TableFits
  <2>8. n <= NbSz - 1 - e.pos
    BY <2>2, <2>5 DEF CanMove
  <2> DEFINE ht2 == [ft.ht EXCEPT ![k] = e]
             mv2 == [ft.moved EXCEPT ![e.id] = @ + 1]
             w   == [pc |-> "clear", f |-> ft.w.f, k |-> k, i |-> i]
  <2>9. /\ ht2 \in [Slots -> Entry] /\ mv2 \in [Flows -> Nat]
        /\ TableInv(ht2, ft.installed, mv2, "clear", ft.w.f, k, i)
        /\ MovesOn(ft.installed, ft.ht, "move", ft.w.i, ht2, "clear", i)
    <3>1. /\ ft.ht \in [Slots -> Entry] /\ ft.installed \in SUBSET Flows /\ ft.moved \in [Flows -> Nat]
          /\ k \in Slots /\ n \in Back
      BY <2>2, TableParts DEF Back
    <3>2. n <= NbSz - 1 - ft.ht[HtSlot(k - n)].pos /\ ft.moved[ft.ht[HtSlot(k - n)].id] = 0
      BY <2>7, <2>8
    <3> HIDE DEF k
    <3>3. ht2 \in [Slots -> Entry] /\ mv2 \in [Flows -> Nat]
      BY ONLY TableFits, <1>2, <3>1, <3>2, MoveTable, Zenon
    <3>4. TableInv(ht2, ft.installed, mv2, "clear", ft.w.f, k, i)
      BY ONLY TableFits, <1>2, <3>1, <3>2, MoveTable
    <3>5. MovesOn(ft.installed, ft.ht, "move", ft.w.i, ht2, "clear", i)
      BY ONLY TableFits, <1>2, <3>1, <3>2, MoveTable, Zenon
    <3> QED
      BY <3>3, <3>4, <3>5
  <2>10. w \in WriterRec /\ w.pc = "clear" /\ w.f = ft.w.f /\ w.k = k /\ w.i = i
    BY <2>5, TableParts DEF WriterRec
  <2>11. ft' = [ht |-> ht2, installed |-> ft.installed, moved |-> mv2, w |-> w, rd |-> ft.rd]
    <3>1. ft.w = [pc |-> ft.w.pc, f |-> ft.w.f, k |-> ft.w.k, i |-> ft.w.i]
      BY TableParts DEF WriterRec
    <3>2. ft = [ht |-> ft.ht, installed |-> ft.installed, moved |-> ft.moved, w |-> ft.w, rd |-> ft.rd]
      BY DEF FlowInv, TableRec
    <3> HIDE DEF i, e
    <3> QED
      BY <2>3, <3>1, <3>2, Zenon
  <2> HIDE DEF ht2, mv2, w, i, e
  <2>12. TableInv(ht2, ft.installed, mv2, w.pc, w.f, w.k, w.i)
    BY <2>9, <2>10, Zenon
  <2>13. MovesOn(ft.installed \cap ft.installed, ft.ht, ft.w.pc, ft.w.i, ht2, w.pc, w.i)
    <3>1. ft.installed \cap ft.installed = ft.installed
      OBVIOUS
    <3> QED
      BY <1>1, <2>9, <2>10, <3>1, Zenon
  <2> QED
    BY <2>9, <2>10, <2>11, <2>12, <2>13, TableParts, StableInstalled, WriterStep, Zenon DEF FlowInv
<1> QED
  BY <1>3, <1>4

\* The original is cleared, and its copy stays in reach of every lookup.
LEMMA EmptyStep ==
  ASSUME TableFits, FlowInv, EmptyOriginal
  PROVE  FlowInv'
<1> DEFINE i   == ft.w.i
           ht2 == [ft.ht EXCEPT ![i] = Cleared(@)]
           pc2 == IF InReach(ft.w.f, i) THEN "insert" ELSE "move"
           w   == [pc |-> pc2, f |-> ft.w.f, k |-> i, i |-> i]
<1>1. /\ ft.w.pc = "clear"
      /\ ft' = [ft EXCEPT !.ht[i] = Cleared(@), !.w.k = i, !.w.pc = pc2]
  BY Zenon DEF EmptyOriginal
<1>2. TableInv(ft.ht, ft.installed, ft.moved, "clear", ft.w.f, ft.w.k, i)
  BY <1>1, TableParts
<1>3. /\ ht2 \in [Slots -> Entry] /\ TableInv(ht2, ft.installed, ft.moved, pc2, ft.w.f, i, i)
      /\ MovesOn(ft.installed, ft.ht, "clear", i, ht2, pc2, i)
  BY <1>2, TableParts, EmptyTable
<1>4. pc2 \in {"insert", "move"}
  OBVIOUS
<1> HIDE DEF pc2
<1>5. w \in WriterRec /\ w.pc = pc2 /\ w.f = ft.w.f /\ w.k = i /\ w.i = i
  BY <1>4, TableParts DEF WriterRec
<1>6. ft' = [ht |-> ht2, installed |-> ft.installed, moved |-> ft.moved, w |-> w, rd |-> ft.rd]
  <2>1. ft.w = [pc |-> ft.w.pc, f |-> ft.w.f, k |-> ft.w.k, i |-> ft.w.i]
    BY TableParts DEF WriterRec
  <2>2. ft = [ht |-> ft.ht, installed |-> ft.installed, moved |-> ft.moved, w |-> ft.w, rd |-> ft.rd]
    BY DEF FlowInv, TableRec
  <2> QED
    BY <1>1, <2>1, <2>2, Zenon
<1> HIDE DEF ht2, w
<1>7. TableInv(ht2, ft.installed, ft.moved, w.pc, w.f, w.k, w.i)
  BY <1>3, <1>5, Zenon
<1>8. MovesOn(ft.installed \cap ft.installed, ft.ht, ft.w.pc, ft.w.i, ht2, w.pc, w.i)
  <2>1. ft.installed \cap ft.installed = ft.installed
    OBVIOUS
  <2> QED
    BY <1>1, <1>3, <1>5, <2>1, Zenon
<1> QED
  BY <1>3, <1>5, <1>6, <1>7, <1>8, TableParts, StableInstalled, WriterStep, Zenon DEF FlowInv

\* The new entry is written where a lookup of it ends.
LEMMA InsertStep ==
  ASSUME TableFits, FlowInv, InsertEntry
  PROVE  FlowInv'
<1> DEFINE f   == ft.w.f
           k   == ft.w.k
           ht2 == [ft.ht EXCEPT ![k] = [id |-> f, hash |-> Hash[f], pos |-> HtSlot(k - Home(f))]]
           mv2 == [ft.moved EXCEPT ![f] = 0]
           ins2 == ft.installed \cup {f}
           w   == [pc |-> "idle", f |-> NoFlow, k |-> 0, i |-> 0]
<1>1. /\ ft.w.pc = "insert"
      /\ ft' = [ft EXCEPT !.ht[k] = [id |-> f, hash |-> Hash[f], pos |-> HtSlot(k - Home(f))],
                          !.installed = @ \cup {f}, !.moved[f] = 0, !.w = w]
  BY Zenon DEF InsertEntry, Writing
<1>2. TableInv(ft.ht, ft.installed, ft.moved, "insert", f, k, ft.w.i)
  BY <1>1, TableParts
<1>3. /\ ht2 \in [Slots -> Entry] /\ mv2 \in [Flows -> Nat] /\ ins2 \in SUBSET Flows
      /\ TableInv(ht2, ins2, mv2, "idle", NoFlow, 0, 0)
      /\ MovesOn(ft.installed, ft.ht, "insert", ft.w.i, ht2, "idle", 0)
  <2>1. /\ ft.ht \in [Slots -> Entry] /\ ft.installed \in SUBSET Flows /\ ft.moved \in [Flows -> Nat]
        /\ k \in Slots
    BY TableParts
  <2> HIDE DEF k, f
  <2>2. ht2 \in [Slots -> Entry] /\ mv2 \in [Flows -> Nat] /\ ins2 \in SUBSET Flows
    <3>1. f \in Flows /\ Dist(f, k) < NbSz /\ Hash[f] \in Nat
      BY <1>2 DEF TableInv, WriterRight, TableFits
    <3>2. Dist(f, k) \in Nat
      BY <2>1, <3>1, DistSlot DEF Slots
    <3>3. [id |-> f, hash |-> Hash[f], pos |-> HtSlot(k - Home(f))] \in Entry
      BY <3>1, <3>2 DEF Entry, Dist
    <3> QED
      BY <2>1, <3>1, <3>3
  <2>3. TableInv(ht2, ins2, mv2, "idle", NoFlow, 0, 0)
    BY ONLY TableFits, <1>2, <2>1, InsertTable
  <2>4. MovesOn(ft.installed, ft.ht, "insert", ft.w.i, ht2, "idle", 0)
    BY ONLY TableFits, <1>2, <2>1, InsertTable, Zenon
  <2> QED
    BY <2>2, <2>3, <2>4
<1>4. w \in WriterRec /\ w.pc = "idle" /\ w.f = NoFlow /\ w.k = 0 /\ w.i = 0
  BY TableParts DEF WriterRec
<1>5. ft' = [ht |-> ht2, installed |-> ins2, moved |-> mv2, w |-> w, rd |-> ft.rd]
  <2>1. ft = [ht |-> ft.ht, installed |-> ft.installed, moved |-> ft.moved, w |-> ft.w, rd |-> ft.rd]
    BY DEF FlowInv, TableRec
  <2> DEFINE e == [id |-> f, hash |-> Hash[f], pos |-> HtSlot(k - Home(f))]
  <2>2. ft' = [ft EXCEPT !.ht[k] = e, !.installed = @ \cup {f}, !.moved[f] = 0, !.w = w]
    BY <1>1, Zenon
  <2>3. ht2 = [ft.ht EXCEPT ![k] = e]
    OBVIOUS
  <2> HIDE DEF e, w, ht2
  <2> QED
    BY <2>1, <2>2, <2>3, Zenon
<1> HIDE DEF ht2, mv2, w
<1>6. TableInv(ht2, ins2, mv2, w.pc, w.f, w.k, w.i)
  BY <1>3, <1>4, Zenon
<1>7. MovesOn(ft.installed \cap ins2, ft.ht, ft.w.pc, ft.w.i, ht2, w.pc, w.i)
  <2>1. ft.installed \cap ins2 = ft.installed
    OBVIOUS
  <2> QED
    BY <1>1, <1>3, <1>4, <2>1, Zenon
<1>8. ft.rd.stable => ft.rd.f \in ins2
  BY StableInstalled
<1> HIDE DEF ins2
<1> QED
  BY <1>3, <1>4, <1>5, <1>6, <1>7, <1>8, TableParts, WriterStep, Zenon DEF FlowInv

\* flow_slot_clear: the flow is no longer installed, and its lookup no longer stable.
LEMMA ClearStep ==
  ASSUME TableFits, FlowInv, NEW f \in Flows, flow_slot_clear(f)
  PROVE  FlowInv'
<1> DEFINE at  == FoundAt(ft.ht, f)
           ht2 == [ft.ht EXCEPT ![HtSlot(Home(f) + Min(at))] = Cleared(@)]
           ht3 == IF at = {} THEN ft.ht ELSE ht2
           ins2 == ft.installed \ {f}
           st  == ft.rd.stable /\ ft.rd.f # f
           rd  == [pc |-> ft.rd.pc, f |-> ft.rd.f, j |-> ft.rd.j, fid |-> ft.rd.fid, stable |-> st]
<1>1. /\ ft.w.pc = "idle" /\ f \in ft.installed
      /\ ft' = [ht |-> ht3, installed |-> ins2, moved |-> ft.moved, w |-> ft.w, rd |-> rd]
  <2>1. /\ ft.w.pc = "idle" /\ f \in ft.installed
        /\ ft' = [ft EXCEPT !.ht = ht3, !.installed = @ \ {f}, !.rd.stable = @ /\ ft.rd.f # f]
    BY Zenon DEF flow_slot_clear, FoundAt
  <2>2. ft = [ht |-> ft.ht, installed |-> ft.installed, moved |-> ft.moved, w |-> ft.w, rd |-> ft.rd]
    BY DEF FlowInv, TableRec
  <2>3. ft.rd = [pc |-> ft.rd.pc, f |-> ft.rd.f, j |-> ft.rd.j, fid |-> ft.rd.fid, stable |-> ft.rd.stable]
    BY TableParts DEF ReaderRec
  <2> HIDE DEF ht3
  <2>4. PICK b : b = st /\ ft' = [ft EXCEPT !.ht = ht3, !.installed = @ \ {f}, !.rd.stable = b]
    BY <2>1, Zenon
  <2> HIDE DEF st
  <2> QED
    BY <2>1, <2>2, <2>3, <2>4, Zenon
<1>2. TableInv(ft.ht, ft.installed, ft.moved, "idle", ft.w.f, ft.w.k, ft.w.i)
  BY <1>1, TableParts
<1>3. /\ ft.ht \in [Slots -> Entry] /\ ft.installed \in SUBSET Flows /\ ft.moved \in [Flows -> Nat]
  BY TableParts
<1>4. at # {} /\ ht2 \in [Slots -> Entry]
  <2>1. at # {}
    BY ONLY TableFits, <1>1, <1>2, <1>3, RemoveTable, Zenon
  <2>2. ht2 \in [Slots -> Entry]
    BY ONLY TableFits, <1>1, <1>2, <1>3, RemoveTable, Zenon
  <2> QED
    BY <2>1, <2>2
<1>5. TableInv(ht2, ins2, ft.moved, "idle", ft.w.f, ft.w.k, ft.w.i)
  BY ONLY TableFits, <1>1, <1>2, <1>3, RemoveTable
<1>6. MovesOn(ins2, ft.ht, "idle", ft.w.i, ht2, "idle", ft.w.i)
  BY ONLY TableFits, <1>1, <1>2, <1>3, RemoveTable, Zenon
<1>7. ht3 = ht2
  BY <1>4
<1> HIDE DEF ht2, ht3, at
<1>8. st \in BOOLEAN /\ (st => ft.rd.stable /\ ft.rd.f # f)
  OBVIOUS
<1> HIDE DEF st
<1>10. ft' = [ht |-> ht2, installed |-> ins2, moved |-> ft.moved, w |-> ft.w, rd |-> rd]
  BY <1>1, <1>7
<1>11. /\ rd \in ReaderRec /\ rd.pc = ft.rd.pc /\ rd.f = ft.rd.f /\ rd.j = ft.rd.j /\ rd.fid = ft.rd.fid
       /\ rd.stable = st
  BY <1>8, TableParts DEF ReaderRec
<1> HIDE DEF rd
<1>12. rd.stable => ft.rd.stable /\ ft.rd.f \in ins2
  BY <1>8, <1>11, StableInstalled
<1>13. TableInv(ht2, ins2, ft.moved, ft.w.pc, ft.w.f, ft.w.k, ft.w.i)
  BY <1>1, <1>5
<1>14. MovesOn(ft.installed \cap ins2, ft.ht, ft.w.pc, ft.w.i, ht2, ft.w.pc, ft.w.i)
  <2>1. ft.installed \cap ins2 = ins2
    OBVIOUS
  <2> QED
    BY <1>1, <1>6, <2>1, Zenon
<1>15. ins2 \in SUBSET Flows
  BY <1>3
<1> HIDE DEF ins2
<1> QED
  BY <1>4, <1>10, <1>11, <1>12, <1>13, <1>14, <1>15, TableParts, WriterStep, Zenon DEF FlowInv

\* The state after a step of the reader, in its parts.
LEMMA ReaderStep ==
  ASSUME TableFits, FlowInv, NEW rd \in ReaderRec, ft' = [ft EXCEPT !.rd = rd],
         ReaderInv(ft.ht, ft.installed, ft.w.pc, ft.w.i, rd.pc, rd.f, rd.j, rd.fid, rd.stable)
  PROVE  FlowInv'
<1>1. ft' = [ht |-> ft.ht, installed |-> ft.installed, moved |-> ft.moved, w |-> ft.w, rd |-> rd]
  BY DEF FlowInv, TableRec
<1>2. ft' \in TableRec
  BY <1>1, TableParts, Zenon DEF TableRec
<1>3. ft'.ht = ft.ht /\ ft'.installed = ft.installed /\ ft'.moved = ft.moved /\ ft'.w = ft.w /\ ft'.rd = rd
  BY <1>1
<1>4. WriterInv(ft')
  BY <1>3, TableParts DEF WriterInv
<1>5. LookupInv(ft')
  BY <1>3 DEF LookupInv
<1> QED
  BY <1>2, <1>4, <1>5 DEF FlowInv

\* A lookup of an installed flow has all of the neighbourhood before it.
LEMMA LookupStep ==
  ASSUME TableFits, FlowInv, NEW f \in Flows, Lookup(f)
  PROVE  FlowInv'
<1> DEFINE st == f \in ft.installed
           rd == [pc |-> "id", f |-> f, j |-> 0, fid |-> NoFlow, stable |-> st]
<1>1. ft' = [ft EXCEPT !.rd = rd]
  BY DEF Lookup
<1>2. ASSUME f \in ft.installed
      PROVE  Unpassed(ft.ht, ft.w.pc, ft.w.i, "id", f, 0, NoFlow)
  <2>1. PICK i \in Slots : Live(ft.ht, ft.w.pc, ft.w.i, f, i)
    BY <1>2, TableParts DEF TableInv, Present
  <2>2. Dist(f, i) \in Slots
    BY DistSlot
  <2>3. Dist(f, i) > 0 \/ Dist(f, i) = 0
    BY <2>2 DEF Slots
  <2> QED
    BY <2>1, <2>3 DEF Unpassed
<1>3. st \in BOOLEAN /\ (st => f \in ft.installed)
  OBVIOUS
<1> HIDE DEF st
<1>4. rd \in ReaderRec /\ rd.pc = "id" /\ rd.f = f /\ rd.j = 0 /\ rd.fid = NoFlow /\ rd.stable = st
  BY <1>3 DEF ReaderRec
<1>5. 0 \in 0 .. NbSz
  BY DEF TableFits
<1> HIDE DEF rd
<1>6. ReaderInv(ft.ht, ft.installed, ft.w.pc, ft.w.i, rd.pc, rd.f, rd.j, rd.fid, rd.stable)
  BY <1>2, <1>3, <1>4, <1>5 DEF ReaderInv
<1> QED
  BY <1>1, <1>4, <1>6, ReaderStep

\* The slot a lookup probes is the j-th of the neighbourhood of its flow.
LEMMA ProbeAt ==
  ASSUME TableFits, FlowInv, ft.rd.pc # "idle", ft.rd.j < NbSz
  PROVE  ft.rd.f \in Flows /\ ft.rd.j \in 0 .. NbSz - 1 /\ Probe \in Slots /\ Dist(ft.rd.f, Probe) = ft.rd.j
<1>1. ft.rd.f \in Flows /\ ft.rd.j \in 0 .. NbSz
  BY DEF FlowInv, LookupInv, ReaderInv
<1>2. ft.rd.j \in 0 .. NbSz - 1 /\ ft.rd.j \in Slots
  BY <1>1 DEF TableFits, Slots
<1> QED
  BY <1>1, <1>2, ProbeSlot DEF Probe

\* The entry that a stable lookup has not passed is either the one it probes or
\* further on.
LEMMA UnpassedAt ==
  ASSUME TableFits, FlowInv, ft.rd.stable, ft.rd.j < NbSz
  PROVE  \/ Unpassed(ft.ht, ft.w.pc, ft.w.i, "id", ft.rd.f, ft.rd.j + 1, NoFlow)
         \/ ft.ht[Probe].id = ft.rd.f /\ Live(ft.ht, ft.w.pc, ft.w.i, ft.rd.f, Probe)
              /\ (ft.rd.pc = "hash" => ft.rd.fid = ft.rd.f)
<1>1. ft.rd.pc # "idle" /\ Unpassed(ft.ht, ft.w.pc, ft.w.i, ft.rd.pc, ft.rd.f, ft.rd.j, ft.rd.fid)
  BY DEF FlowInv, LookupInv, ReaderInv
<1>2. ft.rd.f \in Flows /\ ft.rd.j \in 0 .. NbSz - 1 /\ Probe \in Slots /\ Dist(ft.rd.f, Probe) = ft.rd.j
  BY <1>1, ProbeAt
<1>3. PICK i \in Slots : /\ Live(ft.ht, ft.w.pc, ft.w.i, ft.rd.f, i)
                         /\ \/ Dist(ft.rd.f, i) > ft.rd.j
                            \/ Dist(ft.rd.f, i) = ft.rd.j /\ (ft.rd.pc = "hash" => ft.rd.fid = ft.rd.f)
  BY <1>1 DEF Unpassed
<1>4. CASE Dist(ft.rd.f, i) > ft.rd.j
  <2>1. Dist(ft.rd.f, i) \in Int
    BY <1>2, DistSlot DEF Slots
  <2>2. Dist(ft.rd.f, i) > ft.rd.j + 1 \/ Dist(ft.rd.f, i) = ft.rd.j + 1
    BY <1>2, <1>4, <2>1
  <2> QED
    BY <1>3, <2>2 DEF Unpassed
<1>5. CASE Dist(ft.rd.f, i) = ft.rd.j /\ (ft.rd.pc = "hash" => ft.rd.fid = ft.rd.f)
  <2>1. i = Probe
    BY <1>2, <1>5, DistInjective
  <2> QED
    BY <1>3, <1>5, <2>1 DEF Live
<1> QED
  BY <1>3, <1>4, <1>5

\* Loading the id of the probed slot does not pass an entry of the flow.
LEMMA LoadIdStep ==
  ASSUME TableFits, FlowInv, LoadId
  PROVE  FlowInv'
<1>1. /\ ft.rd.pc = "id" /\ ft.rd.j < NbSz
      /\ ft' = IF Valid(Probe) THEN [ft EXCEPT !.rd.fid = ft.ht[Probe].id, !.rd.pc = "hash"]
               ELSE [ft EXCEPT !.rd.j = @ + 1]
  BY DEF LoadId
<1>2. ft.rd.f \in Flows /\ ft.rd.j \in 0 .. NbSz - 1 /\ Probe \in Slots /\ Dist(ft.rd.f, Probe) = ft.rd.j
  BY <1>1, ProbeAt
<1>3. ft.rd = [pc |-> ft.rd.pc, f |-> ft.rd.f, j |-> ft.rd.j, fid |-> ft.rd.fid, stable |-> ft.rd.stable]
  BY TableParts DEF ReaderRec
<1>4. ft = [ht |-> ft.ht, installed |-> ft.installed, moved |-> ft.moved, w |-> ft.w, rd |-> ft.rd]
  BY DEF FlowInv, TableRec
<1>5. ft.rd.stable \in BOOLEAN /\ ft.rd.fid \in Flows \cup {NoFlow}
  BY TableParts DEF ReaderRec
<1>6. CASE Valid(Probe)
  <2> DEFINE rd == [pc |-> "hash", f |-> ft.rd.f, j |-> ft.rd.j, fid |-> ft.ht[Probe].id,
                    stable |-> ft.rd.stable]
  <2>1. ft' = [ft EXCEPT !.rd = rd]
    <3> DEFINE x == ft.ht[Probe].id
    <3>1. ft' = [ft EXCEPT !.rd.fid = x, !.rd.pc = "hash"]
      BY <1>1, <1>6, Zenon
    <3>2. rd = [pc |-> "hash", f |-> ft.rd.f, j |-> ft.rd.j, fid |-> x, stable |-> ft.rd.stable]
      OBVIOUS
    <3> HIDE DEF x
    <3>3. ft' = [ht |-> ft.ht, installed |-> ft.installed, moved |-> ft.moved, w |-> ft.w, rd |-> rd]
      BY <1>3, <1>4, <3>1, <3>2, Zenon
    <3> HIDE DEF rd
    <3> QED
      BY <1>4, <3>3
  <2>2. ft.ht[Probe].id \in Flows \cup {NoFlow}
    BY <1>2, TableParts DEF Entry
  <2>3. /\ rd \in ReaderRec /\ rd.pc = "hash" /\ rd.f = ft.rd.f /\ rd.j = ft.rd.j
        /\ rd.fid = ft.ht[Probe].id /\ rd.stable = ft.rd.stable
    BY <1>2, <1>5, <2>2, TableParts DEF ReaderRec
  <2> HIDE DEF rd
  <2>4. ASSUME ft.rd.stable
        PROVE  Unpassed(ft.ht, ft.w.pc, ft.w.i, "hash", ft.rd.f, ft.rd.j, ft.ht[Probe].id)
    <3>1. CASE Unpassed(ft.ht, ft.w.pc, ft.w.i, "id", ft.rd.f, ft.rd.j + 1, NoFlow)
      <4>1. PICK i \in Slots : /\ Live(ft.ht, ft.w.pc, ft.w.i, ft.rd.f, i)
                               /\ Dist(ft.rd.f, i) > ft.rd.j + 1 \/ Dist(ft.rd.f, i) = ft.rd.j + 1
        BY <3>1 DEF Unpassed
      <4>2. Dist(ft.rd.f, i) \in Int
        BY <1>2, DistSlot DEF Slots
      <4>3. Dist(ft.rd.f, i) > ft.rd.j
        BY <1>2, <4>1, <4>2
      <4> QED
        BY <4>1, <4>3 DEF Unpassed
    <3>2. CASE ft.ht[Probe].id = ft.rd.f /\ Live(ft.ht, ft.w.pc, ft.w.i, ft.rd.f, Probe)
      BY <1>2, <3>2 DEF Unpassed
    <3> QED
      BY <1>1, <2>4, <3>1, <3>2, UnpassedAt
  <2>5. ft.rd.stable => ft.rd.f \in ft.installed
    BY StableInstalled
  <2>6. ft.rd.j \in 0 .. NbSz
    BY <1>2 DEF TableFits
  <2>7. ReaderInv(ft.ht, ft.installed, ft.w.pc, ft.w.i, rd.pc, rd.f, rd.j, rd.fid, rd.stable)
    BY <1>1, <1>2, <2>3, <2>4, <2>5, <2>6 DEF ReaderInv
  <2> QED
    BY <2>1, <2>3, <2>7, ReaderStep
<1>7. CASE ~Valid(Probe)
  <2> DEFINE rd == [pc |-> "id", f |-> ft.rd.f, j |-> ft.rd.j + 1, fid |-> ft.rd.fid,
                    stable |-> ft.rd.stable]
  <2>1. ft' = [ft EXCEPT !.rd = rd]
    BY <1>1, <1>3, <1>4, <1>7
  <2>2. /\ rd \in ReaderRec /\ rd.pc = "id" /\ rd.f = ft.rd.f /\ rd.j = ft.rd.j + 1
        /\ rd.fid = ft.rd.fid /\ rd.stable = ft.rd.stable
    BY <1>2, <1>5, TableParts DEF ReaderRec
  <2> HIDE DEF rd
  <2>3. ASSUME ft.rd.stable
        PROVE  Unpassed(ft.ht, ft.w.pc, ft.w.i, "id", ft.rd.f, ft.rd.j + 1, ft.rd.fid)
    <3>1. ft.ht[Probe].id # ft.rd.f
      BY <1>2, <1>7 DEF Valid
    <3>2. Unpassed(ft.ht, ft.w.pc, ft.w.i, "id", ft.rd.f, ft.rd.j + 1, NoFlow)
      BY <1>1, <2>3, <3>1, UnpassedAt
    <3> QED
      BY <3>2 DEF Unpassed
  <2>4. ft.rd.stable => ft.rd.f \in ft.installed
    BY StableInstalled
  <2>5. ft.rd.j + 1 \in 0 .. NbSz
    BY <1>2 DEF TableFits
  <2>6. ReaderInv(ft.ht, ft.installed, ft.w.pc, ft.w.i, rd.pc, rd.f, rd.j, rd.fid, rd.stable)
    BY <1>2, <2>2, <2>3, <2>4, <2>5 DEF ReaderInv
  <2> QED
    BY <2>1, <2>2, <2>6, ReaderStep
<1> QED
  BY <1>6, <1>7

\* The lookup goes on only from an entry that is not its flow's.
LEMMA LoadHashStep ==
  ASSUME TableFits, FlowInv, LoadHash
  PROVE  FlowInv'
<1>1. /\ ft.rd.pc = "hash"
      /\ ft' = IF ft.ht[Probe].hash = Hash[ft.rd.f] /\ ft.rd.fid = ft.rd.f
               THEN [ft EXCEPT !.rd = Reading]
               ELSE [ft EXCEPT !.rd.pc = "id", !.rd.fid = NoFlow, !.rd.j = @ + 1]
  BY DEF LoadHash
<1>2. ft.rd.j < NbSz
  BY <1>1 DEF FlowInv, LookupInv, ReaderInv
<1>3. ft.rd.f \in Flows /\ ft.rd.j \in 0 .. NbSz - 1 /\ Probe \in Slots /\ Dist(ft.rd.f, Probe) = ft.rd.j
  BY <1>1, <1>2, ProbeAt
<1>4. CASE ft.ht[Probe].hash = Hash[ft.rd.f] /\ ft.rd.fid = ft.rd.f
  <2>1. Reading \in ReaderRec /\ Reading.pc = "idle" /\ Reading.stable = FALSE
    BY DEF Reading, ReaderRec
  <2>2. ft' = [ft EXCEPT !.rd = Reading]
    BY <1>1, <1>4
  <2>3. ReaderInv(ft.ht, ft.installed, ft.w.pc, ft.w.i, Reading.pc, Reading.f, Reading.j, Reading.fid,
                  Reading.stable)
    BY <2>1 DEF ReaderInv
  <2> QED
    BY <2>1, <2>2, <2>3, ReaderStep
<1>5. CASE ~(ft.ht[Probe].hash = Hash[ft.rd.f] /\ ft.rd.fid = ft.rd.f)
  <2> DEFINE rd == [pc |-> "id", f |-> ft.rd.f, j |-> ft.rd.j + 1, fid |-> NoFlow,
                    stable |-> ft.rd.stable]
  <2>1. ft.rd = [pc |-> ft.rd.pc, f |-> ft.rd.f, j |-> ft.rd.j, fid |-> ft.rd.fid, stable |-> ft.rd.stable]
    BY TableParts DEF ReaderRec
  <2>2. ft = [ht |-> ft.ht, installed |-> ft.installed, moved |-> ft.moved, w |-> ft.w, rd |-> ft.rd]
    BY DEF FlowInv, TableRec
  <2>3. ft' = [ft EXCEPT !.rd = rd]
    <3>1. ft' = [ft EXCEPT !.rd.pc = "id", !.rd.fid = NoFlow, !.rd.j = @ + 1]
      BY <1>1, <1>5, Zenon
    <3>2. ft' = [ht |-> ft.ht, installed |-> ft.installed, moved |-> ft.moved, w |-> ft.w, rd |-> rd]
      BY <2>1, <2>2, <3>1, Zenon
    <3> HIDE DEF rd
    <3> QED
      BY <2>2, <3>2
  <2>4. ft.rd.stable \in BOOLEAN
    BY TableParts DEF ReaderRec
  <2>5. /\ rd \in ReaderRec /\ rd.pc = "id" /\ rd.f = ft.rd.f /\ rd.j = ft.rd.j + 1
        /\ rd.fid = NoFlow /\ rd.stable = ft.rd.stable
    BY <1>3, <2>4, TableParts DEF ReaderRec
  <2> HIDE DEF rd
  <2>6. ASSUME ft.rd.stable
        PROVE  Unpassed(ft.ht, ft.w.pc, ft.w.i, "id", ft.rd.f, ft.rd.j + 1, NoFlow)
    <3>1. ASSUME ft.ht[Probe].id = ft.rd.f, ft.rd.fid = ft.rd.f PROVE FALSE
      <4>1. EntriesRight(ft.ht, ft.installed, ft.moved)
        BY TableParts DEF TableInv
      <4>2. ft.ht[Probe].id # NoFlow
        BY <1>3, <3>1
      <4>3. ft.ht[Probe].hash = Hash[ft.rd.f]
        BY <1>3, <3>1, <4>1, <4>2 DEF EntriesRight, EntryRight
      <4> QED
        BY <1>5, <3>1, <4>3
    <3> QED
      BY <1>1, <1>2, <2>6, <3>1, UnpassedAt
  <2>7. ft.rd.stable => ft.rd.f \in ft.installed
    BY StableInstalled
  <2>8. ft.rd.j + 1 \in 0 .. NbSz
    BY <1>3 DEF TableFits
  <2>9. ReaderInv(ft.ht, ft.installed, ft.w.pc, ft.w.i, rd.pc, rd.f, rd.j, rd.fid, rd.stable)
    BY <1>3, <2>5, <2>6, <2>7, <2>8 DEF ReaderInv
  <2> QED
    BY <2>3, <2>5, <2>9, ReaderStep
<1> QED
  BY <1>4, <1>5

\* A lookup that is over is not stable.
LEMMA MissStep ==
  ASSUME TableFits, FlowInv, Miss
  PROVE  FlowInv'
<1>1. Reading \in ReaderRec /\ Reading.pc = "idle" /\ Reading.stable = FALSE
  BY DEF Reading, ReaderRec
<1>2. ft' = [ft EXCEPT !.rd = Reading]
  BY DEF Miss
<1>3. ReaderInv(ft.ht, ft.installed, ft.w.pc, ft.w.i, Reading.pc, Reading.f, Reading.j, Reading.fid,
                Reading.stable)
  BY <1>1 DEF ReaderInv
<1> QED
  BY <1>1, <1>2, <1>3, ReaderStep

\* The empty table has nothing to find.
LEMMA InitFlow ==
  ASSUME TableFits, ft \in FlowTableStart
  PROVE  FlowInv
<1> DEFINE e0 == [id |-> NoFlow, hash |-> 0, pos |-> 0]
           ht == [i \in Slots |-> e0]
           mv == [f \in Flows |-> 0]
<1>1. ft = [ht |-> ht, installed |-> {}, moved |-> mv, w |-> Writing, rd |-> Reading]
  BY DEF FlowTableStart, Slots
<1>2. e0 \in Entry /\ e0.id = NoFlow
  BY DEF Entry
<1> HIDE DEF e0
<1>3. ht \in [Slots -> Entry] /\ \A i \in Slots : ht[i].id = NoFlow
  BY <1>2
<1>4. mv \in [Flows -> Nat]
  OBVIOUS
<1> HIDE DEF ht, mv
<1>5. Writing \in WriterRec /\ Writing.pc = "idle"
  BY DEF Writing, WriterRec, Slots, TableFits
<1>6. Reading \in ReaderRec /\ Reading.pc = "idle" /\ Reading.stable = FALSE
  BY DEF Reading, ReaderRec
<1>7. ft.ht = ht /\ ft.installed = {} /\ ft.moved = mv /\ ft.w = Writing /\ ft.rd = Reading
  BY <1>1
<1>8. ft \in TableRec
  BY <1>1, <1>3, <1>4, <1>5, <1>6 DEF TableRec
<1>9. TableInv(ht, {}, mv, Writing.pc, Writing.f, Writing.k, Writing.i)
  BY <1>3, <1>5 DEF TableInv, EntriesRight, Single, Present, WriterRight
<1>10. WriterInv(ft)
  BY <1>7, <1>9 DEF WriterInv
<1>11. LookupInv(ft)
  BY <1>6, <1>7 DEF LookupInv, ReaderInv
<1> QED
  BY <1>8, <1>10, <1>11 DEF FlowInv

\* Every step of the slow path and of the lookup keeps the invariant.
LEMMA NextFlow ==
  ASSUME TableFits, FlowInv, [FlowTableNext]_ft
  PROVE  FlowInv'
<1>1. CASE UNCHANGED ft
  BY <1>1 DEF FlowInv
<1>2. ASSUME NEW f \in Flows, flow_slot_alloc(f) PROVE FlowInv'
  BY <1>2, AllocStep
<1>3. ASSUME NEW f \in Flows, flow_slot_clear(f) PROVE FlowInv'
  BY <1>3, ClearStep
<1>4. ASSUME NEW f \in Flows, Lookup(f) PROVE FlowInv'
  BY <1>4, LookupStep
<1>5. CASE MoveUp
  BY <1>5, MoveStep
<1>6. CASE EmptyOriginal
  BY <1>6, EmptyStep
<1>7. CASE InsertEntry
  BY <1>7, InsertStep
<1>8. CASE LoadId
  BY <1>8, LoadIdStep
<1>9. CASE LoadHash
  BY <1>9, LoadHashStep
<1>10. CASE Miss
  BY <1>10, MissStep
<1> QED
  BY <1>1, <1>2, <1>3, <1>4, <1>5, <1>6, <1>7, <1>8, <1>9, <1>10 DEF FlowTableNext

\* fast_flows_packet_fss finds every flow that is installed throughout its lookup,
\* for any set of flows, any hashes, any table and neighbourhood size: an entry
\* moves only on, within the neighbourhood, and the copy is there before the
\* original goes, so a lookup never has it behind it.
THEOREM LookupsFind ==
  ASSUME TableFits
  PROVE  FlowTableSpec => []LookupFinds
<1>1. ASSUME ft \in FlowTableStart PROVE FlowInv
  BY <1>1, InitFlow
<1>2. ASSUME FlowInv, [FlowTableNext]_ft PROVE FlowInv'
  BY <1>2, NextFlow
<1>3. ASSUME FlowInv PROVE LookupFinds
  <2> SUFFICES ASSUME ft.rd.pc = "id", ft.rd.j = NbSz, ft.rd.stable PROVE FALSE
    BY DEF LookupFinds, NotFound
  <2>1. ft.rd.f \in Flows /\ Unpassed(ft.ht, ft.w.pc, ft.w.i, "id", ft.rd.f, NbSz, ft.rd.fid)
    BY <1>3 DEF FlowInv, LookupInv, ReaderInv
  <2>2. PICK i \in Slots : ft.ht[i].id = ft.rd.f /\ (Dist(ft.rd.f, i) > NbSz \/ Dist(ft.rd.f, i) = NbSz)
    BY <2>1 DEF Unpassed, Live
  <2>3. EntriesRight(ft.ht, ft.installed, ft.moved)
    BY <1>3, TableParts DEF TableInv
  <2>4. Dist(ft.rd.f, i) < NbSz
    BY <2>1, <2>2, <2>3 DEF EntriesRight, EntryRight
  <2>5. Dist(ft.rd.f, i) \in Int
    BY <2>1, DistSlot DEF Slots
  <2> QED
    BY <2>2, <2>4, <2>5 DEF TableFits
<1> QED
  BY <1>1, <1>2, <1>3, PTL DEF FlowTableSpec

HIDE FlowTableAssumption
-------------------------------------------------------------------------------
(* tcp_trim_rxbuf, tcp_valid_rxack, fast_flows_bump *)
USE SeqAssumption

\* tcp_valid_rxack in numbers: a and b are the ends of the interval, each wrapped at
\* most once.
LEMMA AckArithmetic ==
  ASSUME NEW M \in Int, NEW next \in Int, NEW sent \in Int, NEW enqueued \in Int, NEW ack \in Int,
         NEW a \in Int, NEW b \in Int, NEW advance \in Int,
         0 <= next, next < M, 0 <= sent, 0 <= enqueued, sent + enqueued < M, 0 <= ack, ack < M,
         a = IF next >= sent THEN next - sent ELSE next - sent + M,
         b = IF next + enqueued < M THEN next + enqueued ELSE next + enqueued - M,
         advance = IF ack >= a THEN ack - a ELSE ack - a + M
  PROVE  advance <= sent + enqueued <=>
           IF a <= b THEN ~(ack < a \/ ack > b) ELSE ~(a > ack /\ ack > b)
OBVIOUS

\* tcp_valid_rxack accepts exactly the acknowledgements between the oldest byte in
\* flight and the end of the send buffer, and returns the distance, wherever the
\* two wrap, as long as bytes in flight and send buffer fit the number space.
THEOREM AckWindowExact ==
  ASSUME NEW next \in SeqNo, NEW sent \in Nat, NEW enqueued \in Nat, NEW ack \in SeqNo,
         sent + enqueued < SeqMod
  PROVE  LET advance == SeqDiff(ack, SeqDiff(next, sent))
             valid == tcp_valid_rxack(next, sent, enqueued, ack)
         IN  /\ valid.ok <=> advance <= sent + enqueued
             /\ valid.bump = advance
<1> DEFINE fsack_a == SeqDiff(next, sent)
           fsack_b == SeqAdd(next, enqueued)
<1>1. /\ sent \in 0 .. SeqMod - 1 /\ enqueued \in 0 .. SeqMod - 1
      /\ next \in 0 .. SeqMod - 1 /\ ack \in 0 .. SeqMod - 1
  BY DEF SeqNo
<1>2. /\ fsack_a = IF next >= sent THEN next - sent ELSE next - sent + SeqMod
      /\ fsack_b = IF next + enqueued < SeqMod THEN next + enqueued ELSE next + enqueued - SeqMod
  BY <1>1, SeqWraps DEF SeqDiff, SeqAdd
<1>3. fsack_a \in 0 .. SeqMod - 1
  BY <1>1, <1>2
<1>4. SeqDiff(ack, fsack_a) = IF ack >= fsack_a THEN ack - fsack_a ELSE ack - fsack_a + SeqMod
  BY <1>1, <1>3, SeqWraps, Zenon DEF SeqDiff
<1>5. fsack_b \in 0 .. SeqMod - 1
  BY <1>1, <1>2
<1>6. /\ tcp_valid_rxack(next, sent, enqueued, ack).bump = SeqDiff(ack, fsack_a)
      /\ tcp_valid_rxack(next, sent, enqueued, ack).ok <=>
           IF fsack_a <= fsack_b THEN ~(ack < fsack_a \/ ack > fsack_b)
                                 ELSE ~(fsack_a > ack /\ ack > fsack_b)
  BY Zenon DEF tcp_valid_rxack
<1>7. SeqDiff(ack, fsack_a) <= sent + enqueued <=>
        IF fsack_a <= fsack_b THEN ~(ack < fsack_a \/ ack > fsack_b)
                              ELSE ~(fsack_a > ack /\ ack > fsack_b)
  <2> HIDE DEF fsack_a, fsack_b
  <2> QED
    BY <1>1, <1>2, <1>3, <1>4, <1>5, AckArithmetic
<1> QED
  BY <1>6, <1>7

\* The comparison of fast_flows_bump in numbers, k a quarter of the counter space.
LEMMA BumpArithmetic ==
  ASSUME NEW k \in Int, NEW flow \in Int, NEW bump \in Int, NEW ahead \in Int, k >= 3,
         0 <= flow, flow < 4 * k, 0 <= bump, bump < 4 * k,
         ahead = IF bump >= flow THEN bump - flow ELSE bump - flow + 4 * k
  PROVE  LET discarded == \/ bump >= flow /\ bump - flow > 2 * k - 1
                          \/ bump < flow /\ (flow < (k - 1) * 3 \/ bump > k - 1)
         IN  /\ ahead <= k - 1 => ~discarded
             /\ ahead >= 4 * k - k => discarded
OBVIOUS

\* fast_flows_bump takes every update of the application that is at most a quarter
\* of the counter space ahead and discards every one that is as much behind,
\* across the wrap of the counter, for every counter size from 12 that 4 divides.
THEOREM BumpOrderExact ==
  ASSUME NEW flow \in 0 .. BumpMod - 1, NEW bump \in 0 .. BumpMod - 1, BumpMod % 4 = 0, BumpMod >= 12
  PROVE  LET ahead == (bump - flow) % BumpMod
         IN  /\ ahead <= BumpMod \div 4 - 1 => ~BumpDiscarded(flow, bump)
             /\ ahead >= BumpMod - BumpMod \div 4 => BumpDiscarded(flow, bump)
<1> DEFINE ahead == (bump - flow) % BumpMod
<1>1. ahead = IF bump >= flow THEN bump - flow ELSE bump - flow + BumpMod
  BY SeqWraps
<1>2. PICK k \in Nat : BumpMod = 4 * k /\ k >= 3
  <2>1. BumpMod = 4 * (BumpMod \div 4) /\ BumpMod \div 4 \in Nat /\ BumpMod \div 4 >= 3
    OBVIOUS
  <2> QED
    BY <2>1
<1>3. BumpMod \div 4 = k /\ BumpMax \div 2 = 2 * k - 1 /\ BumpMax \div 4 = k - 1
  BY <1>2 DEF BumpMax
<1> HIDE DEF ahead
<1>4. /\ ahead <= k - 1 => ~BumpDiscarded(flow, bump)
      /\ ahead >= 4 * k - k => BumpDiscarded(flow, bump)
  <2>1. BumpDiscarded(flow, bump) <=>
          \/ bump >= flow /\ bump - flow > 2 * k - 1
          \/ bump < flow /\ (flow < (k - 1) * 3 \/ bump > k - 1)
    BY <1>3 DEF BumpDiscarded
  <2> QED
    BY <1>1, <1>2, <2>1, BumpArithmetic
<1> QED
  BY <1>2, <1>3, <1>4 DEF ahead

(* tcp_trim_rxbuf in numbers: pa .. pb is the packet, sa .. sb the unused   *)
(* part of the buffer, g the distance between their ends and d between      *)
(* their starts; s is the number of byte i, at distance o from sa.          *)

PacketNumbers(M, sa, e, sb, pa, n, pb, g, d) ==
  /\ M \in Int /\ sa \in Int /\ e \in Int /\ sb \in Int /\ pa \in Int /\ n \in Int /\ pb \in Int
  /\ g \in Int /\ d \in Int
  /\ 0 <= sa /\ sa < M /\ 0 <= pa /\ pa < M /\ 0 <= e /\ 0 <= n /\ 2 * (e + n) <= M
  /\ pb = IF pa + n < M THEN pa + n ELSE pa + n - M
  /\ sb = IF sa + e < M THEN sa + e ELSE sa + e - M
  /\ g = IF sb >= pb THEN sb - pb ELSE sb - pb + M
  /\ 2 * g < M
  /\ d = IF sa >= pa THEN sa - pa ELSE sa - pa + M
ByteNumbers(M, sa, pa, n, i, s, o) ==
  /\ i \in Int /\ s \in Int /\ o \in Int /\ 0 <= i /\ i < n
  /\ s = IF pa + i < M THEN pa + i ELSE pa + i - M
  /\ o = IF s >= sa THEN s - sa ELSE s - sa + M

\* What tcp_trim_rxbuf trims is at most the packet, and nothing of its end.
LEMMA TrimBounds ==
  ASSUME NEW M, NEW sa, NEW e, NEW sb, NEW pa, NEW n, NEW pb, NEW g, NEW d,
         PacketNumbers(M, sa, e, sb, pa, n, pb, g, d), ~TrimDrops(pa, pb, sa, sb)
  PROVE  /\ TrimsEnd(pa, pb, sa, sb) => pb = sb
         /\ TrimsStart(pa, pb, sa, sb) => d <= n
<1>1. CASE pa > pb
  BY <1>1 DEF PacketNumbers, TrimDrops, TrimsStart, TrimsEnd
<1>2. CASE ~(pa > pb)
  BY <1>2 DEF PacketNumbers, TrimDrops, TrimsStart, TrimsEnd
<1> QED
  BY <1>1, <1>2

\* A byte of the packet fits if and only if tcp_trim_rxbuf does not drop the packet
\* and does not trim the byte from its start.
LEMMA TrimByte ==
  ASSUME NEW M, NEW sa, NEW e, NEW sb, NEW pa, NEW n, NEW pb, NEW g, NEW d, NEW i, NEW s, NEW o,
         PacketNumbers(M, sa, e, sb, pa, n, pb, g, d), ByteNumbers(M, sa, pa, n, i, s, o)
  PROVE  o < e <=> /\ ~TrimDrops(pa, pb, sa, sb)
                   /\ TrimsStart(pa, pb, sa, sb) => d <= i
<1>1. CASE pa > pb
  BY <1>1 DEF PacketNumbers, ByteNumbers, TrimDrops, TrimsStart
<1>2. CASE ~(pa > pb)
  BY <1>2 DEF PacketNumbers, ByteNumbers, TrimDrops, TrimsStart
<1> QED
  BY <1>1, <1>2

\* tcp_trim_rxbuf keeps exactly the bytes that fit the unused part of the buffer of
\* every packet that does not go beyond it, wherever the two wrap, as long as
\* packet and unused part together are at most half of the number space.
THEOREM TrimKeepsWhatFits ==
  ASSUME NEW rx_next_seq \in SeqNo, NEW empty \in Nat, NEW pkt_seq \in SeqNo, NEW pkt_bytes \in Nat,
         2 * (empty + pkt_bytes) <= SeqMod, WithinEdge(rx_next_seq, empty, pkt_seq, pkt_bytes)
  PROVE  TrimExact(rx_next_seq, empty, pkt_seq, pkt_bytes)
<1> DEFINE pb == SeqAdd(pkt_seq, pkt_bytes)
           sb == SeqAdd(rx_next_seq, empty)
           g == SeqDiff(sb, pb)
           d == SeqDiff(rx_next_seq, pkt_seq)
           drops == TrimDrops(pkt_seq, pb, rx_next_seq, sb)
           start == TrimsStart(pkt_seq, pb, rx_next_seq, sb)
           Placed(i) == SeqDiff(SeqAdd(pkt_seq, i), rx_next_seq)
           trim == tcp_trim_rxbuf(rx_next_seq, empty, pkt_seq, pkt_bytes)
           fitting == Fitting(rx_next_seq, empty, pkt_seq, pkt_bytes)
<1>1. /\ rx_next_seq \in 0 .. SeqMod - 1 /\ pkt_seq \in 0 .. SeqMod - 1
      /\ empty \in 0 .. SeqMod - 1 /\ pkt_bytes \in 0 .. SeqMod - 1
  BY DEF SeqNo
<1>2. /\ pb = IF pkt_seq + pkt_bytes < SeqMod THEN pkt_seq + pkt_bytes
                                              ELSE pkt_seq + pkt_bytes - SeqMod
      /\ sb = IF rx_next_seq + empty < SeqMod THEN rx_next_seq + empty
                                              ELSE rx_next_seq + empty - SeqMod
      /\ d = IF rx_next_seq >= pkt_seq THEN rx_next_seq - pkt_seq
                                       ELSE rx_next_seq - pkt_seq + SeqMod
  BY <1>1, SeqWraps DEF SeqDiff, SeqAdd
<1>3. pb \in 0 .. SeqMod - 1 /\ sb \in 0 .. SeqMod - 1 /\ d \in 0 .. SeqMod - 1
  <2> HIDE DEF pb, sb, d
  <2> QED
    BY <1>1, <1>2
<1>4. g = (IF sb >= pb THEN sb - pb ELSE sb - pb + SeqMod) /\ g \in Int
  <2> HIDE DEF pb, sb
  <2> QED
    BY <1>3, SeqWraps DEF SeqDiff
<1>5. 2 * g < SeqMod
  <2>1. g < SeqMod \div 2
    BY DEF WithinEdge
  <2> HIDE DEF g
  <2> QED
    BY <1>4, <2>1
<1>6. PacketNumbers(SeqMod, rx_next_seq, empty, sb, pkt_seq, pkt_bytes, pb, g, d)
  <2> HIDE DEF pb, sb, g, d
  <2> QED
    BY <1>1, <1>2, <1>3, <1>4, <1>5 DEF PacketNumbers
<1>7. ASSUME NEW i \in 0 .. pkt_bytes - 1
      PROVE  Placed(i) < empty <=> ~drops /\ (start => d <= i)
  <2> DEFINE s == SeqAdd(pkt_seq, i)
  <2>1. i \in 0 .. SeqMod - 1
    BY <1>1
  <2>2. s = IF pkt_seq + i < SeqMod THEN pkt_seq + i ELSE pkt_seq + i - SeqMod
    BY <1>1, <2>1, SeqWraps DEF SeqAdd
  <2>3. s \in 0 .. SeqMod - 1
    <3> HIDE DEF s
    <3> QED
      BY <1>1, <2>1, <2>2
  <2>4. Placed(i) = (IF s >= rx_next_seq THEN s - rx_next_seq ELSE s - rx_next_seq + SeqMod)
        /\ Placed(i) \in Int
    <3> HIDE DEF s
    <3>1. SeqDiff(s, rx_next_seq) = (IF s >= rx_next_seq THEN s - rx_next_seq ELSE s - rx_next_seq + SeqMod)
      BY <1>1, <2>3, SeqWraps DEF SeqDiff
    <3> QED
      BY <1>1, <2>3, <3>1 DEF s
  <2> DEFINE o == Placed(i)
  <2> HIDE DEF pb, sb, g, d, s, o, Placed
  <2>5. /\ o \in Int
        /\ o = IF s >= rx_next_seq THEN s - rx_next_seq ELSE s - rx_next_seq + SeqMod
    BY <2>4 DEF o
  <2>6. o < empty <=> ~drops /\ (start => d <= i)
    <3>1. ByteNumbers(SeqMod, rx_next_seq, pkt_seq, pkt_bytes, i, s, o)
      BY <1>1, <2>1, <2>2, <2>3, <2>5 DEF ByteNumbers
    <3> QED
      BY <1>6, <3>1, TrimByte
  <2> QED
    BY <2>6 DEF o
<1>8. fitting = {SeqAdd(pkt_seq, i) : i \in {j \in 0 .. pkt_bytes - 1 : Placed(j) < empty}}
  BY DEF Fitting, Covered, InInterval
<1>9. CASE drops
  <2>1. ~trim.ok
    BY <1>9, Zenon DEF tcp_trim_rxbuf
  <2>2. {j \in 0 .. pkt_bytes - 1 : Placed(j) < empty} = {}
    <3> HIDE DEF Placed, drops, start
    <3> QED
      BY <1>7, <1>9
  <2>3. fitting = {}
    BY <1>8, <2>2
  <2> QED
    BY <2>1, <2>3 DEF TrimExact
<1>10. CASE ~drops
  <2> DEFINE first == IF start THEN d ELSE 0
  <2>1. /\ TrimsEnd(pkt_seq, pb, rx_next_seq, sb) => pb = sb
        /\ start => d <= pkt_bytes
    <3> HIDE DEF pb, sb, g, d
    <3> QED
      BY <1>6, <1>10, TrimBounds
  <2>2. pb = sb => SeqDiff(pb, sb) = 0
    <3> HIDE DEF pb, sb
    <3> QED
      BY <1>3 DEF SeqDiff
  <2>3. trim.ok /\ trim.trim_start = first /\ trim.trim_end = 0
    BY <1>10, <2>1, <2>2, Zenon DEF tcp_trim_rxbuf
  <2>4. first \in 0 .. pkt_bytes
    <3> HIDE DEF d, start
    <3> QED
      BY <1>3, <2>1
  <2>5. {j \in 0 .. pkt_bytes - 1 : Placed(j) < empty} = first .. pkt_bytes - 1
    <3> HIDE DEF Placed, d, start, drops
    <3> QED
      BY <1>3, <1>7, <1>10, <2>4
  <2> HIDE DEF trim, first
  <2>6. trim.trim_start .. pkt_bytes - trim.trim_end - 1 = first .. pkt_bytes - 1
    BY <2>3, <2>4
  <2>7. Kept(trim, pkt_seq, pkt_bytes) = {SeqAdd(pkt_seq, i) : i \in first .. pkt_bytes - 1}
    BY <2>6, Zenon DEF Kept
  <2>8. Kept(trim, pkt_seq, pkt_bytes) = fitting
    BY <1>8, <2>5, <2>7
  <2>9. trim.trim_start + trim.trim_end <= pkt_bytes
    BY <2>3, <2>4
  <2> QED
    BY <2>3, <2>8, <2>9 DEF TrimExact, trim
<1> QED
  BY <1>9, <1>10

\* Windows and packets are small against the sequence space, as 64 KB against 2^32,
\* and the counter space has quarters.
WindowsFit ==
  /\ MaxWindow \in Nat /\ MaxPayload \in Nat
  /\ 2 * (MaxWindow + MaxPayload) <= SeqMod /\ 2 * MaxWindow < SeqMod
  /\ BumpMod % 4 = 0 /\ BumpMod >= 12

\* The answer is the one of the function that was called.
AnswerGiven ==
  /\ call \in Calls
  /\ answer = <<>> \/
       /\ call.fn = "trim" =>
            answer = <<tcp_trim_rxbuf(call.next, call.avail, call.seq, call.bytes)>>
       /\ call.fn = "ack" =>
            answer = <<tcp_valid_rxack(call.next, call.sent, call.enqueued, call.ack)>>
       /\ call.fn = "bump" => answer = <<BumpDiscarded(call.flow, call.bump)>>

\* Every decision the fast path takes by comparing sequence numbers and counters
\* that wrap (tcp_trim_rxbuf, tcp_valid_rxack, fast_flows_bump) is the one the
\* unbounded numbers call for, in every sequence space.
THEOREM SequenceExact ==
  ASSUME WindowsFit
  PROVE  SeqSpec => []SeqExact
<1>1. call \in Calls /\ answer = <<>> => AnswerGiven
  BY DEF AnswerGiven
<1>2. AnswerGiven /\ [SeqNext]_seqVars => AnswerGiven'
  <2> SUFFICES ASSUME AnswerGiven, [SeqNext]_seqVars
               PROVE  AnswerGiven'
    OBVIOUS
  <2>1. "trim" # "ack" /\ "trim" # "bump" /\ "ack" # "bump"
    OBVIOUS
  <2>2. CASE Trim
    BY <2>1, <2>2, Zenon DEF AnswerGiven, Trim
  <2>3. CASE Ack
    BY <2>1, <2>3, Zenon DEF AnswerGiven, Ack
  <2>4. CASE Bump
    BY <2>1, <2>4, Zenon DEF AnswerGiven, Bump
  <2>5. CASE UNCHANGED seqVars
    BY <2>5 DEF AnswerGiven, seqVars
  <2> QED
    BY <2>2, <2>3, <2>4, <2>5 DEF SeqNext
<1>3. AnswerGiven => SeqExact
  <2> SUFFICES ASSUME AnswerGiven, answer # <<>>
               PROVE  SeqExact
    BY Zenon DEF SeqExact, TrimWithinEdge, AckExact, BumpOrdered
  <2>1. TrimWithinEdge
    <3> SUFFICES ASSUME call.fn = "trim", WithinEdge(call.next, call.avail, call.seq, call.bytes)
                 PROVE  TrimExact(call.next, call.avail, call.seq, call.bytes)
      BY DEF TrimWithinEdge
    <3>1. call \in TrimCall
      BY DEF AnswerGiven, Calls, TrimCall, AckCall, BumpCall
    <3>2. call.next \in SeqNo /\ call.avail \in 0 .. MaxWindow /\ call.seq \in SeqNo
          /\ call.bytes \in 0 .. MaxPayload
      BY <3>1, Zenon DEF TrimCall
    <3>3. /\ call.avail \in Nat /\ call.bytes \in Nat /\ 2 * (call.avail + call.bytes) <= SeqMod
      BY <3>2, SeqAssumption DEF WindowsFit
    <3> QED
      BY <3>2, <3>3, TrimKeepsWhatFits
  <2>2. AckExact
    <3> SUFFICES ASSUME call.fn = "ack"
                 PROVE  LET advance == SeqDiff(call.ack, SeqDiff(call.next, call.sent))
                        IN  /\ answer[1].ok <=> advance <= call.sent + call.enqueued
                            /\ answer[1].bump = advance
      BY Zenon DEF AckExact
    <3>1. call \in AckCall
      BY DEF AnswerGiven, Calls, TrimCall, AckCall, BumpCall
    <3>2. call.next \in SeqNo /\ call.sent \in 0 .. MaxWindow /\ call.enqueued \in 0 .. MaxWindow
          /\ call.ack \in SeqNo
      BY <3>1, Zenon DEF AckCall
    <3>3. /\ call.sent \in Nat /\ call.enqueued \in Nat /\ call.sent + call.enqueued < SeqMod
      BY <3>2, SeqAssumption DEF WindowsFit
    <3>4. answer[1] = tcp_valid_rxack(call.next, call.sent, call.enqueued, call.ack)
      BY DEF AnswerGiven
    <3> DEFINE a == tcp_valid_rxack(call.next, call.sent, call.enqueued, call.ack)
               advance == SeqDiff(call.ack, SeqDiff(call.next, call.sent))
    <3>5. (a.ok <=> advance <= call.sent + call.enqueued) /\ a.bump = advance
      BY <3>2, <3>3, AckWindowExact
    <3> QED
      BY <3>4, <3>5, Zenon
  <2>3. BumpOrdered
    <3> SUFFICES ASSUME call.fn = "bump"
                 PROVE  LET ahead == (call.bump - call.flow) % BumpMod
                        IN  /\ ahead <= BumpMod \div 4 - 1 => ~answer[1]
                            /\ ahead >= BumpMod - BumpMod \div 4 => answer[1]
      BY Zenon DEF BumpOrdered
    <3>1. call \in BumpCall
      BY DEF AnswerGiven, Calls, TrimCall, AckCall, BumpCall
    <3>2. call.flow \in 0 .. BumpMod - 1 /\ call.bump \in 0 .. BumpMod - 1
      BY <3>1, Zenon DEF BumpCall
    <3>3. BumpMod % 4 = 0 /\ BumpMod >= 12
      BY DEF WindowsFit
    <3>4. answer[1] = BumpDiscarded(call.flow, call.bump)
      BY DEF AnswerGiven
    <3> DEFINE ahead == (call.bump - call.flow) % BumpMod
    <3>5. /\ ahead <= BumpMod \div 4 - 1 => ~BumpDiscarded(call.flow, call.bump)
          /\ ahead >= BumpMod - BumpMod \div 4 => BumpDiscarded(call.flow, call.bump)
      BY <3>2, <3>3, BumpOrderExact, Zenon
    <3> QED
      BY <3>4, <3>5, Zenon
  <2> QED
    BY <2>1, <2>2, <2>3 DEF SeqExact
<1> QED
  BY <1>1, <1>2, <1>3, PTL DEF SeqSpec
===============================================================================
