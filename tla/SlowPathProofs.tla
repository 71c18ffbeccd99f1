--------------------------- MODULE SlowPathProofs ---------------------------
(***************************************************************************)
(* The data structures of the slow path: the packet memory is partitioned  *)
(* (MemoryPartitioned), the two lists of the timeout manager are exact on  *)
(* both sides of the clock's wrap (TimersAlwaysExact), congestion is       *)
(* answered by every algorithm (CongestionAnswered), and retransmits are   *)
(* issued for a reason (RetransmitsJustified).  Each section states the    *)
(* inductive invariant of its component, what an operation does to it, and *)
(* last the theorem.                                                       *)
(***************************************************************************)
EXTENDS PacketMem, Timeouts, CongestionControl, ArithmeticProofs, TLAPS
-------------------------------------------------------------------------------
(* packetmem.c *)
USE MemAssumption

\* What a free list and a set of handles given out must satisfy together.
Sound(list, out) ==
  /\ list \in Seq(Handle)
  /\ \A i, j \in 1 .. Len(list) : i # j => Disjoint(list[i], list[j])
  /\ \A i \in 1 .. Len(list), a \in out : Disjoint(list[i], a)
  /\ \A byte \in 0 .. dma_mem_size - 1 :
       \/ \E i \in 1 .. Len(list) : Holds(list[i], byte)
       \/ \E a \in out : Holds(a, byte)
  /\ \A i \in 1 .. Len(list) : list[i].base + list[i].len <= dma_mem_size

OutSound(out) ==
  /\ out \subseteq Handle
  /\ \A a, b \in out : a # b => Disjoint(a, b)
  /\ \A a \in out : a.base + a.len <= dma_mem_size

MemInv == Sound(freelist, allocated) /\ OutSound(allocated)

\* Part of a handle is disjoint from whatever the handle is disjoint from.
LEMMA PartDisjoint ==
  ASSUME NEW whole, NEW part, NEW c,
         whole.base \in Nat, whole.len \in Nat, part.base \in Nat, part.len \in Nat,
         c.base \in Nat, c.len \in Nat,
         whole.base <= part.base, part.base + part.len <= whole.base + whole.len,
         Disjoint(whole, c)
  PROVE  Disjoint(part, c) /\ Disjoint(c, part)
<1>1. PICK wb \in Nat, wl \in Nat, pb \in Nat, pl \in Nat, cb \in Nat, cl \in Nat :
        /\ wb = whole.base /\ wl = whole.len /\ pb = part.base /\ pl = part.len
        /\ cb = c.base /\ cl = c.len
  BY Zenon
<1>2. wb <= pb /\ pb + pl <= wb + wl /\ (wb + wl <= cb \/ cb + cl <= wb)
  BY <1>1 DEF Disjoint
<1>3. pb + pl <= cb \/ cb + cl <= pb
  BY <1>2
<1> QED
  BY <1>1, <1>3 DEF Disjoint

\* The free list with a handle put in at k.
LEMMA InsertShape ==
  ASSUME NEW list \in Seq(Handle), NEW k \in 1 .. Len(list) + 1, NEW ph \in Handle
  PROVE  /\ Insert(list, k, ph) \in Seq(Handle)
         /\ Len(Insert(list, k, ph)) = Len(list) + 1
         /\ \A i \in 1 .. Len(list) + 1 :
              Insert(list, k, ph)[i] = IF i < k THEN list[i] ELSE IF i = k THEN ph ELSE list[i - 1]
BY DEF Insert

\* The free list without its k-th handle.
LEMMA RemoveShape ==
  ASSUME NEW list \in Seq(Handle), NEW k \in 1 .. Len(list)
  PROVE  /\ Remove(list, k) \in Seq(Handle)
         /\ Len(Remove(list, k)) = Len(list) - 1
         /\ \A i \in 1 .. Len(list) - 1 :
              Remove(list, k)[i] = IF i < k THEN list[i] ELSE list[i + 1]
BY DEF Remove

\* A handle that shares no byte with two adjacent ones shares none with the two
\* joined; the joined handle holds the bytes of both.
LEMMA Joined ==
  ASSUME NEW a \in Handle, NEW b \in Handle, a.base + a.len = b.base
  PROVE  LET joined == [base |-> a.base, len |-> a.len + b.len]
         IN  /\ joined \in Handle
             /\ joined.base + joined.len = b.base + b.len
             /\ \A c \in Handle : Disjoint(a, c) /\ Disjoint(b, c)
                    => Disjoint(joined, c) /\ Disjoint(c, joined)
             /\ \A byte \in Nat : Holds(a, byte) \/ Holds(b, byte) => Holds(joined, byte)
BY DEF Handle, Disjoint, Holds

\* Merging an item with the adjacent next one keeps the list sound.
LEMMA MergeNextSound ==
  ASSUME NEW list, NEW out, OutSound(out), Sound(list, out), NEW k \in 1 .. Len(list)
  PROVE  Sound(MergeNext(list, k), out) /\ k \in 1 .. Len(MergeNext(list, k))
<1>1. CASE ~(k < Len(list) /\ Adjacent(list, k))
  BY <1>1 DEF MergeNext
<1>2. CASE k < Len(list) /\ Adjacent(list, k)
  <2> DEFINE joined == [base |-> list[k].base, len |-> list[k].len + list[k + 1].len]
             wide == [list EXCEPT ![k] = joined]
             merged == Remove(wide, k + 1)
             n == Len(list)
  <2>1. list \in Seq(Handle) /\ n \in Nat /\ k \in 1 .. n - 1
        /\ list[k] \in Handle /\ list[k + 1] \in Handle
        /\ list[k].base + list[k].len = list[k + 1].base
    BY <1>2 DEF Sound, Adjacent
  <2>2. /\ joined \in Handle
        /\ joined.base + joined.len = list[k + 1].base + list[k + 1].len
        /\ \A c \in Handle : Disjoint(list[k], c) /\ Disjoint(list[k + 1], c)
              => Disjoint(joined, c) /\ Disjoint(c, joined)
        /\ \A byte \in Nat : Holds(list[k], byte) \/ Holds(list[k + 1], byte) => Holds(joined, byte)
    BY <2>1, Joined
  <2> HIDE DEF joined
  <2>3. wide \in Seq(Handle) /\ Len(wide) = n
        /\ \A i \in 1 .. n : wide[i] = IF i = k THEN joined ELSE list[i]
    BY <2>1, <2>2
  <2> HIDE DEF wide
  <2>4. merged \in Seq(Handle) /\ Len(merged) = n - 1
        /\ \A i \in 1 .. n - 1 : merged[i] = IF i < k + 1 THEN wide[i] ELSE wide[i + 1]
    <3>1. k + 1 \in 1 .. Len(wide)
      BY <2>1, <2>3
    <3> QED
      BY <2>3, <3>1, RemoveShape
  <2> HIDE DEF merged
  <2>5. \A i \in 1 .. n - 1 : merged[i] =
          IF i < k THEN list[i] ELSE IF i = k THEN joined ELSE list[i + 1]
    BY <2>1, <2>3, <2>4
  <2>6. \A i, j \in 1 .. n - 1 : i # j => Disjoint(merged[i], merged[j])
    <3> SUFFICES ASSUME NEW i \in 1 .. n - 1, NEW j \in 1 .. n - 1, i # j
                 PROVE  Disjoint(merged[i], merged[j])
      OBVIOUS
    <3>1. \A x \in 1 .. n : list[x] \in Handle
      BY <2>1
    <3>2. \A x, y \in 1 .. n : x # y => Disjoint(list[x], list[y])
      BY DEF Sound
    <3>3. CASE i = k
      BY <2>1, <2>2, <2>5, <3>1, <3>2, <3>3
    <3>4. CASE j = k
      BY <2>1, <2>2, <2>5, <3>1, <3>2, <3>4
    <3>5. CASE i # k /\ j # k
      BY <2>1, <2>5, <3>2, <3>5
    <3> QED
      BY <3>3, <3>4, <3>5
  <2>7. \A i \in 1 .. n - 1, a \in out : Disjoint(merged[i], a)
    BY <2>1, <2>2, <2>5 DEF Sound, OutSound
  <2>8. \A byte \in 0 .. dma_mem_size - 1 :
          \/ \E i \in 1 .. n - 1 : Holds(merged[i], byte)
          \/ \E a \in out : Holds(a, byte)
    <3> SUFFICES ASSUME NEW byte \in 0 .. dma_mem_size - 1, NEW i \in 1 .. n, Holds(list[i], byte)
                 PROVE  \E x \in 1 .. n - 1 : Holds(merged[x], byte)
      BY DEF Sound
    <3>1. CASE i \in {k, k + 1}
      BY <2>1, <2>2, <2>5, <3>1
    <3>2. CASE i < k
      BY <2>1, <2>5, <3>2
    <3>3. CASE i > k + 1
      <4>1. i - 1 \in 1 .. n - 1 /\ merged[i - 1] = list[i]
        BY <2>1, <2>5, <3>3
      <4> QED
        BY <4>1
    <3> QED
      BY <2>1, <3>1, <3>2, <3>3
  <2>9. \A i \in 1 .. n - 1 : merged[i].base + merged[i].len <= dma_mem_size
    <3> SUFFICES ASSUME NEW i \in 1 .. n - 1 PROVE merged[i].base + merged[i].len <= dma_mem_size
      OBVIOUS
    <3>1. \A x \in 1 .. n : list[x].base + list[x].len <= dma_mem_size
      BY DEF Sound
    <3>2. CASE i = k
      <4>1. merged[i] = joined /\ k + 1 \in 1 .. n
        BY <2>1, <2>5, <3>2
      <4> QED
        BY <2>2, <3>1, <4>1
    <3>3. CASE i # k
      <4>1. PICK x \in 1 .. n : merged[i] = list[x]
        BY <2>1, <2>5, <3>3
      <4> QED
        BY <3>1, <4>1
    <3> QED
      BY <3>2, <3>3
  <2>10. MergeNext(list, k) = merged
    BY <1>2 DEF MergeNext, merged, wide, joined
  <2> QED
    BY <2>1, <2>4, <2>6, <2>7, <2>8, <2>9, <2>10, Zenon DEF Sound
<1> QED
  BY <1>1, <1>2

\* merge_items joins a handle with its neighbours and keeps list and handles sound.
LEMMA MergeItemsSound ==
  ASSUME NEW list, NEW out, OutSound(out), Sound(list, out), NEW k \in 1 .. Len(list)
  PROVE  Sound(merge_items(list, k), out)
<1>1. CASE k > 1 /\ Adjacent(list, k - 1)
  <2>1. k - 1 \in 1 .. Len(list)
    BY <1>1
  <2>2. Sound(MergeNext(list, k - 1), out) /\ k - 1 \in 1 .. Len(MergeNext(list, k - 1))
    BY <2>1, MergeNextSound
  <2>3. Sound(MergeNext(MergeNext(list, k - 1), k - 1), out)
    BY <2>2, MergeNextSound
  <2> QED
    BY <1>1, <2>3 DEF merge_items
<1>2. CASE ~(k > 1 /\ Adjacent(list, k - 1))
  BY <1>2, MergeNextSound DEF merge_items
<1> QED
  BY <1>1, <1>2

\* Moving a handle from the ones given out to any place of the list.
LEMMA InsertSound ==
  ASSUME NEW list, NEW out, OutSound(out), Sound(list, out),
         NEW k \in 1 .. Len(list) + 1, NEW ph \in out
  PROVE  Sound(Insert(list, k, ph), out \ {ph}) /\ k \in 1 .. Len(Insert(list, k, ph))
<1>0. list \in Seq(Handle) /\ ph \in Handle
  BY DEF Sound, OutSound
<1>s. /\ Insert(list, k, ph) \in Seq(Handle)
      /\ Len(Insert(list, k, ph)) = Len(list) + 1
      /\ \A i \in 1 .. Len(list) + 1 :
           Insert(list, k, ph)[i] = IF i < k THEN list[i] ELSE IF i = k THEN ph ELSE list[i - 1]
  BY ONLY <1>0, k \in 1 .. Len(list) + 1, InsertShape
<1> DEFINE longer == Insert(list, k, ph)
           n == Len(list)
<1>1. list \in Seq(Handle) /\ n \in Nat /\ ph \in Handle
  BY <1>0
<1>2. /\ longer \in Seq(Handle) /\ Len(longer) = n + 1
      /\ \A i \in 1 .. n + 1 :
           longer[i] = IF i < k THEN list[i] ELSE IF i = k THEN ph ELSE list[i - 1]
  BY <1>s
<1> HIDE DEF longer
<1> DEFINE from(i) == IF i < k THEN i ELSE i - 1
<1>a. longer[k] = ph /\ k \in 1 .. n + 1
  BY <1>1, <1>2
<1>b. \A i \in 1 .. n + 1 : i # k => from(i) \in 1 .. n /\ longer[i] = list[from(i)]
  BY <1>1, <1>2
<1>c. \A i, j \in 1 .. n + 1 : i # k /\ j # k /\ i # j => from(i) # from(j)
  BY <1>1
<1> HIDE DEF from
<1>3. \A i \in 1 .. n : Disjoint(list[i], ph) /\ Disjoint(ph, list[i])
  BY <1>1, Zenon DEF Sound, Disjoint, Handle
<1>4. \A i, j \in 1 .. n + 1 : i # j => Disjoint(longer[i], longer[j])
  <2> SUFFICES ASSUME NEW i \in 1 .. n + 1, NEW j \in 1 .. n + 1, i # j
               PROVE  Disjoint(longer[i], longer[j])
    OBVIOUS
  <2>1. \A x, y \in 1 .. n : x # y => Disjoint(list[x], list[y])
    BY DEF Sound
  <2>2. CASE i = k
    BY <1>a, <1>b, <1>3, <2>2
  <2>3. CASE j = k
    BY <1>a, <1>b, <1>3, <2>3
  <2>4. CASE i # k /\ j # k
    BY <1>b, <1>c, <2>1, <2>4
  <2> QED
    BY <2>2, <2>3, <2>4
<1>5. \A i \in 1 .. n + 1, a \in out \ {ph} : Disjoint(longer[i], a)
  <2> SUFFICES ASSUME NEW i \in 1 .. n + 1, NEW a \in out \ {ph} PROVE Disjoint(longer[i], a)
    OBVIOUS
  <2>1. CASE i = k
    BY <1>a, <2>1 DEF OutSound
  <2>2. CASE i # k
    BY <1>b, <2>2 DEF Sound
  <2> QED
    BY <2>1, <2>2
<1>6. \A byte \in 0 .. dma_mem_size - 1 :
        \/ \E i \in 1 .. n + 1 : Holds(longer[i], byte)
        \/ \E a \in out \ {ph} : Holds(a, byte)
  <2> SUFFICES ASSUME NEW byte \in 0 .. dma_mem_size - 1,
                      ~ \E a \in out \ {ph} : Holds(a, byte)
               PROVE  \E i \in 1 .. n + 1 : Holds(longer[i], byte)
    OBVIOUS
  <2>1. CASE Holds(ph, byte)
    <3>1. k \in 1 .. n + 1 /\ longer[k] = ph
      BY <1>1, <1>2
    <3> QED
      BY <2>1, <3>1
  <2>2. ASSUME NEW i \in 1 .. n, Holds(list[i], byte) PROVE \E x \in 1 .. n + 1 : Holds(longer[x], byte)
    <3>1. CASE i < k
      <4>1. i \in 1 .. n + 1 /\ longer[i] = list[i]
        BY <1>1, <1>2, <3>1
      <4> QED
        BY <2>2, <4>1
    <3>2. CASE i >= k
      <4>1. i + 1 \in 1 .. n + 1 /\ ~(i + 1 < k) /\ i + 1 # k /\ (i + 1) - 1 = i
        BY <1>1, <3>2
      <4>2. longer[i + 1] = list[(i + 1) - 1]
        BY <1>2, <4>1
      <4> QED
        BY <2>2, <4>1, <4>2
    <3> QED
      BY <1>1, <3>1, <3>2
  <2> QED
    BY <2>1, <2>2 DEF Sound
<1>7. \A i \in 1 .. n + 1 : longer[i].base + longer[i].len <= dma_mem_size
  BY <1>a, <1>b DEF Sound, OutSound
<1> QED
  BY <1>1, <1>2, <1>4, <1>5, <1>6, <1>7 DEF Sound, longer

-------------------------------------------------------------------------------
\* packetmem_free keeps the invariant.
LEMMA FreeStep ==
  ASSUME MemInv, NEW ph \in allocated, packetmem_free(ph) PROVE MemInv'
<1>1. OutSound(allocated \ {ph})
  BY DEF MemInv, OutSound
<1>2. PICK k \in 1 .. Len(freelist) + 1 : freelist' = merge_items(Insert(freelist, k, ph), k)
  BY DEF packetmem_free
<1>3. Sound(Insert(freelist, k, ph), allocated \ {ph}) /\ k \in 1 .. Len(Insert(freelist, k, ph))
  BY InsertSound DEF MemInv
<1>4. Sound(merge_items(Insert(freelist, k, ph), k), allocated \ {ph})
  BY <1>1, <1>3, MergeItemsSound
<1> QED
  BY <1>1, <1>2, <1>4 DEF packetmem_free, MemInv, Sound, OutSound

\* Giving out a whole handle of the list.
LEMMA RemoveSound ==
  ASSUME MemInv, NEW k \in 1 .. Len(freelist)
  PROVE  Sound(Remove(freelist, k), allocated \cup {freelist[k]})
<1> DEFINE n == Len(freelist)
           shorter == Remove(freelist, k)
           from(i) == IF i < k THEN i ELSE i + 1
<1>1. freelist \in Seq(Handle) /\ n \in Nat /\ freelist[k] \in Handle
  <2>1. freelist \in Seq(Handle)
    BY Zenon DEF MemInv, Sound
  <2> QED
    BY <2>1
<1>2. shorter \in Seq(Handle) /\ Len(shorter) = n - 1
      /\ \A i \in 1 .. n - 1 : shorter[i] = IF i < k THEN freelist[i] ELSE freelist[i + 1]
  BY <1>1, RemoveShape
<1> HIDE DEF shorter
<1>3. \A i \in 1 .. n - 1 : from(i) \in 1 .. n /\ from(i) # k /\ shorter[i] = freelist[from(i)]
  BY <1>1, <1>2
<1>4. \A i, j \in 1 .. n - 1 : i # j => from(i) # from(j)
  BY <1>1
<1> HIDE DEF from
<1>5. \A i, j \in 1 .. n - 1 : i # j => Disjoint(shorter[i], shorter[j])
  BY <1>3, <1>4 DEF MemInv, Sound
<1>6. \A i \in 1 .. n - 1, a \in allocated \cup {freelist[k]} : Disjoint(shorter[i], a)
  BY <1>3 DEF MemInv, Sound
<1>7. \A byte \in 0 .. dma_mem_size - 1 :
        \/ \E i \in 1 .. n - 1 : Holds(shorter[i], byte)
        \/ \E a \in allocated \cup {freelist[k]} : Holds(a, byte)
  <2> SUFFICES ASSUME NEW byte \in 0 .. dma_mem_size - 1, NEW i \in 1 .. n, i # k,
                      Holds(freelist[i], byte)
               PROVE  \E x \in 1 .. n - 1 : Holds(shorter[x], byte)
    BY DEF MemInv, Sound
  <2>1. CASE i < k
    <3>1. i \in 1 .. n - 1 /\ shorter[i] = freelist[i]
      BY <1>1, <1>2, <2>1
    <3> QED
      BY <3>1
  <2>2. CASE i > k
    <3>1. i - 1 \in 1 .. n - 1 /\ shorter[i - 1] = freelist[i]
      BY <1>1, <1>2, <2>2
    <3> QED
      BY <3>1
  <2> QED
    BY <1>1, <2>1, <2>2
<1>8. \A i \in 1 .. n - 1 : shorter[i].base + shorter[i].len <= dma_mem_size
  BY <1>3 DEF MemInv, Sound
<1> QED
  BY <1>2, <1>5, <1>6, <1>7, <1>8 DEF Sound, shorter

\* Giving out the front of a longer handle.
LEMMA SplitSound ==
  ASSUME MemInv, NEW k \in 1 .. Len(freelist), NEW length \in Nat \ {0},
         freelist[k].len > length
  PROVE  LET front == [base |-> freelist[k].base, len |-> length]
             back == [base |-> freelist[k].base + length, len |-> freelist[k].len - length]
         IN  Sound([freelist EXCEPT ![k] = back], allocated \cup {front})
<1> DEFINE n == Len(freelist)
           front == [base |-> freelist[k].base, len |-> length]
           back == [base |-> freelist[k].base + length, len |-> freelist[k].len - length]
           split == [freelist EXCEPT ![k] = back]
<1>1. freelist \in Seq(Handle) /\ n \in Nat /\ freelist[k] \in Handle
  <2>1. freelist \in Seq(Handle)
    BY Zenon DEF MemInv, Sound
  <2> QED
    BY <2>1
<1>2. /\ front \in Handle /\ back \in Handle /\ Disjoint(back, front)
      /\ back.base + back.len = freelist[k].base + freelist[k].len
      /\ \A c \in Handle : Disjoint(freelist[k], c)
            => Disjoint(front, c) /\ Disjoint(c, front) /\ Disjoint(back, c) /\ Disjoint(c, back)
      /\ \A byte \in Nat : Holds(freelist[k], byte) => Holds(front, byte) \/ Holds(back, byte)
  <2>1. /\ freelist[k].base \in Nat /\ freelist[k].len \in Nat
        /\ front.base = freelist[k].base /\ front.len = length
        /\ back.base = freelist[k].base + length /\ back.len = freelist[k].len - length
    BY <1>1 DEF Handle
  <2>2. front \in Handle /\ back \in Handle
    BY <2>1 DEF Handle
  <2> HIDE DEF front, back
  <2>3. Disjoint(back, front) /\ back.base + back.len = freelist[k].base + freelist[k].len
    BY <2>1 DEF Disjoint
  <2>4. ASSUME NEW c \in Handle, Disjoint(freelist[k], c)
        PROVE  Disjoint(front, c) /\ Disjoint(c, front) /\ Disjoint(back, c) /\ Disjoint(c, back)
    <3>1. c.base \in Nat /\ c.len \in Nat
      BY DEF Handle
    <3>2. /\ freelist[k].base <= front.base
          /\ front.base + front.len <= freelist[k].base + freelist[k].len
          /\ freelist[k].base <= back.base
          /\ back.base + back.len <= freelist[k].base + freelist[k].len
          /\ front.base \in Nat /\ front.len \in Nat /\ back.base \in Nat /\ back.len \in Nat
      BY <2>1
    <3>3. Disjoint(front, c) /\ Disjoint(c, front)
      BY <2>1, <2>4, <3>1, <3>2, PartDisjoint, Zenon
    <3>4. Disjoint(back, c) /\ Disjoint(c, back)
      BY <2>1, <2>4, <3>1, <3>2, PartDisjoint, Zenon
    <3> QED
      BY <3>3, <3>4
  <2>5. \A byte \in Nat : Holds(freelist[k], byte) => Holds(front, byte) \/ Holds(back, byte)
    BY <2>1 DEF Holds
  <2> QED
    BY <2>2, <2>3, <2>4, <2>5
<1> HIDE DEF front, back
<1>3. split \in Seq(Handle) /\ Len(split) = n
      /\ \A i \in 1 .. n : split[i] = IF i = k THEN back ELSE freelist[i]
  BY <1>1, <1>2
<1> HIDE DEF split
<1>4. \A i \in 1 .. n : freelist[i] \in Handle
  BY <1>1
<1>5. \A i, j \in 1 .. n : i # j => Disjoint(split[i], split[j])
  BY <1>2, <1>3, <1>4 DEF MemInv, Sound
<1>6. \A i \in 1 .. n, a \in allocated \cup {front} : Disjoint(split[i], a)
  <2>1. \A i \in 1 .. n : Disjoint(split[i], front)
    BY <1>2, <1>3, <1>4 DEF MemInv, Sound
  <2>2. \A i \in 1 .. n, a \in allocated : Disjoint(split[i], a)
    BY <1>2, <1>3 DEF MemInv, Sound, OutSound
  <2> QED
    BY <2>1, <2>2
<1>7. \A byte \in 0 .. dma_mem_size - 1 :
        \/ \E i \in 1 .. n : Holds(split[i], byte)
        \/ \E a \in allocated \cup {front} : Holds(a, byte)
  BY <1>2, <1>3 DEF MemInv, Sound
<1>8. \A i \in 1 .. n : split[i].base + split[i].len <= dma_mem_size
  <2>1. \A i \in 1 .. n : freelist[i].base + freelist[i].len <= dma_mem_size
    BY Zenon DEF MemInv, Sound
  <2>2. back.base + back.len <= dma_mem_size
    BY <1>2, <2>1
  <2> QED
    BY <1>3, <2>1, <2>2
<1> QED
  BY <1>3, <1>5, <1>6, <1>7, <1>8 DEF Sound, split, back, front

\* packetmem_alloc keeps the invariant, whether the handle fits exactly or is split.
LEMMA MemAllocStep ==
  ASSUME MemInv, NEW length \in Lengths, packetmem_alloc(length) PROVE MemInv'
<1>1. PICK k \in 1 .. Len(freelist) :
        /\ FirstFit(k, length)
        /\ freelist' =
             IF freelist[k].len = length THEN Remove(freelist, k)
             ELSE [freelist EXCEPT ![k] = [base |-> freelist[k].base + length,
                                           len |-> freelist[k].len - length]]
        /\ allocated' = allocated \cup {[base |-> freelist[k].base, len |-> length]}
  BY DEF packetmem_alloc
<1> DEFINE front == [base |-> freelist[k].base, len |-> length]
<1>2. freelist[k] \in Handle /\ freelist[k].len >= length /\ length \in Nat \ {0}
  BY <1>1 DEF MemInv, Sound, FirstFit
<1>3. Sound(freelist', allocated')
  <2>1. CASE freelist[k].len = length
    <3>1. front = freelist[k]
      BY <1>2, <2>1 DEF Handle
    <3> QED
      BY <1>1, <2>1, <3>1, RemoveSound
  <2>2. CASE freelist[k].len # length
    <3>1. freelist[k].len > length
      BY <1>2, <2>2 DEF Handle
    <3> QED
      BY <1>1, <1>2, <2>2, <3>1, SplitSound, Zenon
  <2> QED
    BY <2>1, <2>2
<1>4. OutSound(allocated')
  <2>1. front \in Handle /\ front.base + front.len <= dma_mem_size
    BY <1>2 DEF Handle, MemInv, Sound
  <2>2. \A a \in allocated : Disjoint(front, a) /\ Disjoint(a, front)
    BY <1>2 DEF MemInv, Sound, OutSound, Disjoint, Handle
  <2> QED
    BY <1>1, <2>1, <2>2 DEF MemInv, OutSound
<1> QED
  BY <1>3, <1>4 DEF MemInv, Sound, OutSound

\* At first the whole region is one free handle.
LEMMA InitMem == Init => MemInv
BY DEF Init, MemInv, Sound, OutSound, Handle, Holds, Disjoint

\* In every reachable state no byte of the packet memory belongs to two handles
\* and none to no handle, for every region size.
THEOREM MemoryPartitioned == Spec => []Partitioned
<1>1. MemInv => Partitioned
  BY DEF MemInv, Sound, OutSound, Partitioned, NoOverlap, NoLeak
<1>2. MemInv /\ [Next]_vars => MemInv'
  <2> SUFFICES ASSUME MemInv, [Next]_vars PROVE MemInv'
    OBVIOUS
  <2>1. CASE UNCHANGED vars
    BY <2>1 DEF vars, MemInv, Sound, OutSound
  <2> QED
    BY <2>1, MemAllocStep, FreeStep DEF Next
<1> QED
  BY <1>1, <1>2, InitMem, PTL DEF Spec

HIDE MemAssumption
-------------------------------------------------------------------------------
(* timeout.c *)
USE TimeoutsAssumption

\* rel_time is exact within half a turn of the clock, on both sides of the wrap.
LEMMA RelTime ==
  ASSUME NEW now \in 0 .. TsMod - 1, NEW l \in Int, -Middle < l, l < Middle
  PROVE  rel_time(now, (now + l) % TsMod) = l
<1> DEFINE to == (now + l) % TsMod
           start == (now - Middle) % TsMod
           end == ((now + Middle) % TsMod) + 1
<1>0. Middle \in Nat \ {0} /\ TsMod \in Nat \ {0} /\ TsMod = 2 * Middle
  OBVIOUS
<1>1. to = IF now + l < 0 THEN now + l + TsMod ELSE IF now + l >= TsMod THEN now + l - TsMod ELSE now + l
  <2>1. -TsMod <= now + l /\ now + l < 2 * TsMod /\ now + l \in Int
    BY <1>0
  <2> DEFINE x == now + l
  <2> HIDE DEF x
  <2>2. x % TsMod = IF x < 0 THEN x + TsMod ELSE IF x >= TsMod THEN x - TsMod ELSE x
    BY <1>0, <2>1, TsWraps, Zenon DEF x
  <2> QED
    BY <2>2 DEF x
<1>2. start = IF now < Middle THEN now + Middle ELSE now - Middle
  <2>1. -TsMod <= now - Middle /\ now - Middle < 2 * TsMod /\ now - Middle \in Int
    BY <1>0
  <2>2. start = IF now - Middle < 0 THEN now - Middle + TsMod
                ELSE IF now - Middle >= TsMod THEN now - Middle - TsMod ELSE now - Middle
    BY <1>0, <2>1, TsWraps, Zenon
  <2> HIDE DEF start
  <2> QED
    BY <1>0, <2>2
<1>3. end = IF now < Middle THEN now + Middle + 1 ELSE now - Middle + 1
  <2>1. -TsMod <= now + Middle /\ now + Middle < 2 * TsMod /\ now + Middle \in Int
    BY <1>0
  <2> DEFINE x == now + Middle
  <2> HIDE DEF x
  <2>2. -TsMod <= x /\ x < 2 * TsMod /\ x \in Int
    BY <2>1 DEF x
  <2>3. x % TsMod = IF x < 0 THEN x + TsMod ELSE IF x >= TsMod THEN x - TsMod ELSE x
    BY ONLY <1>0, <2>2, TsWraps, Zenon
  <2> QED
    BY <1>0, <2>3 DEF x
<1>4. rel_time(now, to) = IF now < Middle /\ start <= to THEN to - start - Middle
                          ELSE IF now > Middle /\ to < end THEN to + (TsMod - now)
                          ELSE to - now
  BY DEF rel_time
<1> HIDE DEF to, start, end
<1>5. rel_time(now, to) = l
  BY <1>0, <1>1, <1>2, <1>3, <1>4
<1> QED
  BY <1>5 DEF to

-------------------------------------------------------------------------------
\* The timestamp of an armed timeout is the time it expires, which is near enough.
TimerRight(now, ts, left, t) ==
  -MaxLate <= left[t] /\ left[t] < Middle /\ ts[t] = (now + left[t]) % TsMod
ListRight(now, ts, left, list) == \A i \in 1 .. Len(list) : TimerRight(now, ts, left, list[i])
InOrder(left, list) ==
  \A i, j \in 1 .. Len(list) : i < j => left[list[i]] <= left[list[j]]
Expired(left, list) == \A i \in 1 .. Len(list) : left[list[i]] <= 0

Stamps == 0 .. TsMod - 1
TimersRight(now, timeouts, due, ts, left) ==
  /\ ListRight(now, ts, left, timeouts) /\ ListRight(now, ts, left, due)
  /\ InOrder(left, timeouts) /\ Expired(left, due)
TimerRec == [now : Stamps, timeouts : Seq(Timers), due : Seq(Timers), ts : [Timers -> Stamps],
             left : [Timers -> Int]]

\* The inductive invariant of the timeout manager.
TimersInv == tm \in TimerRec /\ TimersRight(tm.now, tm.timeouts, tm.due, tm.ts, tm.left)

\* The state in its parts.
LEMMA TimerParts ==
  ASSUME TimersInv
  PROVE  /\ tm = [now |-> tm.now, timeouts |-> tm.timeouts, due |-> tm.due, ts |-> tm.ts, left |-> tm.left]
         /\ tm.now \in Stamps /\ tm.timeouts \in Seq(Timers) /\ tm.due \in Seq(Timers)
         /\ tm.ts \in [Timers -> Stamps] /\ tm.left \in [Timers -> Int]
BY DEF TimersInv, TimerRec

\* The relative time of an armed timeout is the time it has left.
LEMMA RelTimeLeft ==
  ASSUME NEW now \in Stamps, NEW ts \in [Timers -> Stamps], NEW left \in [Timers -> Int], NEW t \in Timers,
         TimerRight(now, ts, left, t)
  PROVE  rel_time(now, ts[t]) = left[t] /\ left[t] \in Int
<1>1. left[t] \in Int /\ -Middle < left[t] /\ left[t] < Middle
  BY DEF TimerRight
<1>2. rel_time(now, (now + left[t]) % TsMod) = left[t]
  BY <1>1, RelTime DEF Stamps
<1> QED
  BY <1>1, <1>2 DEF TimerRight

\* The next state from its parts.
LEMMA TimersNew ==
  ASSUME NEW now \in Stamps, NEW timeouts \in Seq(Timers), NEW due \in Seq(Timers),
         NEW ts \in [Timers -> Stamps], NEW left \in [Timers -> Int],
         tm' = [now |-> now, timeouts |-> timeouts, due |-> due, ts |-> ts, left |-> left],
         TimersRight(now, timeouts, due, ts, left)
  PROVE  TimersInv'
<1>1. tm' \in TimerRec
  BY DEF TimerRec
<1>2. tm'.now = now /\ tm'.timeouts = timeouts /\ tm'.due = due /\ tm'.ts = ts /\ tm'.left = left
  OBVIOUS
<1>3. TimersRight(tm'.now, tm'.timeouts, tm'.due, tm'.ts, tm'.left)
  BY <1>2, Zenon
<1> QED
  BY <1>1, <1>3 DEF TimersInv

\* The end of a list, its start, and two lists in a row.
LEMMA EndOf ==
  ASSUME NEW T, NEW s \in Seq(T), NEW n \in 0 .. Len(s)
  PROVE  LET e == SubSeq(s, n + 1, Len(s))
         IN  /\ e \in Seq(T) /\ Len(e) = Len(s) - n
             /\ \A j \in 1 .. Len(e) : e[j] = s[n + j] /\ n + j \in 1 .. Len(s)
<1> DEFINE e == SubSeq(s, n + 1, Len(s))
<1>1. Len(s) \in Nat /\ n \in Nat /\ n <= Len(s)
  OBVIOUS
<1>2. e \in Seq(T) /\ Len(e) = Len(s) - n
  BY <1>1
<1>3. \A j \in 1 .. Len(s) - n : e[j] = s[n + j] /\ n + j \in 1 .. Len(s)
  <2> SUFFICES ASSUME NEW j \in 1 .. Len(s) - n PROVE e[j] = s[n + j] /\ n + j \in 1 .. Len(s)
    OBVIOUS
  <2>1. e[j] = s[n + 1 + j - 1] /\ n + 1 + j - 1 = n + j
    BY <1>1
  <2> QED
    BY <1>1, <2>1
<1> HIDE DEF e
<1>4. \A j \in 1 .. Len(e) : e[j] = s[n + j] /\ n + j \in 1 .. Len(s)
  BY <1>2, <1>3
<1> QED
  BY <1>2, <1>4 DEF e

\* The start of a sequence.
LEMMA StartOf ==
  ASSUME NEW T, NEW s \in Seq(T), NEW n \in 0 .. Len(s)
  PROVE  LET e == SubSeq(s, 1, n)
         IN  /\ e \in Seq(T) /\ Len(e) = n
             /\ \A j \in 1 .. n : e[j] = s[j] /\ j \in 1 .. Len(s)
OBVIOUS

\* Two sequences in a row.
LEMMA InARow ==
  ASSUME NEW T, NEW s \in Seq(T), NEW t \in Seq(T)
  PROVE  LET c == s \o t
         IN  /\ c \in Seq(T) /\ Len(c) = Len(s) + Len(t) /\ Len(s) \in Nat /\ Len(t) \in Nat
             /\ \A j \in 1 .. Len(s) : c[j] = s[j] /\ j \in 1 .. Len(c)
             /\ \A j \in 1 .. Len(c) : j > Len(s) => c[j] = t[j - Len(s)] /\ j - Len(s) \in 1 .. Len(t)
<1> DEFINE c == s \o t
<1>1. Len(s) \in Nat /\ Len(t) \in Nat /\ c \in Seq(T) /\ Len(c) = Len(s) + Len(t)
  OBVIOUS
<1>2. \A j \in 1 .. Len(s) : c[j] = s[j]
  OBVIOUS
<1>3. \A j \in 1 .. Len(s) + Len(t) : j > Len(s) => c[j] = t[j - Len(s)]
  OBVIOUS
<1> HIDE DEF c
<1>4. \A j \in 1 .. Len(s) : j \in 1 .. Len(c)
  BY <1>1
<1>5. \A j \in 1 .. Len(c) : j > Len(s) => c[j] = t[j - Len(s)] /\ j - Len(s) \in 1 .. Len(t)
  BY <1>1, <1>3
<1> QED
  BY <1>1, <1>2, <1>4, <1>5 DEF c

\* move_due_timeouts moves the front of the list, in order, and only what expired.
LEMMA DueMoved ==
  ASSUME TimersInv
  PROVE  \E n \in 0 .. Len(tm.timeouts) :
           LET list == SubSeq(tm.timeouts, n + 1, Len(tm.timeouts))
               due  == tm.due \o SubSeq(tm.timeouts, 1, n)
           IN  /\ list \in Seq(Timers) /\ due \in Seq(Timers)
               /\ move_due_timeouts(tm) = [now |-> tm.now, timeouts |-> list, due |-> due,
                                           ts |-> tm.ts, left |-> tm.left]
               /\ TimersRight(tm.now, list, due, tm.ts, tm.left)
               /\ Range(list) \cup Range(due) \subseteq Armed
<1> DEFINE S == {i \in 0 .. Len(tm.timeouts) : \A j \in 1 .. i : timeout_due(tm, tm.timeouts[j])}
           n == Max(S)
           list == SubSeq(tm.timeouts, n + 1, Len(tm.timeouts))
           due  == tm.due \o SubSeq(tm.timeouts, 1, n)
<1>1. Len(tm.timeouts) \in Nat
  BY TimerParts
<1>2. n \in S
  <2>1. 0 \in S
    BY <1>1
  <2>2. S \in SUBSET Nat /\ \A y \in S : y <= Len(tm.timeouts)
    BY <1>1
  <2> QED
    BY <1>1, <2>1, <2>2, GreatestOf, Zenon
<1>3. n \in 0 .. Len(tm.timeouts) /\ \A j \in 1 .. n : timeout_due(tm, tm.timeouts[j])
  BY <1>2
<1>4. move_due_timeouts(tm) = [tm EXCEPT !.timeouts = list, !.due = due]
  BY Zenon DEF move_due_timeouts
<1> HIDE DEF n, S
<1>5. /\ list \in Seq(Timers) /\ Len(list) = Len(tm.timeouts) - n
      /\ \A j \in 1 .. Len(list) : list[j] = tm.timeouts[n + j] /\ n + j \in 1 .. Len(tm.timeouts)
  BY <1>3, TimerParts, EndOf, Zenon
<1>6. /\ SubSeq(tm.timeouts, 1, n) \in Seq(Timers) /\ Len(SubSeq(tm.timeouts, 1, n)) = n
      /\ \A j \in 1 .. n : SubSeq(tm.timeouts, 1, n)[j] = tm.timeouts[j]
  BY <1>3, TimerParts
<1>7. /\ due \in Seq(Timers) /\ Len(due) = Len(tm.due) + n /\ Len(tm.due) \in Nat
      /\ \A j \in 1 .. Len(tm.due) : due[j] = tm.due[j]
      /\ \A j \in 1 .. Len(due) : j > Len(tm.due) =>
           j - Len(tm.due) \in 1 .. n /\ due[j] = tm.timeouts[j - Len(tm.due)]
  <2> DEFINE d == SubSeq(tm.timeouts, 1, n)
  <2>1. d \in Seq(Timers) /\ Len(d) = n /\ \A j \in 1 .. n : d[j] = tm.timeouts[j]
    BY <1>6
  <2> HIDE DEF d
  <2>2. tm.due \in Seq(Timers)
    BY TimerParts
  <2>3. due = tm.due \o d
    BY DEF d
  <2> HIDE DEF due
  <2>4. due \in Seq(Timers) /\ Len(due) = Len(tm.due) + Len(d) /\ Len(tm.due) \in Nat /\ Len(d) \in Nat
    BY ONLY <2>1, <2>2, <2>3, InARow, Zenon
  <2>5. \A j \in 1 .. Len(tm.due) : due[j] = tm.due[j]
    BY ONLY <2>1, <2>2, <2>3, InARow
  <2>6. \A j \in 1 .. Len(due) : j > Len(tm.due) =>
          due[j] = d[j - Len(tm.due)] /\ j - Len(tm.due) \in 1 .. Len(d)
    BY ONLY <2>1, <2>2, <2>3, InARow
  <2> QED
    BY <2>1, <2>4, <2>5, <2>6
<1>8. /\ ListRight(tm.now, tm.ts, tm.left, tm.timeouts) /\ ListRight(tm.now, tm.ts, tm.left, tm.due)
      /\ InOrder(tm.left, tm.timeouts) /\ Expired(tm.left, tm.due)
  BY DEF TimersInv, TimersRight
<1>9. \A j \in 1 .. n : j \in 1 .. Len(tm.timeouts) /\ tm.timeouts[j] \in Timers
  BY <1>3, TimerParts
<1>10. \A j \in 1 .. n : tm.left[tm.timeouts[j]] <= 0
  <2> SUFFICES ASSUME NEW j \in 1 .. n PROVE tm.left[tm.timeouts[j]] <= 0
    OBVIOUS
  <2>1. rel_time(tm.now, tm.ts[tm.timeouts[j]]) = tm.left[tm.timeouts[j]]
    BY <1>8, <1>9, TimerParts, RelTimeLeft, Zenon DEF ListRight
  <2> QED
    BY <1>3, <2>1 DEF timeout_due
<1>11. move_due_timeouts(tm) = [now |-> tm.now, timeouts |-> list, due |-> due,
                                ts |-> tm.ts, left |-> tm.left]
  <2> HIDE DEF list, due
  <2> QED
    BY <1>4, TimerParts, Zenon
<1> HIDE DEF list, due
<1>12. ListRight(tm.now, tm.ts, tm.left, list)
  BY <1>5, <1>8 DEF ListRight
<1>13. \A j \in 1 .. Len(due) : j \in 1 .. Len(tm.due) \/ (j > Len(tm.due) /\ j - Len(tm.due) \in 1 .. n)
  BY <1>7
<1>14. ListRight(tm.now, tm.ts, tm.left, due)
  BY <1>7, <1>8, <1>9, <1>13 DEF ListRight
<1>15. InOrder(tm.left, list)
  <2> SUFFICES ASSUME NEW i \in 1 .. Len(list), NEW j \in 1 .. Len(list), i < j
               PROVE  tm.left[list[i]] <= tm.left[list[j]]
    BY DEF InOrder
  <2>1. n + i < n + j /\ n + i \in 1 .. Len(tm.timeouts) /\ n + j \in 1 .. Len(tm.timeouts)
    BY <1>3, <1>5
  <2> QED
    BY <1>5, <1>8, <2>1 DEF InOrder
<1>16. Expired(tm.left, due)
  BY <1>7, <1>8, <1>10, <1>13, Zenon DEF Expired
<1>17. Range(list) \cup Range(due) \subseteq Armed
  <2>1. \A x \in Range(list) : x \in Range(tm.timeouts)
    <3>1. DOMAIN list = 1 .. Len(list) /\ DOMAIN tm.timeouts = 1 .. Len(tm.timeouts)
      BY <1>5, TimerParts
    <3> QED
      BY <1>5, <3>1 DEF Range
  <2>2. \A x \in Range(due) : x \in Range(tm.timeouts) \/ x \in Range(tm.due)
    <3>1. /\ DOMAIN due = 1 .. Len(due) /\ DOMAIN tm.timeouts = 1 .. Len(tm.timeouts)
          /\ DOMAIN tm.due = 1 .. Len(tm.due)
      BY <1>7, TimerParts
    <3> QED
      BY <1>7, <1>9, <1>13, <3>1, Zenon DEF Range
  <2> QED
    BY <2>1, <2>2 DEF Armed
<1>18. TimersRight(tm.now, list, due, tm.ts, tm.left)
  BY <1>12, <1>14, <1>15, <1>16 DEF TimersRight
<1> QED
  BY <1>3, <1>5, <1>7, <1>11, <1>17, <1>18, Zenon DEF list, due

\* A list with t after its i-th timeout, and one without its i-th.
LEMMA Linked ==
  ASSUME NEW T, NEW s \in Seq(T), NEW i \in 0 .. Len(s), NEW t \in T
  PROVE  LET l == LinkAfter(s, i, t)
         IN  /\ l \in Seq(T) /\ Len(l) = Len(s) + 1 /\ l[i + 1] = t
             /\ \A j \in 1 .. i : l[j] = s[j] /\ j \in 1 .. Len(s)
             /\ \A j \in i + 2 .. Len(s) + 1 : l[j] = s[j - 1] /\ j - 1 \in i + 1 .. Len(s)
<1> DEFINE a == SubSeq(s, 1, i)
           b == SubSeq(s, i + 1, Len(s))
           c == a \o <<t>>
           l == c \o b
<1>1. a \in Seq(T) /\ Len(a) = i /\ \A j \in 1 .. i : a[j] = s[j] /\ j \in 1 .. Len(s)
  BY StartOf
<1>2. b \in Seq(T) /\ Len(b) = Len(s) - i /\ \A j \in 1 .. Len(b) : b[j] = s[i + j] /\ i + j \in 1 .. Len(s)
  BY EndOf
<1>3. Len(s) \in Nat /\ i \in Nat /\ i <= Len(s)
  OBVIOUS
<1>4. l = LinkAfter(s, i, t)
  BY DEF LinkAfter
<1> HIDE DEF a, b
<1>5. c \in Seq(T) /\ Len(c) = i + 1 /\ c[i + 1] = t /\ \A j \in 1 .. i : c[j] = a[j]
  BY <1>1, <1>3
<1> HIDE DEF c
<1>6. l \in Seq(T) /\ Len(l) = Len(c) + Len(b)
  BY ONLY <1>2, <1>5, InARow
<1>7. \A j \in 1 .. Len(c) : l[j] = c[j]
  BY ONLY <1>2, <1>5, InARow
<1>8. \A j \in 1 .. Len(l) : j > Len(c) => l[j] = b[j - Len(c)] /\ j - Len(c) \in 1 .. Len(b)
  BY ONLY <1>2, <1>5, InARow
<1> HIDE DEF l
<1>9. Len(l) = Len(s) + 1 /\ l[i + 1] = t /\ \A j \in 1 .. i : l[j] = s[j] /\ j \in 1 .. Len(s)
  BY <1>1, <1>2, <1>3, <1>5, <1>6, <1>7
<1>10. ASSUME NEW j \in i + 2 .. Len(s) + 1 PROVE l[j] = s[j - 1] /\ j - 1 \in i + 1 .. Len(s)
  <2>1. j \in 1 .. Len(l) /\ j > Len(c) /\ j - Len(c) = j - 1 - i /\ i + (j - 1 - i) = j - 1
    BY <1>3, <1>5, <1>9
  <2>2. l[j] = b[j - 1 - i] /\ j - 1 - i \in 1 .. Len(b)
    BY <1>8, <2>1
  <2>3. b[j - 1 - i] = s[i + (j - 1 - i)]
    BY <1>2, <2>2
  <2> QED
    BY <1>3, <2>1, <2>2, <2>3
<1> QED
  BY <1>4, <1>6, <1>9, <1>10

\* A list without its i-th element.
LEMMA Unlinked ==
  ASSUME NEW T, NEW s \in Seq(T), NEW i \in 1 .. Len(s)
  PROVE  LET l == Unlink(s, i)
         IN  /\ l \in Seq(T) /\ Len(l) = Len(s) - 1
             /\ \A j \in 1 .. Len(l) : j < i => l[j] = s[j] /\ j \in 1 .. Len(s)
             /\ \A j \in 1 .. Len(l) : j >= i => l[j] = s[j + 1] /\ j + 1 \in 1 .. Len(s)
<1> DEFINE a == SubSeq(s, 1, i - 1)
           b == SubSeq(s, i + 1, Len(s))
           l == a \o b
<1>0. i - 1 \in 0 .. Len(s) /\ i \in 0 .. Len(s) /\ Len(s) \in Nat /\ i \in Nat /\ i >= 1 /\ i <= Len(s)
  OBVIOUS
<1>1. a \in Seq(T) /\ Len(a) = i - 1 /\ \A j \in 1 .. i - 1 : a[j] = s[j] /\ j \in 1 .. Len(s)
  BY <1>0, StartOf
<1>2. b \in Seq(T) /\ Len(b) = Len(s) - i /\ \A j \in 1 .. Len(b) : b[j] = s[i + j] /\ i + j \in 1 .. Len(s)
  BY <1>0, EndOf
<1>3. l = Unlink(s, i)
  BY DEF Unlink
<1> HIDE DEF a, b
<1>4. l \in Seq(T) /\ Len(l) = Len(a) + Len(b)
  BY ONLY <1>1, <1>2, InARow, Zenon
<1>5. \A j \in 1 .. Len(a) : l[j] = a[j]
  BY ONLY <1>1, <1>2, InARow
<1>6. \A j \in 1 .. Len(l) : j > Len(a) => l[j] = b[j - Len(a)] /\ j - Len(a) \in 1 .. Len(b)
  BY ONLY <1>1, <1>2, InARow
<1> HIDE DEF l
<1>7. Len(l) = Len(s) - 1
  BY <1>0, <1>1, <1>2, <1>4
<1>8. ASSUME NEW j \in 1 .. Len(l), j < i PROVE l[j] = s[j] /\ j \in 1 .. Len(s)
  <2>1. j \in 1 .. i - 1
    BY <1>0, <1>7, <1>8
  <2> QED
    BY <1>1, <1>5, <2>1
<1>9. ASSUME NEW j \in 1 .. Len(l), j >= i PROVE l[j] = s[j + 1] /\ j + 1 \in 1 .. Len(s)
  <2>1. j > Len(a) /\ j - Len(a) = j + 1 - i /\ i + (j + 1 - i) = j + 1
    BY <1>0, <1>1, <1>7, <1>9
  <2>2. l[j] = b[j + 1 - i] /\ j + 1 - i \in 1 .. Len(b)
    BY <1>6, <2>1
  <2>3. b[j + 1 - i] = s[i + (j + 1 - i)]
    BY <1>2, <2>2
  <2> QED
    BY <1>0, <1>7, <2>1, <2>2, <2>3
<1> QED
  BY <1>3, <1>4, <1>7, <1>8, <1>9

-------------------------------------------------------------------------------
\* An armed timeout goes behind those due no later and before those due later.
LEMMA ArmStep ==
  ASSUME TimersInv, NEW t \in Timers, NEW us \in 1 .. Middle - 1, util_timeout_arm(t, us)
  PROVE  TimersInv'
<1>1. PICK n \in 0 .. Len(tm.timeouts) :
           LET list == SubSeq(tm.timeouts, n + 1, Len(tm.timeouts))
               due  == tm.due \o SubSeq(tm.timeouts, 1, n)
           IN  /\ list \in Seq(Timers) /\ due \in Seq(Timers)
               /\ move_due_timeouts(tm) = [now |-> tm.now, timeouts |-> list, due |-> due,
                                           ts |-> tm.ts, left |-> tm.left]
               /\ TimersRight(tm.now, list, due, tm.ts, tm.left)
               /\ Range(list) \cup Range(due) \subseteq Armed
  BY DueMoved, Zenon
<1> DEFINE list == SubSeq(tm.timeouts, n + 1, Len(tm.timeouts))
           due  == tm.due \o SubSeq(tm.timeouts, 1, n)
<1>2. /\ list \in Seq(Timers) /\ due \in Seq(Timers)
      /\ move_due_timeouts(tm) = [now |-> tm.now, timeouts |-> list, due |-> due,
                                  ts |-> tm.ts, left |-> tm.left]
      /\ TimersRight(tm.now, list, due, tm.ts, tm.left)
      /\ Range(list) \cup Range(due) \subseteq Armed
  BY <1>1
<1> HIDE DEF list, due
<1> DEFINE s == move_due_timeouts(tm)
           S == {0} \cup {j \in 1 .. Len(s.timeouts) : rel_time(s.now, s.ts[s.timeouts[j]]) <= us}
           i == Max(S)
           ts2 == [tm.ts EXCEPT ![t] = (tm.now + us) % TsMod]
           left2 == [tm.left EXCEPT ![t] = us]
           list2 == LinkAfter(list, i, t)
<1>3. /\ t \notin Armed
      /\ tm' = [s EXCEPT !.timeouts = LinkAfter(@, i, t), !.ts[t] = (s.now + us) % TsMod, !.left[t] = us]
  BY Zenon DEF util_timeout_arm
<1>4. s = [now |-> tm.now, timeouts |-> list, due |-> due, ts |-> tm.ts, left |-> tm.left]
  BY <1>2
<1>5. S = {0} \cup {j \in 1 .. Len(list) : rel_time(tm.now, tm.ts[list[j]]) <= us}
  BY <1>4
<1> HIDE DEF s, S
<1>6. tm' = [now |-> tm.now, timeouts |-> list2, due |-> due, ts |-> ts2, left |-> left2]
  <2> HIDE DEF i
  <2> QED
    BY <1>3, <1>4, Zenon
<1>7. Len(list) \in Nat /\ (\A j \in 1 .. Len(list) : list[j] \in Timers) /\ us \in Int /\ us < Middle /\ us > 0
  BY <1>2
<1>8. \A j \in 1 .. Len(list) : rel_time(tm.now, tm.ts[list[j]]) = tm.left[list[j]] /\ tm.left[list[j]] \in Int
  BY <1>2, <1>7, TimerParts, RelTimeLeft, Zenon DEF TimersRight, ListRight
<1>9. i \in S /\ \A j \in S : i >= j
  <2>1. S \in SUBSET Nat /\ S # {} /\ \A y \in S : y <= Len(list)
    BY <1>5, <1>7
  <2> QED
    BY <1>7, <2>1, GreatestOf, Zenon
<1> HIDE DEF i
<1>10. i \in 0 .. Len(list) /\ (i # 0 => tm.left[list[i]] <= us)
  BY <1>5, <1>7, <1>8, <1>9
<1>11. \A j \in 1 .. Len(list) : j > i => tm.left[list[j]] > us
  <2> SUFFICES ASSUME NEW j \in 1 .. Len(list), j > i, ~(tm.left[list[j]] > us) PROVE FALSE
    OBVIOUS
  <2>1. j \in S
    BY <1>5, <1>7, <1>8
  <2> QED
    BY <1>9, <1>10, <2>1
<1>12. \A j \in 1 .. Len(list) : j <= i => tm.left[list[j]] <= us
  <2> SUFFICES ASSUME NEW j \in 1 .. Len(list), j <= i PROVE tm.left[list[j]] <= us
    OBVIOUS
  <2>1. i \in 1 .. Len(list)
    BY <1>10
  <2>2. j < i => tm.left[list[j]] <= tm.left[list[i]]
    BY <1>2, <2>1 DEF TimersRight, InOrder
  <2>3. tm.left[list[i]] <= us /\ tm.left[list[i]] \in Int /\ tm.left[list[j]] \in Int
    BY <1>8, <1>10, <2>1
  <2> QED
    BY <2>1, <2>2, <2>3
<1>13. /\ list2 \in Seq(Timers) /\ Len(list2) = Len(list) + 1 /\ list2[i + 1] = t
       /\ \A j \in 1 .. i : list2[j] = list[j] /\ j \in 1 .. Len(list)
       /\ \A j \in i + 2 .. Len(list) + 1 : list2[j] = list[j - 1] /\ j - 1 \in i + 1 .. Len(list)
  <2>1. list2 \in Seq(Timers) /\ Len(list2) = Len(list) + 1 /\ list2[i + 1] = t
    BY ONLY <1>2, <1>10, t \in Timers, Linked DEF list2
  <2>2. \A j \in 1 .. i : list2[j] = list[j] /\ j \in 1 .. Len(list)
    BY ONLY <1>2, <1>10, t \in Timers, Linked, Zenon DEF list2
  <2>3. \A j \in i + 2 .. Len(list) + 1 : list2[j] = list[j - 1] /\ j - 1 \in i + 1 .. Len(list)
    BY ONLY <1>2, <1>10, t \in Timers, Linked DEF list2
  <2> QED
    BY <2>1, <2>2, <2>3
<1>14. ts2 \in [Timers -> Stamps] /\ left2 \in [Timers -> Int] /\ ts2[t] = (tm.now + us) % TsMod /\ left2[t] = us
       /\ \A x \in Timers : x # t => ts2[x] = tm.ts[x] /\ left2[x] = tm.left[x]
  <2>1. (tm.now + us) % TsMod \in Stamps
    BY TimerParts DEF Stamps
  <2> QED
    BY <1>7, <2>1, TimerParts
<1>15. (\A j \in 1 .. Len(list) : list[j] # t) /\ (\A j \in 1 .. Len(due) : due[j] # t /\ due[j] \in Timers)
  <2>1. \A j \in 1 .. Len(list) : list[j] \in Range(list)
    BY <1>2 DEF Range
  <2>2. \A j \in 1 .. Len(due) : due[j] \in Range(due) /\ due[j] \in Timers
    BY <1>2 DEF Range
  <2> QED
    BY <1>2, <1>3, <2>1, <2>2
<1> HIDE DEF list2, ts2, left2
<1>16. TimerRight(tm.now, ts2, left2, t)
  BY <1>7, <1>14 DEF TimerRight
<1>17. \A j \in 1 .. Len(list2) : j \in 1 .. i \/ j = i + 1 \/ j \in i + 2 .. Len(list) + 1
  BY <1>7, <1>10, <1>13
<1>18. \A j \in 1 .. Len(list) : TimerRight(tm.now, ts2, left2, list[j])
  BY <1>2, <1>7, <1>14, <1>15, Zenon DEF TimersRight, ListRight, TimerRight
<1>19. ListRight(tm.now, ts2, left2, list2)
  <2> SUFFICES ASSUME NEW j \in 1 .. Len(list2) PROVE TimerRight(tm.now, ts2, left2, list2[j])
    BY DEF ListRight
  <2>1. CASE j \in 1 .. i
    BY <1>13, <1>18, <2>1
  <2>2. CASE j = i + 1
    BY <1>13, <1>16, <2>2
  <2>3. CASE j \in i + 2 .. Len(list) + 1
    <3>1. list2[j] = list[j - 1] /\ j - 1 \in 1 .. Len(list)
      BY <1>7, <1>10, <1>13, <2>3
    <3> QED
      BY <1>18, <3>1
  <2> QED
    BY <1>17, <2>1, <2>2, <2>3
<1>20. ListRight(tm.now, ts2, left2, due) /\ Expired(left2, due)
  BY <1>2, <1>14, <1>15, Zenon DEF TimersRight, ListRight, TimerRight, Expired
<1>21. InOrder(left2, list2)
  <2> SUFFICES ASSUME NEW j \in 1 .. Len(list2), NEW k \in 1 .. Len(list2), j < k
               PROVE  left2[list2[j]] <= left2[list2[k]]
    BY DEF InOrder
  <2>1. \A m \in 1 .. Len(list) : left2[list[m]] = tm.left[list[m]]
    BY <1>7, <1>14, <1>15
  <2>2. \A m \in 1 .. Len(list), o \in 1 .. Len(list) : m < o => tm.left[list[m]] <= tm.left[list[o]]
    BY <1>2 DEF TimersRight, InOrder
  <2>3. CASE j \in 1 .. i /\ k \in 1 .. i
    BY <1>13, <2>1, <2>2, <2>3
  <2>4. CASE j \in 1 .. i /\ k = i + 1
    <3>1. list2[j] = list[j] /\ j \in 1 .. Len(list) /\ j <= i /\ list2[k] = t
      BY <1>13, <2>4
    <3> QED
      BY <1>12, <1>14, <2>1, <3>1
  <2>5. CASE j \in 1 .. i /\ k \in i + 2 .. Len(list) + 1
    <3>1. list2[j] = list[j] /\ j \in 1 .. Len(list) /\ list2[k] = list[k - 1] /\ k - 1 \in i + 1 .. Len(list)
      BY <1>13, <2>5
    <3>2. k - 1 \in 1 .. Len(list) /\ j < k - 1
      BY <1>7, <1>10, <2>5, <3>1
    <3> QED
      BY <2>1, <2>2, <3>1, <3>2
  <2>6. CASE j = i + 1 /\ k \in i + 2 .. Len(list) + 1
    <3>1. list2[k] = list[k - 1] /\ k - 1 \in i + 1 .. Len(list) /\ list2[j] = t
      BY <1>13, <2>6
    <3>2. k - 1 \in 1 .. Len(list) /\ k - 1 > i
      BY <1>7, <1>10, <3>1
    <3>3. tm.left[list[k - 1]] > us /\ tm.left[list[k - 1]] \in Int
      BY <1>8, <1>11, <3>2
    <3> QED
      BY <1>7, <1>14, <2>1, <3>1, <3>2, <3>3
  <2>7. CASE j \in i + 2 .. Len(list) + 1 /\ k \in i + 2 .. Len(list) + 1
    <3>1. /\ list2[j] = list[j - 1] /\ j - 1 \in i + 1 .. Len(list)
          /\ list2[k] = list[k - 1] /\ k - 1 \in i + 1 .. Len(list)
      BY <1>13, <2>7
    <3>2. j - 1 \in 1 .. Len(list) /\ k - 1 \in 1 .. Len(list) /\ j - 1 < k - 1
      BY <1>7, <1>10, <3>1
    <3> QED
      BY <2>1, <2>2, <3>1, <3>2
  <2>8. \/ j \in 1 .. i /\ k \in 1 .. i
        \/ j \in 1 .. i /\ k = i + 1
        \/ j \in 1 .. i /\ k \in i + 2 .. Len(list) + 1
        \/ j = i + 1 /\ k \in i + 2 .. Len(list) + 1
        \/ j \in i + 2 .. Len(list) + 1 /\ k \in i + 2 .. Len(list) + 1
    BY <1>7, <1>10, <1>13
  <2> QED
    BY <2>3, <2>4, <2>5, <2>6, <2>7, <2>8
<1>22. TimersRight(tm.now, list2, due, ts2, left2)
  BY <1>19, <1>20, <1>21 DEF TimersRight
<1>23. tm.now \in Stamps
  BY TimerParts
<1> QED
  BY ONLY <1>2, <1>6, <1>13, <1>14, <1>22, <1>23, TimersNew

\* util_timeout_disarm unlinks the timeout from the list it is on.
LEMMA DisarmStep ==
  ASSUME TimersInv, NEW t \in Timers, util_timeout_disarm(t)
  PROVE  TimersInv'
<1>0. /\ ListRight(tm.now, tm.ts, tm.left, tm.timeouts) /\ ListRight(tm.now, tm.ts, tm.left, tm.due)
      /\ InOrder(tm.left, tm.timeouts) /\ Expired(tm.left, tm.due)
  BY DEF TimersInv, TimersRight
<1>1. ASSUME NEW i \in 1 .. Len(tm.timeouts), tm' = [tm EXCEPT !.timeouts = Unlink(@, i)]
      PROVE  TimersInv'
  <2> DEFINE l == Unlink(tm.timeouts, i)
  <2>1. l \in Seq(Timers) /\ Len(l) = Len(tm.timeouts) - 1
    BY TimerParts, Unlinked
  <2>2. \A j \in 1 .. Len(l) : j < i => l[j] = tm.timeouts[j] /\ j \in 1 .. Len(tm.timeouts)
    BY TimerParts, Unlinked, Zenon
  <2>3. \A j \in 1 .. Len(l) : j >= i => l[j] = tm.timeouts[j + 1] /\ j + 1 \in 1 .. Len(tm.timeouts)
    BY TimerParts, Unlinked, Zenon
  <2>4. tm' = [now |-> tm.now, timeouts |-> l, due |-> tm.due, ts |-> tm.ts, left |-> tm.left]
    BY <1>1, TimerParts, Zenon
  <2> HIDE DEF l
  <2>5. i \in Nat /\ Len(l) \in Nat
    BY <2>1
  <2>6. ListRight(tm.now, tm.ts, tm.left, l)
    <3> SUFFICES ASSUME NEW j \in 1 .. Len(l) PROVE TimerRight(tm.now, tm.ts, tm.left, l[j])
      BY DEF ListRight
    <3>1. j < i \/ j >= i
      BY <2>5
    <3> QED
      BY <1>0, <2>2, <2>3, <3>1 DEF ListRight
  <2>7. InOrder(tm.left, l)
    <3> SUFFICES ASSUME NEW j \in 1 .. Len(l), NEW k \in 1 .. Len(l), j < k
                 PROVE  tm.left[l[j]] <= tm.left[l[k]]
      BY DEF InOrder
    <3>1. \A m, o \in 1 .. Len(tm.timeouts) : m < o => tm.left[tm.timeouts[m]] <= tm.left[tm.timeouts[o]]
      BY <1>0 DEF InOrder
    <3>2. CASE j < i /\ k < i
      BY <2>2, <3>1, <3>2
    <3>3. CASE j < i /\ k >= i
      <4>1. j < k + 1
        BY <2>5
      <4> QED
        BY <2>2, <2>3, <3>1, <3>3, <4>1, Zenon
    <3>4. CASE j >= i /\ k >= i
      <4>1. j + 1 < k + 1
        BY <2>5
      <4> QED
        BY <2>3, <3>1, <3>4, <4>1, Zenon
    <3>5. (j < i /\ k < i) \/ (j < i /\ k >= i) \/ (j >= i /\ k >= i)
      BY <2>5
    <3> QED
      BY <3>2, <3>3, <3>4, <3>5
  <2>8. TimersRight(tm.now, l, tm.due, tm.ts, tm.left)
    BY <1>0, <2>6, <2>7 DEF TimersRight
  <2> QED
    BY <2>1, <2>4, <2>8, TimerParts, TimersNew
<1>2. ASSUME NEW i \in 1 .. Len(tm.due), tm' = [tm EXCEPT !.due = Unlink(@, i)]
      PROVE  TimersInv'
  <2> DEFINE l == Unlink(tm.due, i)
  <2>1. l \in Seq(Timers) /\ Len(l) = Len(tm.due) - 1
    BY TimerParts, Unlinked
  <2>2. \A j \in 1 .. Len(l) : j < i => l[j] = tm.due[j] /\ j \in 1 .. Len(tm.due)
    BY TimerParts, Unlinked, Zenon
  <2>3. \A j \in 1 .. Len(l) : j >= i => l[j] = tm.due[j + 1] /\ j + 1 \in 1 .. Len(tm.due)
    BY TimerParts, Unlinked, Zenon
  <2>4. tm' = [now |-> tm.now, timeouts |-> tm.timeouts, due |-> l, ts |-> tm.ts, left |-> tm.left]
    BY <1>2, TimerParts, Zenon
  <2> HIDE DEF l
  <2>5. \A j \in 1 .. Len(l) : j < i \/ j >= i
    BY <2>1
  <2>6. ListRight(tm.now, tm.ts, tm.left, l) /\ Expired(tm.left, l)
    BY <1>0, <2>2, <2>3, <2>5, Zenon DEF ListRight, Expired
  <2>7. TimersRight(tm.now, tm.timeouts, l, tm.ts, tm.left)
    BY <1>0, <2>6 DEF TimersRight
  <2> QED
    BY <2>1, <2>4, <2>7, TimerParts, TimersNew
<1> QED
  BY <1>1, <1>2 DEF util_timeout_disarm

\* util_timeout_poll moves what has expired and takes some of it.
LEMMA PollTimersStep ==
  ASSUME TimersInv, util_timeout_poll
  PROVE  TimersInv'
<1>1. PICK n \in 0 .. Len(tm.timeouts) :
           LET list == SubSeq(tm.timeouts, n + 1, Len(tm.timeouts))
               due  == tm.due \o SubSeq(tm.timeouts, 1, n)
           IN  /\ list \in Seq(Timers) /\ due \in Seq(Timers)
               /\ move_due_timeouts(tm) = [now |-> tm.now, timeouts |-> list, due |-> due,
                                           ts |-> tm.ts, left |-> tm.left]
               /\ TimersRight(tm.now, list, due, tm.ts, tm.left)
               /\ Range(list) \cup Range(due) \subseteq Armed
  BY DueMoved, Zenon
<1> DEFINE list == SubSeq(tm.timeouts, n + 1, Len(tm.timeouts))
           due  == tm.due \o SubSeq(tm.timeouts, 1, n)
           s    == move_due_timeouts(tm)
           due2 == SubSeq(due, MaxTimeouts + 1, Len(due))
<1>2. /\ list \in Seq(Timers) /\ due \in Seq(Timers)
      /\ s = [now |-> tm.now, timeouts |-> list, due |-> due, ts |-> tm.ts, left |-> tm.left]
      /\ TimersRight(tm.now, list, due, tm.ts, tm.left)
  BY <1>1
<1>3. tm' = [s EXCEPT !.due = SubSeq(@, MaxTimeouts + 1, Len(@))]
  BY Zenon DEF util_timeout_poll
<1> HIDE DEF list, due, s
<1>4. tm' = [now |-> tm.now, timeouts |-> list, due |-> due2, ts |-> tm.ts, left |-> tm.left]
  BY <1>2, <1>3, Zenon
<1>5. due2 \in Seq(Timers) /\ \A j \in 1 .. Len(due2) : \E k \in 1 .. Len(due) : due2[j] = due[k]
  <2>1. CASE MaxTimeouts <= Len(due)
    <3>1. MaxTimeouts \in 0 .. Len(due)
      BY <1>2, <2>1
    <3>2. /\ due2 \in Seq(Timers)
          /\ \A j \in 1 .. Len(due2) : due2[j] = due[MaxTimeouts + j] /\ MaxTimeouts + j \in 1 .. Len(due)
      BY <1>2, <3>1, EndOf
    <3> QED
      BY <3>2
  <2>2. CASE ~(MaxTimeouts <= Len(due))
    <3>1. due2 = << >>
      BY <1>2, <2>2
    <3> HIDE DEF due2
    <3>2. due2 \in Seq(Timers) /\ Len(due2) = 0
      BY <3>1
    <3> QED
      BY <3>2
  <2> QED
    BY <2>1, <2>2
<1> HIDE DEF due2
<1>6. TimersRight(tm.now, list, due2, tm.ts, tm.left)
  BY <1>2, <1>5 DEF TimersRight, ListRight, Expired
<1> QED
  BY <1>2, <1>4, <1>5, <1>6, TimerParts, TimersNew

\* The time that passes moves the clock and what every timeout has left alike.
LEMMA ClockMoves ==
  ASSUME NEW now \in Stamps, NEW l \in Int, -Middle < l, l < Middle, -Middle < l - 1
  PROVE  (now + l) % TsMod = (((now + 1) % TsMod) + (l - 1)) % TsMod
<1>0. Middle \in Nat \ {0} /\ TsMod \in Nat \ {0} /\ TsMod = 2 * Middle /\ now \in 0 .. TsMod - 1
  BY DEF Stamps
<1>1. CASE now + 1 < TsMod
  <2>1. (now + 1) % TsMod = now + 1
    BY <1>0, <1>1
  <2>2. now + l = (now + 1) + (l - 1)
    BY <1>0
  <2> QED
    BY <2>1, <2>2
<1>2. CASE now + 1 = TsMod
  <2>1. (now + 1) % TsMod = 0
    BY <1>0, <1>2
  <2> DEFINE x == now + l
             y == 0 + (l - 1)
  <2>2. x \in Int /\ y \in Int /\ x = y + TsMod /\ -TsMod <= x /\ x < 2 * TsMod /\ -TsMod <= y /\ y < TsMod /\ y < 2 * TsMod
    BY <1>0, <1>2
  <2>3. ((now + 1) % TsMod) + (l - 1) = y
    BY <2>1
  <2> HIDE DEF x, y
  <2>4. x % TsMod = IF x < 0 THEN x + TsMod ELSE IF x >= TsMod THEN x - TsMod ELSE x
    BY ONLY <1>0, <2>2, TsWraps, Zenon
  <2>5. y % TsMod = IF y < 0 THEN y + TsMod ELSE IF y >= TsMod THEN y - TsMod ELSE y
    BY ONLY <1>0, <2>2, TsWraps, Zenon
  <2>6. x % TsMod = y % TsMod
    BY <1>0, <2>2, <2>4, <2>5
  <2> QED
    BY <2>3, <2>6 DEF x
<1> QED
  BY <1>0, <1>1, <1>2

\* The clock goes on for every armed timeout alike.
LEMMA TickStep ==
  ASSUME TimersInv, Tick
  PROVE  TimersInv'
<1> DEFINE now2 == (tm.now + 1) % TsMod
           left2 == [t \in Timers |-> IF t \in Armed THEN tm.left[t] - 1 ELSE 0]
<1>1. /\ \A t \in Armed : tm.left[t] - 1 >= -MaxLate
      /\ tm' = [tm EXCEPT !.now = now2, !.left = left2]
  BY Zenon DEF Tick
<1>2. now2 \in Stamps
  BY TimerParts DEF Stamps
<1>3. left2 \in [Timers -> Int] /\ \A t \in Timers : t \in Armed => left2[t] = tm.left[t] - 1
  BY TimerParts
<1> HIDE DEF left2
<1>4. tm' = [now |-> now2, timeouts |-> tm.timeouts, due |-> tm.due, ts |-> tm.ts, left |-> left2]
  <2> HIDE DEF now2
  <2> QED
    BY <1>1, TimerParts, Zenon
<1>5. /\ \A i \in 1 .. Len(tm.timeouts) : tm.timeouts[i] \in Armed /\ tm.timeouts[i] \in Timers
      /\ \A i \in 1 .. Len(tm.due) : tm.due[i] \in Armed /\ tm.due[i] \in Timers
  BY TimerParts DEF Armed, Range
<1>6. ASSUME NEW t \in Timers, t \in Armed, TimerRight(tm.now, tm.ts, tm.left, t)
      PROVE  TimerRight(now2, tm.ts, left2, t)
  <2> DEFINE l == tm.left[t]
  <2>1. l \in Int /\ -MaxLate <= l - 1 /\ l < Middle /\ tm.ts[t] = (tm.now + l) % TsMod
    BY <1>1, <1>6, TimerParts DEF TimerRight
  <2>2. left2[t] = l - 1
    BY <1>3, <1>6
  <2> HIDE DEF l
  <2>3. -Middle < l /\ -Middle < l - 1 /\ l - 1 < Middle
    BY <2>1
  <2>4. (tm.now + l) % TsMod = (now2 + (l - 1)) % TsMod
    BY <2>1, <2>3, TimerParts, ClockMoves
  <2> QED
    BY <2>1, <2>2, <2>3, <2>4 DEF TimerRight
<1>7. /\ ListRight(tm.now, tm.ts, tm.left, tm.timeouts) /\ ListRight(tm.now, tm.ts, tm.left, tm.due)
      /\ InOrder(tm.left, tm.timeouts) /\ Expired(tm.left, tm.due)
  BY DEF TimersInv, TimersRight
<1> HIDE DEF now2
<1>8. ListRight(now2, tm.ts, left2, tm.timeouts) /\ ListRight(now2, tm.ts, left2, tm.due)
  BY <1>5, <1>6, <1>7 DEF ListRight
<1>9. /\ \A i \in 1 .. Len(tm.timeouts) : left2[tm.timeouts[i]] = tm.left[tm.timeouts[i]] - 1
                                         /\ tm.left[tm.timeouts[i]] \in Int
      /\ \A i \in 1 .. Len(tm.due) : left2[tm.due[i]] = tm.left[tm.due[i]] - 1 /\ tm.left[tm.due[i]] \in Int
  <2>1. \A t \in Timers : t \in Armed => left2[t] = tm.left[t] - 1 /\ tm.left[t] \in Int
    BY <1>3, TimerParts
  <2> QED
    BY <1>5, <2>1, Zenon
<1>10. InOrder(left2, tm.timeouts)
  <2> SUFFICES ASSUME NEW i \in 1 .. Len(tm.timeouts), NEW j \in 1 .. Len(tm.timeouts), i < j
               PROVE  left2[tm.timeouts[i]] <= left2[tm.timeouts[j]]
    BY DEF InOrder
  <2>1. tm.left[tm.timeouts[i]] <= tm.left[tm.timeouts[j]]
    BY <1>7 DEF InOrder
  <2> QED
    BY <1>9, <2>1
<1>11. Expired(left2, tm.due)
  BY <1>7, <1>9 DEF Expired
<1>12. TimersRight(now2, tm.timeouts, tm.due, tm.ts, left2)
  BY <1>8, <1>10, <1>11 DEF TimersRight
<1> QED
  BY <1>2, <1>3, <1>4, <1>12, TimerParts, TimersNew

\* No timeout is armed at first.
LEMMA InitTimers ==
  ASSUME tm \in TimeoutsStart
  PROVE  TimersInv
<1>1. tm = [now |-> 0, timeouts |-> << >>, due |-> << >>, ts |-> [t \in Timers |-> 0], left |-> [t \in Timers |-> 0]]
  BY DEF TimeoutsStart
<1>2. 0 \in Stamps
  BY DEF Stamps
<1>3. tm \in TimerRec
  BY <1>1, <1>2 DEF TimerRec
<1>4. tm.timeouts = << >> /\ tm.due = << >>
  BY <1>1
<1>5. TimersRight(tm.now, tm.timeouts, tm.due, tm.ts, tm.left)
  BY <1>4 DEF TimersRight, ListRight, InOrder, Expired
<1> QED
  BY <1>3, <1>5 DEF TimersInv

\* Every step of the timeout manager keeps the invariant.
LEMMA NextTimers ==
  ASSUME TimersInv, [TimeoutsNext]_tm
  PROVE  TimersInv'
<1>1. CASE UNCHANGED tm
  BY <1>1 DEF TimersInv
<1>2. ASSUME NEW t \in Timers, NEW us \in 1 .. Middle - 1, util_timeout_arm(t, us) PROVE TimersInv'
  BY <1>2, ArmStep
<1>3. ASSUME NEW t \in Timers, util_timeout_disarm(t) PROVE TimersInv'
  BY <1>3, DisarmStep
<1>4. CASE util_timeout_poll
  BY <1>4, PollTimersStep
<1>5. CASE Tick
  BY <1>5, TickStep
<1> QED
  BY <1>1, <1>2, <1>3, <1>4, <1>5 DEF TimeoutsNext

\* What the invariant says of util_timeout_next.
LEMMA NextIsEarliest ==
  ASSUME TimersInv, Armed # {}
  PROVE  util_timeout_next = Max({0, Min({tm.left[t] : t \in Armed})})
<1> DEFINE E == {tm.left[t] : t \in Armed}
<1>0. /\ ListRight(tm.now, tm.ts, tm.left, tm.timeouts) /\ ListRight(tm.now, tm.ts, tm.left, tm.due)
      /\ InOrder(tm.left, tm.timeouts) /\ Expired(tm.left, tm.due)
  BY DEF TimersInv, TimersRight
<1>1. /\ \A x \in Range(tm.timeouts) : \E i \in 1 .. Len(tm.timeouts) : x = tm.timeouts[i]
      /\ \A x \in Range(tm.due) : \E i \in 1 .. Len(tm.due) : x = tm.due[i]
  <2>1. DOMAIN tm.timeouts = 1 .. Len(tm.timeouts) /\ DOMAIN tm.due = 1 .. Len(tm.due)
    BY TimerParts
  <2> QED
    BY <2>1 DEF Range
<1>2. /\ \A i \in 1 .. Len(tm.timeouts) : tm.timeouts[i] \in Timers /\ tm.timeouts[i] \in Armed
      /\ \A i \in 1 .. Len(tm.due) : tm.due[i] \in Timers /\ tm.due[i] \in Armed
  BY TimerParts DEF Armed, Range
<1>3. \A t \in Armed : tm.left[t] \in Int /\ -MaxLate <= tm.left[t]
  <2>1. \A t \in Armed : t \in Range(tm.timeouts) \/ t \in Range(tm.due)
    BY DEF Armed
  <2>2. \A i \in 1 .. Len(tm.timeouts) : tm.left[tm.timeouts[i]] \in Int /\ -MaxLate <= tm.left[tm.timeouts[i]]
    BY <1>0, <1>2, TimerParts DEF ListRight, TimerRight
  <2>3. \A i \in 1 .. Len(tm.due) : tm.left[tm.due[i]] \in Int /\ -MaxLate <= tm.left[tm.due[i]]
    BY <1>0, <1>2, TimerParts DEF ListRight, TimerRight
  <2> QED
    BY <1>1, <2>1, <2>2, <2>3
<1>4. E \in SUBSET Int /\ E # {} /\ MaxLate \in Nat /\ \A y \in E : -MaxLate <= y
  BY <1>3
<1>5. Min(E) \in E /\ (\A y \in E : Min(E) <= y) /\ Min(E) \in Int
  BY <1>4, LeastFrom, Zenon
<1>6. \A t \in Armed : tm.left[t] \in E
  OBVIOUS
<1>7. Max({0, Min(E)}) = IF 0 >= Min(E) THEN 0 ELSE Min(E)
  BY <1>5, MaxOfTwo
<1>8. CASE tm.due # << >>
  <2>1. 1 \in 1 .. Len(tm.due)
    BY <1>8, TimerParts
  <2>2. tm.left[tm.due[1]] <= 0 /\ tm.left[tm.due[1]] \in E
    BY <1>0, <1>2, <1>6, <2>1 DEF Expired
  <2>3. util_timeout_next = 0
    BY <1>8 DEF util_timeout_next
  <2> HIDE DEF E
  <2>4. Min(E) <= tm.left[tm.due[1]] /\ tm.left[tm.due[1]] \in Int
    BY <1>4, <1>5, <2>2
  <2>5. 0 >= Min(E)
    BY <1>5, <2>2, <2>4
  <2> QED
    BY <1>7, <2>3, <2>5 DEF E
<1>9. CASE tm.due = << >>
  <2>1. Range(tm.due) = {}
    BY <1>9 DEF Range
  <2>2. tm.timeouts # << >>
    <3> SUFFICES ASSUME tm.timeouts = << >> PROVE FALSE
      OBVIOUS
    <3>1. Range(tm.timeouts) = {}
      BY DEF Range
    <3> QED
      BY <2>1, <3>1 DEF Armed
  <2>3. 1 \in 1 .. Len(tm.timeouts)
    BY <2>2, TimerParts
  <2> DEFINE m == tm.left[tm.timeouts[1]]
  <2>4. rel_time(tm.now, tm.ts[tm.timeouts[1]]) = m /\ m \in Int
    BY <1>0, <1>2, <2>3, TimerParts, RelTimeLeft, Zenon DEF ListRight
  <2>5. \A t \in Armed : m <= tm.left[t]
    <3> SUFFICES ASSUME NEW t \in Armed PROVE m <= tm.left[t]
      OBVIOUS
    <3>1. PICK i \in 1 .. Len(tm.timeouts) : t = tm.timeouts[i]
      BY <1>1, <2>1 DEF Armed
    <3>2. CASE i = 1
      BY <2>4, <3>1, <3>2
    <3>3. CASE i # 1
      <4>1. 1 < i
        BY <3>3
      <4> QED
        BY <1>0, <2>3, <3>1, <4>1 DEF InOrder
    <3> QED
      BY <3>2, <3>3
  <2>6. m \in E
    BY <1>2, <2>3
  <2>7. Min(E) = m
    <3>1. Min(E) <= m
      BY <1>5, <2>6
    <3>2. m <= Min(E)
      BY <1>5, <2>5
    <3> HIDE DEF E, m
    <3> QED
      BY <1>5, <2>4, <3>1, <3>2
  <2>8. util_timeout_next = Max({0, m})
    BY <1>9, <2>2, <2>4 DEF util_timeout_next
  <2> QED
    BY <2>7, <2>8
<1> QED
  BY <1>8, <1>9

\* The timeout manager keeps time across the wrap of its clock, for any width of the
\* timestamps, any number of timeouts and any number that a poll handles: the list is
\* in the order in which its timeouts expire, nothing is found due before its time and
\* util_timeout_next is the time to the earliest.
THEOREM TimersAlwaysExact == TimeoutsSpec => []TimersExact
<1>1. ASSUME tm \in TimeoutsStart PROVE TimersInv
  BY <1>1, InitTimers
<1>2. ASSUME TimersInv, [TimeoutsNext]_tm PROVE TimersInv'
  BY <1>2, NextTimers
<1>3. ASSUME TimersInv PROVE TimersExact
  <2>1. \A i, j \in 1 .. Len(tm.timeouts) : i < j => tm.left[tm.timeouts[i]] <= tm.left[tm.timeouts[j]]
    BY <1>3 DEF TimersInv, TimersRight, InOrder
  <2>2. \A t \in Range(tm.due) : tm.left[t] <= 0
    <3>1. \A x \in Range(tm.due) : \E i \in 1 .. Len(tm.due) : x = tm.due[i]
      BY <1>3, TimerParts DEF Range
    <3> QED
      BY <1>3, <3>1 DEF TimersInv, TimersRight, Expired
  <2>3. Armed # {} => util_timeout_next = Max({0, Min({tm.left[t] : t \in Armed})})
    BY <1>3, NextIsEarliest
  <2> QED
    BY <2>1, <2>2, <2>3, Zenon DEF TimersExact
<1> QED
  BY <1>1, <1>2, <1>3, PTL DEF TimeoutsSpec

HIDE TimeoutsAssumption
-------------------------------------------------------------------------------
(* cc.c *)
\* The greatest of three numbers is none of the lower ones.
LEMMA MaxOfThree ==
  ASSUME NEW a \in Int, NEW b \in Int, NEW c \in Int
  PROVE  /\ Max({a, b, c}) \in Int
         /\ Max({a, b, c}) >= a /\ Max({a, b, c}) >= b /\ Max({a, b, c}) >= c
<1> DEFINE m == IF a >= b THEN (IF a >= c THEN a ELSE c) ELSE (IF b >= c THEN b ELSE c)
<1>1. m \in {a, b, c} /\ \A y \in {a, b, c} : m >= y
  OBVIOUS
<1>2. Max({a, b, c}) \in {a, b, c} /\ \A y \in {a, b, c} : Max({a, b, c}) >= y
  BY <1>1, Zenon DEF Max
<1> QED
  BY <1>2

\* Products and quotients of natural numbers.
LEMMA ProductNat ==
  ASSUME NEW a \in Nat, NEW b \in Nat
  PROVE  a * b \in Nat
OBVIOUS

\* A quotient of natural numbers is one.
LEMMA QuotientNat ==
  ASSUME NEW a \in Nat, NEW d \in Nat \ {0}
  PROVE  a \div d \in Nat
OBVIOUS

\* A quotient is at most, or at least, what the product says.
LEMMA QuotientAtMost ==
  ASSUME NEW a \in Int, NEW b \in Int, NEW d \in Nat \ {0}, a <= b * d
  PROVE  a \div d \in Int /\ a \div d <= b
OBVIOUS

\* It is positive when the divisor is no larger.
LEMMA QuotientPositive ==
  ASSUME NEW a \in Nat, NEW d \in Nat \ {0}, a >= d
  PROVE  a \div d \in Nat /\ a \div d > 0
OBVIOUS

\* A product grows with its factor.
LEMMA ProductGrows ==
  ASSUME NEW a \in Nat, NEW b \in Nat, NEW d \in Nat, a <= b
  PROVE  a * d <= b * d
OBVIOUS
-------------------------------------------------------------------------------
\* What the configuration may say: numbers, and the algorithms there are.
CcConfig ==
  /\ Algorithms \subseteq {"dctcp_win", "dctcp_rate", "timely", "const_rate"}
  /\ RateMod \in Nat /\ RateMod >= 2 /\ TxBuf \in Nat /\ MaxCount \in Nat
  /\ DctcpWeight \in 0 .. One /\ DctcpStep \in Nat /\ DctcpMimd \in Nat
  /\ TimelyTlow \in Nat /\ TimelyThigh \in Nat /\ TimelyStep \in Nat
  /\ TimelyAlpha \in Nat /\ TimelyBeta \in Nat /\ TimelyMinRtt \in Nat \ {0}
  /\ UsedRates \subseteq Nat /\ Rtts \subseteq Nat /\ ConstRate \in Nat

\* No algorithm starts at rate 0 or may go down to it, and no RTT is so long that
\* one segment per RTT rounds to 0.
PositiveRates ==
  /\ DctcpMin > 0 /\ DctcpInit \in Nat \ {0} /\ TimelyMinRate \in Nat \ {0} /\ TimelyInit \in Nat \ {0}
  /\ RttInit <= Mss * One /\ \A rtt \in Rtts : rtt <= Mss * One

Counted == [ecnb : Nat, acks : Nat, ackb : Nat, drops : Nat]
CcState ==
  [alg : {"dctcp_win", "dctcp_rate", "timely", "const_rate"}, slowstart : BOOLEAN, ecn_rate : Nat,
   act : Nat, window : Nat, rate : Nat, unproc : Counted, rtt_prev : Nat, rtt_diff : Int,
   hai_cnt : Nat, rexmits : Nat, cnt_tx_pending : Nat, marked : BOOLEAN, raised : BOOLEAN,
   idle : Nat, hasty : BOOLEAN]

\* What an update of any algorithm leaves alone.
Untouched(c, u) ==
  /\ u.alg = c.alg /\ u.cnt_tx_pending = c.cnt_tx_pending /\ u.idle = c.idle /\ u.hasty = c.hasty

\* An update of a rate leaves the window alone.
RateIs(c, u, rate) == u.window = c.window /\ u.rate = rate

USE CongestionControlAssumption

\* The fields of the statistics.
LEMMA StatsTyped ==
  ASSUME CcConfig, NEW st \in Stats
  PROVE  /\ st.drops \in Nat /\ st.acks \in Nat /\ st.ackb \in Nat /\ st.ecnb \in Nat
         /\ st.rate \in Nat /\ st.rtt \in Nat /\ st.rtt \in Rtts /\ st.txp \in BOOLEAN
<1>1. /\ st.drops \in 0 .. 1 /\ st.acks \in 0 .. 1 /\ st.ackb \in 0 .. MaxCount
      /\ st.ecnb \in 0 .. MaxCount /\ st.rate \in UsedRates /\ st.rtt \in Rtts /\ st.txp \in BOOLEAN
  BY Zenon DEF Stats
<1>2. /\ st.drops \in Nat /\ st.acks \in Nat /\ st.ackb \in Nat /\ st.ecnb \in Nat
  BY <1>1 DEF CcConfig
<1>3. (\A r \in UsedRates : r \in Nat) /\ (\A r \in Rtts : r \in Nat)
  BY DEF CcConfig
<1> QED
  BY <1>1, <1>2, <1>3, Zenon

\* The marked fraction stays a fraction that is not negative, and what it takes off
\* is not negative.
LEMMA EwmaNat ==
  ASSUME CcConfig, NEW c \in CcState, NEW ecnb \in Nat, NEW ackb \in Nat
  PROVE  Ewma(c, ecnb, ackb) \in Nat
<1>1. c.ecn_rate \in Nat /\ DctcpWeight \in Nat /\ One - DctcpWeight \in Nat /\ One \in Nat \ {0}
  BY DEF CcState, CcConfig
<1>2. CASE ackb = 0
  BY <1>1, <1>2 DEF Ewma
<1>3. CASE ackb # 0
  <2> DEFINE m == Min({ecnb, ackb})
             f == (m * One) \div ackb
             a == f * DctcpWeight
             b == c.ecn_rate * (One - DctcpWeight)
  <2>1. m \in Nat
    BY MinOfTwo
  <2> HIDE DEF m
  <2>2. f \in Nat
    BY <1>1, <1>3, <2>1, ProductNat, QuotientNat
  <2> HIDE DEF f
  <2>3. a \in Nat /\ b \in Nat
    BY <1>1, <2>2, ProductNat
  <2>4. Ewma(c, ecnb, ackb) = (a + b) \div One
    BY <1>3 DEF Ewma, f, m
  <2> HIDE DEF a, b
  <2> QED
    BY <1>1, <2>3, <2>4, QuotientNat
<1> QED
  BY <1>2, <1>3

\* What dctcp takes off for the marked fraction never makes a rate or a window larger.
LEMMA ReducedLess ==
  ASSUME NEW x \in Nat, NEW e \in Nat
  PROVE  Reduced(x, e) \in Int /\ Reduced(x, e) <= x
<1> DEFINE f == One - e \div 2
<1>1. f \in Int /\ f <= One
  OBVIOUS
<1> HIDE DEF f
<1>2. x * f \in Int /\ x * f <= x * One
  BY <1>1
<1> DEFINE p == x * f
<1>3. Reduced(x, e) = p \div One
  BY DEF Reduced, f
<1>4. p \in Int /\ p <= x * One
  BY <1>2
<1> HIDE DEF p
<1> QED
  BY <1>3, <1>4, QuotientAtMost

\* One window per RTT is a rate above 0.
LEMMA WindowRate ==
  ASSUME CcConfig, PositiveRates, NEW w \in Nat, w >= Mss, NEW rtt \in Nat \ {0}, rtt <= Mss * One
  PROVE  window_to_rate(w, rtt) \in Nat /\ window_to_rate(w, rtt) > 0
<1>1. Mss * One <= w * One /\ w * One \in Nat /\ Mss * One \in Nat
  BY ProductGrows, ProductNat
<1> DEFINE b == w * One
           q == b \div rtt
<1>2. b \in Nat /\ b >= rtt
  BY <1>1
<1> HIDE DEF b
<1>3. q \in Nat /\ q > 0
  BY <1>2, QuotientPositive
<1>4. window_to_rate(w, rtt) = Min({RateMod - 1, q})
  BY DEF window_to_rate, b
<1> HIDE DEF q
<1>5. RateMod - 1 \in Nat /\ RateMod - 1 > 0
  BY DEF CcConfig
<1> QED
  BY <1>3, <1>4, <1>5, MinOfTwo

\* A record of the type stays one when some of its fields are set.
WindowSet(c, ss, ec, w, r) ==
  [c EXCEPT !.slowstart = ss, !.ecn_rate = ec, !.window = w, !.rate = r, !.rexmits = 0, !.marked = FALSE]

\* dctcp_win_update leaves the state well formed and settles the marks and retransmits.
LEMMA SetWindow ==
  ASSUME NEW old \in CcState, NEW slow \in BOOLEAN, NEW ecn \in Nat, NEW win \in Nat, NEW rate \in Nat,
         NEW new, new = WindowSet(old, slow, ecn, win, rate)
  PROVE  /\ new \in CcState /\ new.window = win /\ new.rate = rate /\ ~new.marked /\ new.rexmits = 0
         /\ Untouched(old, new)
<1>1. new \in CcState
  BY Zenon DEF CcState, WindowSet
<1>2. new.window = win /\ new.rate = rate /\ new.rexmits = 0 /\ Untouched(old, new)
  BY DEF CcState, Untouched, WindowSet
<1>3. ~new.marked
  BY DEF CcState, WindowSet
<1> QED
  BY <1>1, <1>2, <1>3

\* dctcp_win_update: the window keeps its minimum and the rate is above 0; a drop, a
\* mark or a retransmission keeps the window from growing.
LEMMA WinUpdate ==
  ASSUME CcConfig, PositiveRates, NEW c \in CcState, NEW st \in Stats, c.window >= Mss
  PROVE  LET u == dctcp_win_update(c, st)
         IN  /\ u \in CcState /\ Untouched(c, u) /\ u.window >= Mss /\ u.rate > 0 /\ ~u.marked
             /\ u.rexmits = 0
             /\ (Congested(c, st) => u.window <= c.window)
<1> DEFINE ss  == c.slowstart /\ ~Congested(c, st)
           e   == Ewma(c, st.ecnb, st.ackb)
           cut == st.drops > 0 \/ c.rexmits > 0
           up  == (st.ackb * Mss) \div c.window
           red == Reduced(c.window, e)
           win == IF ss THEN c.window + st.ackb
                  ELSE IF cut THEN c.window \div 2
                  ELSE IF st.ecnb > 0 THEN red
                  ELSE c.window + up
           hi  == Max({Mss, win})
           w   == Min({TxBuf, hi})
           ec  == IF ss \/ cut THEN c.ecn_rate ELSE e
           u   == dctcp_win_update(c, st)
<1>1. /\ st.drops \in Nat /\ st.ackb \in Nat /\ st.ecnb \in Nat /\ st.rtt \in Nat /\ st.rtt \in Rtts
  BY StatsTyped
<1>2. c.window \in Nat /\ c.rexmits \in Nat /\ c.ecn_rate \in Nat /\ c.window > 0
  <2>1. c.window \in Nat /\ c.rexmits \in Nat /\ c.ecn_rate \in Nat
    BY DEF CcState
  <2> QED
    BY <2>1
<1>3. e \in Nat
  BY <1>1, EwmaNat, Zenon
<1>4. u = [c EXCEPT !.slowstart = ss, !.ecn_rate = ec, !.window = w,
                    !.rate = window_to_rate(w, Rtt(st)), !.rexmits = 0, !.marked = FALSE]
  BY DEF dctcp_win_update
<1> HIDE DEF e
<1>5. red \in Int /\ red <= c.window
  BY <1>2, <1>3, ReducedLess
<1>6. up \in Nat
  BY <1>1, <1>2, ProductNat, QuotientNat
<1> HIDE DEF red, up
<1>7. Congested(c, st) <=> st.drops > 0 \/ st.ecnb > 0 \/ c.rexmits > 0
  BY DEF Congested
<1>8. win \in Int /\ (Congested(c, st) => win <= c.window)
  <2> HIDE DEF ss, cut
  <2>1. Congested(c, st) => ~ss /\ (cut \/ st.ecnb > 0)
    BY <1>7, Zenon DEF ss, cut
  <2>2. win \in Int
    BY <1>1, <1>2, <1>5, <1>6
  <2>3. ASSUME Congested(c, st) PROVE win <= c.window
    <3>1. CASE cut
      BY <1>2, <2>1, <2>3, <3>1
    <3>2. CASE ~cut
      BY <1>5, <2>1, <2>3, <3>2
    <3> QED
      BY <3>1, <3>2
  <2> QED
    BY <2>2, <2>3
<1> HIDE DEF win
<1>9. hi = IF Mss >= win THEN Mss ELSE win
  BY <1>8, MaxOfTwo
<1> HIDE DEF hi
<1>10. hi \in Nat /\ hi >= Mss /\ (Congested(c, st) => hi <= c.window)
  BY <1>2, <1>8, <1>9
<1>11. w = IF TxBuf <= hi THEN TxBuf ELSE hi
  BY <1>10, MinOfTwo DEF CcConfig
<1> HIDE DEF w
<1>12. w \in Nat /\ w >= Mss /\ (Congested(c, st) => w <= c.window)
  BY <1>2, <1>10, <1>11 DEF CcConfig
<1>13. Rtt(st) \in Nat \ {0} /\ Rtt(st) <= Mss * One
  BY <1>1 DEF Rtt, PositiveRates
<1> DEFINE r == window_to_rate(w, Rtt(st))
<1>14. r \in Nat /\ r > 0
  BY <1>12, <1>13, WindowRate
<1>15. ec \in Nat /\ ss \in BOOLEAN
  BY <1>2, <1>3
<1> HIDE DEF ss, ec, r
<1>16. u = WindowSet(c, ss, ec, w, r)
  BY <1>4, Zenon DEF r, WindowSet
<1> HIDE DEF u
<1>17. w \in Nat /\ r \in Nat /\ ec \in Nat
  BY <1>12, <1>14, <1>15
<1>18. PICK slow \in BOOLEAN : u = WindowSet(c, slow, ec, w, r)
  BY <1>15, <1>16, Zenon
<1>19. u \in CcState /\ u.window = w /\ u.rate = r
  BY ONLY c \in CcState, slow \in BOOLEAN, <1>17, <1>18, SetWindow
<1>20. u.rexmits = 0 /\ Untouched(c, u)
  BY ONLY c \in CcState, slow \in BOOLEAN, <1>17, <1>18, SetWindow
<1>21. ~u.marked
  BY ONLY c \in CcState, slow \in BOOLEAN, <1>17, <1>18, SetWindow
<1>22. u.window >= Mss /\ u.rate > 0 /\ (Congested(c, st) => u.window <= c.window)
  BY <1>12, <1>14, <1>19
<1> QED
  BY <1>19, <1>20, <1>21, <1>22, Zenon DEF u

\* What the flow used, and the rate held to it.
LEMMA UsedRate ==
  ASSUME CcConfig, NEW c \in CcState, NEW rate \in Nat
  PROVE  /\ Used(c, rate)[1] \in Nat /\ Used(c, rate)[2] \in Nat
         /\ ClampUsed(c.rate, Used(c, rate)[2]) \in Nat
         /\ ClampUsed(c.rate, Used(c, rate)[2]) <= c.rate
<1> DEFINE avg == (7 * c.act + rate) \div 8
<1>1. c.act \in Nat /\ c.rate \in Nat
  BY DEF CcState
<1>2. avg \in Nat
  BY <1>1
<1>3. Used(c, rate) = <<avg, Max({rate, avg})>>
  BY DEF Used
<1> HIDE DEF avg
<1> DEFINE m == Max({rate, avg})
<1>4. m \in Nat
  BY <1>2, MaxOfTwo
<1> HIDE DEF m
<1>5. Used(c, rate)[1] = avg /\ Used(c, rate)[2] = m
  BY <1>3 DEF m
<1> DEFINE k == (m * 12) \div 10
<1>6. k \in Nat
  BY <1>4
<1>7. ClampUsed(c.rate, m) = Min({c.rate, k})
  BY DEF ClampUsed
<1> HIDE DEF k
<1>8. ClampUsed(c.rate, m) \in Nat /\ ClampUsed(c.rate, m) <= c.rate
  BY <1>1, <1>6, <1>7, MinOfTwo
<1> QED
  BY <1>2, <1>4, <1>5, <1>8

\* The fields that the update of a rate sets.
RateSet(c, act, ss, ec, r) ==
  [c EXCEPT !.unproc = NoneUnprocessed, !.act = act, !.slowstart = ss, !.ecn_rate = ec,
            !.rate = r, !.rexmits = 0, !.marked = FALSE]

\* dctcp_rate_update does the same when it computes a rate.
LEMMA SetRate ==
  ASSUME NEW old \in CcState, NEW avg \in Nat, NEW slow \in BOOLEAN, NEW ecn \in Nat, NEW rate \in Nat,
         NEW new, new = RateSet(old, avg, slow, ecn, rate)
  PROVE  /\ new \in CcState /\ new.window = old.window /\ new.rate = rate /\ ~new.marked
         /\ new.rexmits = 0 /\ Untouched(old, new)
<1>1. NoneUnprocessed \in Counted
  BY DEF NoneUnprocessed, Counted
<1>2. new \in CcState
  BY <1>1, Zenon DEF CcState, RateSet
<1>3. new.window = old.window /\ new.rate = rate /\ new.rexmits = 0 /\ Untouched(old, new)
  BY DEF CcState, Untouched, RateSet
<1>4. ~new.marked
  BY DEF CcState, RateSet
<1> QED
  BY <1>2, <1>3, <1>4

\* What was counted since the last computed update.
LEMMA UnprocessedCounted ==
  ASSUME CcConfig, NEW c \in CcState, NEW st \in Stats
  PROVE  /\ Unprocessed(c, st) \in Counted
         /\ Unprocessed(c, st).drops = c.unproc.drops + st.drops
         /\ Unprocessed(c, st).ecnb = c.unproc.ecnb + st.ecnb
         /\ c.unproc.drops \in Nat /\ c.unproc.ecnb \in Nat
<1>1. st.drops \in Nat /\ st.acks \in Nat /\ st.ackb \in Nat /\ st.ecnb \in Nat
  BY StatsTyped
<1>2. c.unproc \in Counted
  BY DEF CcState
<1>3. /\ c.unproc.drops \in Nat /\ c.unproc.ecnb \in Nat /\ c.unproc.acks \in Nat /\ c.unproc.ackb \in Nat
  BY <1>2 DEF Counted
<1> QED
  BY <1>1, <1>3 DEF Unprocessed, Counted

\* dctcp_rate_update when it computes: the new rate is above 0, and after a drop, a
\* mark or a retransmission it is not above the old one, or is the minimum.
LEMMA RateComputed ==
  ASSUME CcConfig, PositiveRates, NEW c \in CcState, NEW st \in Stats,
         ~(Unprocessed(c, st).acks < DctcpMinPkts)
  PROVE  LET u == dctcp_rate_update(c, st)
         IN  /\ u \in CcState /\ Untouched(c, u) /\ u.window = c.window /\ u.rate > 0 /\ ~u.marked
             /\ u.rexmits = 0
             /\ (Congested(c, Unprocessed(c, st)) => u.rate <= Max({c.rate, DctcpMin}))
<1> DEFINE s    == Unprocessed(c, st)
           used == Used(c, st.rate)
           r    == ClampUsed(c.rate, used[2])
           ss   == c.slowstart /\ ~Congested(c, s)
           e    == Ewma(c, s.ecnb, s.ackb)
           cut  == s.drops > 0 \/ c.rexmits > 0
           twice == (2 * r) % RateMod
           red  == Reduced(r, e)
           more == (r + DctcpStep) % RateMod
           mult == (r + (r * DctcpMimd) \div One) % RateMod
           rate == IF ss THEN IF twice >= r THEN twice ELSE RateMod - 1
                   ELSE IF cut THEN r \div 2
                   ELSE IF s.ecnb > 0 THEN red
                   ELSE IF DctcpMimd = 0 THEN more
                   ELSE mult
           ec   == IF ss \/ cut THEN c.ecn_rate ELSE e
           act  == used[1]
           new  == AtLeastMinimum(rate)
           u    == dctcp_rate_update(c, st)
<1>1. st.rate \in Nat
  BY StatsTyped
<1>2. c.rate \in Nat /\ c.rexmits \in Nat /\ c.ecn_rate \in Nat
  BY DEF CcState
<1>3. s.drops \in Nat /\ s.ecnb \in Nat /\ s.ackb \in Nat
  <2>1. s \in Counted
    BY UnprocessedCounted
  <2> HIDE DEF s
  <2> QED
    BY <2>1 DEF Counted
<1>4. u = RateSet(c, act, ss, ec, new)
  <2>1. ~(s.acks < DctcpMinPkts)
    OBVIOUS
  <2> QED
    BY <2>1, Zenon DEF dctcp_rate_update, RateSet
<1>5. act \in Nat /\ r \in Nat /\ r <= c.rate
  BY <1>1, UsedRate
<1>6. Congested(c, s) <=> s.drops > 0 \/ s.ecnb > 0 \/ c.rexmits > 0
  BY DEF Congested
<1> HIDE DEF s, act, r
<1>7. e \in Nat
  BY <1>3, EwmaNat, Zenon
<1> HIDE DEF e
<1>8. red \in Int /\ red <= r
  BY <1>5, <1>7, ReducedLess
<1>9. twice \in Int /\ more \in Int /\ mult \in Int /\ RateMod - 1 \in Int
  <2>1. RateMod \in Nat \ {0} /\ DctcpStep \in Nat /\ DctcpMimd \in Nat
    BY DEF CcConfig
  <2>2. (r * DctcpMimd) \div One \in Nat
    BY <1>5, <2>1, ProductNat, QuotientNat
  <2> DEFINE q == (r * DctcpMimd) \div One
  <2>3. mult = (r + q) % RateMod /\ q \in Nat
    BY <2>2
  <2> HIDE DEF q, mult
  <2> QED
    BY <1>5, <2>1, <2>3
<1> HIDE DEF red, twice, more, mult
<1>10. rate \in Int /\ (Congested(c, s) => rate <= r)
  <2> HIDE DEF ss, cut
  <2>1. Congested(c, s) => ~ss /\ (cut \/ s.ecnb > 0)
    BY <1>6, Zenon DEF ss, cut
  <2>2. rate \in Int
    BY <1>3, <1>5, <1>8, <1>9
  <2>3. ASSUME Congested(c, s) PROVE rate <= r
    <3>1. CASE cut
      BY <1>5, <2>1, <2>3, <3>1
    <3>2. CASE ~cut
      BY <1>8, <2>1, <2>3, <3>2
    <3> QED
      BY <3>1, <3>2
  <2> QED
    BY <2>2, <2>3
<1>11. ec \in Nat /\ ss \in BOOLEAN
  BY <1>2, <1>7
<1> HIDE DEF rate, ss, ec
<1>12. new = IF rate >= DctcpMin THEN rate ELSE DctcpMin
  BY <1>10, MaxOfTwo DEF AtLeastMinimum
<1> HIDE DEF new
<1> DEFINE top == Max({c.rate, DctcpMin})
<1>13. top = IF c.rate >= DctcpMin THEN c.rate ELSE DctcpMin
  BY <1>2, MaxOfTwo
<1> HIDE DEF top
<1>14. new \in Nat /\ new > 0 /\ (Congested(c, s) => new <= top)
  BY <1>2, <1>5, <1>10, <1>12, <1>13 DEF PositiveRates
<1>15. act \in Nat /\ ec \in Nat /\ new \in Nat
  BY <1>5, <1>11, <1>14
<1> HIDE DEF u
<1>16. PICK slow \in BOOLEAN : u = RateSet(c, act, slow, ec, new)
  BY <1>4, <1>11, Zenon
<1>17. u \in CcState /\ u.window = c.window /\ u.rate = new
  BY ONLY c \in CcState, slow \in BOOLEAN, <1>15, <1>16, SetRate
<1>18. u.rexmits = 0 /\ Untouched(c, u)
  BY ONLY c \in CcState, slow \in BOOLEAN, <1>15, <1>16, SetRate
<1>19. ~u.marked
  BY ONLY c \in CcState, slow \in BOOLEAN, <1>15, <1>16, SetRate
<1>20. u.rate > 0 /\ (Congested(c, s) => u.rate <= top)
  BY <1>14, <1>17
<1> QED
  BY <1>17, <1>18, <1>19, <1>20, Zenon DEF u, s, top

\* dctcp_rate_update when it is deferred: what was counted is kept.
LEMMA RateDeferred ==
  ASSUME CcConfig, NEW c \in CcState, NEW st \in Stats, Unprocessed(c, st).acks < DctcpMinPkts
  PROVE  LET u == dctcp_rate_update(c, st)
         IN  /\ u \in CcState /\ Untouched(c, u) /\ u.window = c.window /\ u.rate = c.rate
             /\ (u.marked <=> c.marked) /\ u.rexmits = c.rexmits /\ u.unproc = Unprocessed(c, st)
<1> DEFINE s == Unprocessed(c, st)
           u == dctcp_rate_update(c, st)
<1>1. s \in Counted
  BY UnprocessedCounted
<1>2. u = [c EXCEPT !.unproc = s]
  BY Zenon DEF dctcp_rate_update
<1> HIDE DEF s, u
<1>3. u \in CcState
  BY <1>1, <1>2 DEF CcState
<1>4. u.window = c.window /\ u.rate = c.rate /\ u.rexmits = c.rexmits /\ u.unproc = s /\ Untouched(c, u)
  BY <1>1, <1>2 DEF CcState, Untouched
<1>5. u.marked <=> c.marked
  BY <1>1, <1>2 DEF CcState
<1> QED
  BY <1>3, <1>4, <1>5, Zenon DEF u, s

\* Division towards zero gives an integer.
LEMMA QuotInt ==
  ASSUME NEW a \in Int, NEW d \in Nat \ {0}
  PROVE  Quot(a, d) \in Int
BY DEF Quot

\* The fields that timely_update sets.
TimelySet(c, act, ss, diff, prev, hai, r) ==
  [c EXCEPT !.act = act, !.slowstart = ss, !.rtt_diff = diff, !.rtt_prev = prev,
            !.hai_cnt = hai, !.rate = r, !.rexmits = 0, !.marked = FALSE]

\* timely_update changes the rate and its own fields.
LEMMA SetTimely ==
  ASSUME NEW old \in CcState, NEW avg \in Nat, NEW slow \in BOOLEAN, NEW dd \in Int, NEW pp \in Nat,
         NEW hh \in Nat, NEW rate \in Nat, NEW new, new = TimelySet(old, avg, slow, dd, pp, hh, rate)
  PROVE  new \in CcState /\ RateIs(old, new, rate) /\ Untouched(old, new)
<1>1. new \in CcState
  BY Zenon DEF CcState, TimelySet
<1>2. RateIs(old, new, rate) /\ Untouched(old, new)
  BY DEF CcState, Untouched, TimelySet, RateIs
<1> QED
  BY <1>1, <1>2

\* timely_update never takes the rate below its minimum, whatever the RTTs and
\* their gradient are.
LEMMA TimelyUpdate ==
  ASSUME CcConfig, PositiveRates, NEW c \in CcState, NEW st \in Stats, c.rate > 0
  PROVE  LET u == timely_update(c, st)
         IN  u \in CcState /\ Untouched(c, u) /\ u.window = c.window /\ u.rate > 0
<1> DEFINE u    == timely_update(c, st)
           used == Used(c, st.rate)
           act  == used[1]
           ss   == c.slowstart /\ st.rtt <= (TimelyTlow + TimelyThigh) \div 2
           r    == IF ss THEN c.rate ELSE ClampUsed(c.rate, used[2])
           diff == IF c.rtt_prev = 0 THEN c.rtt_diff
                   ELSE Quot((One - TimelyAlpha) * c.rtt_diff + TimelyAlpha * (st.rtt - c.rtt_prev), One)
           grad == IF c.rtt_prev = 0 THEN 0 ELSE Quot(diff * One, TimelyMinRtt)
           fall == Quot(TimelyBeta * grad, One)
           hai  == c.hai_cnt + 1
           dbl  == (2 * r) % RateMod
           add  == (r + TimelyStep) % RateMod
           over == (r * (One - (TimelyBeta * (One - ((One * TimelyThigh) \div st.rtt))) \div One)) \div One
           five == (r + (IF hai >= 5 THEN 5 ELSE 1) * TimelyStep) % RateMod
           less == (r * Max({0, One - fall})) \div One
           rate == CASE ss -> dbl
                     [] ~ss /\ st.rtt < TimelyTlow -> add
                     [] ~ss /\ st.rtt > TimelyThigh -> over
                     [] ~ss /\ st.rtt \in TimelyTlow .. TimelyThigh /\ grad <= 0 -> five
                     [] OTHER -> less
           gain == ~ss /\ st.rtt \in TimelyTlow .. TimelyThigh /\ grad <= 0
           hh   == IF ss THEN c.hai_cnt ELSE IF gain THEN Min({hai, 4}) ELSE 0
           new  == Max({rate, r \div 2, TimelyMinRate})
<1>1. st.rate \in Nat /\ st.rtt \in Nat
  BY StatsTyped
<1>2. c.rate \in Nat /\ c.hai_cnt \in Nat /\ c.rtt_prev \in Nat /\ c.rtt_diff \in Int
  BY DEF CcState
<1>3. act \in Nat /\ ClampUsed(c.rate, used[2]) \in Nat
  BY <1>1, UsedRate
<1>4. CASE st.rtt = 0
  <2>1. u = [c EXCEPT !.act = act]
    BY <1>4, Zenon DEF timely_update
  <2> HIDE DEF u, act
  <2>2. u \in CcState
    BY <1>3, <2>1 DEF CcState
  <2>3. u.window = c.window /\ u.rate = c.rate /\ Untouched(c, u)
    BY <1>3, <2>1 DEF CcState, Untouched
  <2> QED
    BY <2>2, <2>3 DEF u
<1>5. CASE st.rtt # 0
  <2>1. u = TimelySet(c, act, ss, diff, st.rtt, hh, new)
    BY <1>5, Zenon DEF timely_update, TimelySet
  <2>2. r \in Nat /\ ss \in BOOLEAN
    BY <1>2, <1>3
  <2> HIDE DEF u, act, r
  <2>3. /\ TimelyAlpha \in Nat /\ TimelyBeta \in Nat /\ TimelyStep \in Nat /\ TimelyMinRtt \in Nat \ {0}
        /\ RateMod \in Nat \ {0} /\ TimelyThigh \in Nat /\ TimelyTlow \in Nat
    BY DEF CcConfig
  <2>4. diff \in Int
    <3> DEFINE n == (One - TimelyAlpha) * c.rtt_diff + TimelyAlpha * (st.rtt - c.rtt_prev)
    <3>1. n \in Int
      BY <1>1, <1>2, <2>3
    <3> HIDE DEF n
    <3>2. Quot(n, One) \in Int
      BY <3>1, QuotInt
    <3>3. diff = IF c.rtt_prev = 0 THEN c.rtt_diff ELSE Quot(n, One)
      BY DEF n
    <3> HIDE DEF diff
    <3> QED
      BY <1>2, <3>2, <3>3
  <2> HIDE DEF diff
  <2>5. grad \in Int
    <3>1. diff * One \in Int
      BY <2>4
    <3>2. Quot(diff * One, TimelyMinRtt) \in Int
      BY <2>3, <3>1, QuotInt
    <3> QED
      BY <3>2
  <2> HIDE DEF grad
  <2>6. fall \in Int
    <3>1. TimelyBeta * grad \in Int
      BY <2>3, <2>5
    <3> QED
      BY <3>1, QuotInt
  <2> HIDE DEF fall
  <2>7. dbl \in Int /\ add \in Int
    BY <2>2, <2>3
  <2>8. over \in Int
    <3> DEFINE a == (One * TimelyThigh) \div st.rtt
               b == TimelyBeta * (One - a)
               d == r * (One - b \div One)
    <3>1. a \in Nat
      BY <1>1, <1>5, <2>3, ProductNat, QuotientNat
    <3>2. over = d \div One
      OBVIOUS
    <3> HIDE DEF a, over
    <3>3. b \in Int
      BY <2>3, <3>1
    <3> HIDE DEF b
    <3>4. d \in Int
      BY <2>2, <3>3
    <3> HIDE DEF d
    <3> QED
      BY <3>2, <3>4
  <2>9. five \in Int
    <3> DEFINE k == (IF hai >= 5 THEN 5 ELSE 1) * TimelyStep
    <3>1. k \in Int
      BY <2>3
    <3>2. five = (r + k) % RateMod
      OBVIOUS
    <3> HIDE DEF k, five
    <3> QED
      BY <2>2, <2>3, <3>1, <3>2
  <2>10. less \in Int
    <3> DEFINE m == Max({0, One - fall})
               d == r * m
    <3>1. m \in Int
      BY <2>6, MaxOfTwo
    <3> HIDE DEF m
    <3>2. d \in Int
      BY <2>2, <3>1
    <3>3. less = d \div One
      BY DEF m
    <3> HIDE DEF d, less
    <3> QED
      BY <3>2, <3>3
  <2> HIDE DEF dbl, add, over, five, less
  <2>11. rate \in {dbl, add, over, five, less}
    <3> HIDE DEF ss
    <3> QED
      BY <1>1, <2>3, <2>5
  <2> HIDE DEF rate
  <2>12. rate \in Int
    BY <2>7, <2>8, <2>9, <2>10, <2>11
  <2>13. r \div 2 \in Int /\ TimelyMinRate \in Nat \ {0}
    BY <2>2 DEF PositiveRates
  <2> DEFINE half == r \div 2
  <2> HIDE DEF half
  <2>14. new = Max({rate, half, TimelyMinRate}) /\ half \in Int
    BY <2>13 DEF half
  <2> HIDE DEF new
  <2>15. new \in Nat /\ new > 0
    <3>1. rate \in Int /\ half \in Int /\ TimelyMinRate \in Int
      BY <2>12, <2>13, <2>14
    <3>2. new \in Int /\ new >= TimelyMinRate
      BY ONLY <2>14, <3>1, MaxOfThree, Zenon
    <3> QED
      BY <2>13, <3>2
  <2>16. hh \in Nat
    <3>1. Min({hai, 4}) \in Nat
      BY <1>2, MinOfTwo
    <3> HIDE DEF ss, gain, hai
    <3> QED
      BY <1>2, <3>1
  <2> HIDE DEF hh, ss
  <2> DEFINE prev == st.rtt
  <2>17. act \in Nat /\ diff \in Int /\ prev \in Nat /\ hh \in Nat /\ new \in Nat
    BY <1>1, <1>3, <2>4, <2>15, <2>16
  <2>18. PICK slow \in BOOLEAN : u = TimelySet(c, act, slow, diff, prev, hh, new)
    BY <2>1, <2>2, Zenon
  <2> HIDE DEF prev
  <2>19. u \in CcState /\ Untouched(c, u)
    BY ONLY c \in CcState, slow \in BOOLEAN, <2>17, <2>18, SetTimely
  <2>20. RateIs(c, u, new)
    BY ONLY c \in CcState, slow \in BOOLEAN, <2>17, <2>18, SetTimely
  <2>21. u.window = c.window /\ u.rate > 0
    BY <2>15, <2>20 DEF RateIs
  <2> QED
    BY <2>19, <2>21, Zenon DEF u
<1> QED
  BY <1>4, <1>5

\* const_rate_update leaves window and rate alone.
LEMMA ConstUpdate ==
  ASSUME NEW c \in CcState, NEW st \in Stats
  PROVE  LET u == const_rate_update(c, st)
         IN  u \in CcState /\ Untouched(c, u) /\ u.window = c.window
<1> DEFINE u == const_rate_update(c, st)
<1>1. u \in CcState
  BY Zenon DEF const_rate_update, CcState
<1>2. Untouched(c, u) /\ u.window = c.window
  BY DEF const_rate_update, CcState, Untouched
<1> QED
  BY <1>1, <1>2

\* What issue_retransmits sets, and what it leaves alone.
Issued(u, cnt, rex, mk, idle, hasty) ==
  [u EXCEPT !.cnt_tx_pending = cnt, !.rexmits = rex, !.marked = mk, !.idle = idle, !.hasty = hasty]
IssuedFields(u, v, cnt, rex, idle) ==
  v.cnt_tx_pending = cnt /\ v.rexmits = rex /\ v.idle = idle
IssuedFlags(v, mk, hasty) == (v.marked <=> mk) /\ (v.hasty <=> hasty)
SameRate(u, v) ==
  v.alg = u.alg /\ v.window = u.window /\ v.rate = u.rate /\ v.unproc = u.unproc

\* issue_retransmits changes the counters of retransmits and nothing of the rate.
LEMMA SetIssued ==
  ASSUME NEW old \in CcState, NEW cnt \in Nat, NEW rex \in Nat, NEW mk \in BOOLEAN, NEW idle \in Nat,
         NEW hasty \in BOOLEAN, NEW new, new = Issued(old, cnt, rex, mk, idle, hasty)
  PROVE  /\ new \in CcState /\ IssuedFields(old, new, cnt, rex, idle) /\ SameRate(old, new)
         /\ IssuedFlags(new, mk, hasty)
<1>1. new \in CcState
  BY Zenon DEF CcState, Issued
<1>2. IssuedFields(old, new, cnt, rex, idle) /\ SameRate(old, new)
  BY DEF CcState, Issued, IssuedFields, SameRate
<1>3. IssuedFlags(new, mk, hasty)
  BY DEF CcState, Issued, IssuedFlags
<1> QED
  BY <1>1, <1>2, <1>3

\* issue_retransmits keeps the two counts equal, is never hasty, and marks the
\* connection only with a retransmission counted.
LEMMA IssueStep ==
  ASSUME CcConfig, NEW u \in CcState, NEW st \in Stats, NEW may \in BOOLEAN,
         u.idle = u.cnt_tx_pending, ~u.hasty
  PROVE  LET v == issue_retransmits(u, st, may)
         IN  /\ v \in CcState /\ SameRate(u, v) /\ v.idle = v.cnt_tx_pending /\ ~v.hasty
             /\ (u.rexmits > 0 => v.rexmits > 0) /\ (v.marked => u.marked \/ v.rexmits > 0)
<1> DEFINE v    == issue_retransmits(u, st, may)
           cnt  == Pending(u, st)
           due  == cnt > 1 /\ cnt >= RexmitInts /\ st.txp /\ may
           left == IF due THEN 0 ELSE Min({cnt, RexmitInts + 1})
           idle == IF due \/ ~st.txp \/ st.ackb > 0 THEN 0 ELSE Min({u.idle + 1, RexmitInts + 1})
           more == IF due THEN Min({2, u.rexmits + 1}) ELSE u.rexmits
           mk   == u.marked \/ due
           hst  == u.hasty \/ (due /\ u.idle + 1 < RexmitInts)
<1>1. v = Issued(u, left, more, mk, idle, hst)
  BY Zenon DEF issue_retransmits, Issued
<1>2. st.ackb \in Nat /\ st.txp \in BOOLEAN
  BY StatsTyped
<1>3. u.cnt_tx_pending \in Nat /\ u.rexmits \in Nat
  BY DEF CcState
<1>4. cnt = IF st.txp /\ st.ackb = 0 THEN u.cnt_tx_pending + 1 ELSE 0
  BY DEF Pending
<1>5. /\ left \in Nat /\ idle = left /\ more \in Nat
      /\ (due => more > 0) /\ ~(due /\ u.idle + 1 < RexmitInts) /\ (u.rexmits > 0 => more > 0)
  <2> HIDE DEF cnt
  <2>1. cnt \in Nat /\ Min({cnt, RexmitInts + 1}) = IF cnt <= RexmitInts + 1 THEN cnt ELSE RexmitInts + 1
    BY <1>3, <1>4, MinOfTwo
  <2>2. Min({u.idle + 1, RexmitInts + 1}) =
          IF u.idle + 1 <= RexmitInts + 1 THEN u.idle + 1 ELSE RexmitInts + 1
    BY <1>3, MinOfTwo
  <2>3. Min({2, u.rexmits + 1}) = IF 2 <= u.rexmits + 1 THEN 2 ELSE u.rexmits + 1
    BY <1>3, MinOfTwo
  <2>4. CASE st.txp /\ st.ackb = 0
    BY <1>2, <1>3, <1>4, <2>1, <2>2, <2>3, <2>4
  <2>5. CASE ~(st.txp /\ st.ackb = 0)
    BY <1>2, <1>3, <1>4, <2>1, <2>2, <2>3, <2>5
  <2> QED
    BY <2>4, <2>5
<1>6. mk \in BOOLEAN /\ hst \in BOOLEAN /\ ~hst
  <2>1. u.marked \in BOOLEAN /\ u.hasty \in BOOLEAN
    BY DEF CcState
  <2> QED
    BY <1>5, <2>1, Zenon
<1>7. mk => u.marked \/ more > 0
  BY <1>5, Zenon
<1> HIDE DEF v, left, idle, more, mk, hst
<1>8. left \in Nat /\ idle \in Nat /\ more \in Nat
  BY <1>5
<1>9. PICK m \in BOOLEAN, h \in BOOLEAN : (m <=> mk) /\ (h <=> hst) /\ v = Issued(u, left, more, m, idle, h)
  BY <1>1, <1>6, Zenon
<1>10. v \in CcState /\ SameRate(u, v)
  BY ONLY u \in CcState, m \in BOOLEAN, h \in BOOLEAN, <1>8, <1>9, SetIssued
<1>11. IssuedFields(u, v, left, more, idle)
  BY ONLY u \in CcState, m \in BOOLEAN, h \in BOOLEAN, <1>8, <1>9, SetIssued
<1>12. IssuedFlags(v, m, h)
  BY ONLY u \in CcState, m \in BOOLEAN, h \in BOOLEAN, <1>8, <1>9, SetIssued
<1>13. v.idle = v.cnt_tx_pending /\ (u.rexmits > 0 => v.rexmits > 0)
  BY <1>5, <1>11 DEF IssuedFields
<1>14. v.rexmits = more
  BY <1>11, Zenon DEF IssuedFields
<1> QED
  BY <1>6, <1>7, <1>9, <1>10, <1>12, <1>13, <1>14, Zenon DEF v, IssuedFlags

\* The inductive invariant: a mark is remembered for as long as a drop, a marked
\* byte or a retransmission is, which keeps the next update from raising.
CcInv ==
  /\ cc \in CcState /\ cc.window >= Mss /\ ~cc.raised
  /\ cc.idle = cc.cnt_tx_pending /\ ~cc.hasty
  /\ (cc.alg # "const_rate" => cc.rate > 0)
  /\ (cc.alg = "dctcp_win" /\ cc.marked => cc.rexmits > 0)
  /\ (cc.alg = "dctcp_rate" /\ cc.marked =>
        cc.rexmits > 0 \/ cc.unproc.drops > 0 \/ cc.unproc.ecnb > 0)

\* cc_conn_init starts within the limits.
LEMMA InitCc ==
  ASSUME CcConfig, PositiveRates, cc \in CongestionControlStart
  PROVE  CcInv
<1>1. PICK alg \in Algorithms, act \in {0, RateMod - 1} : cc = cc_conn_init(alg, act)
  BY DEF CongestionControlStart
<1> DEFINE first == window_to_rate(2 * Mss, RttInit)
           rate == CASE alg = "dctcp_win"  -> first
                     [] alg = "dctcp_rate" -> DctcpInit
                     [] alg = "timely"     -> TimelyInit
                     [] OTHER              -> ConstRate
<1>2. first \in Nat /\ first > 0
  BY WindowRate DEF PositiveRates
<1>3. alg \in {"dctcp_win", "dctcp_rate", "timely", "const_rate"} /\ act \in Nat
  BY DEF CcConfig
<1>4. rate \in Nat /\ (alg # "const_rate" => rate > 0)
  <2> HIDE DEF first
  <2> QED
    BY <1>2, <1>3 DEF PositiveRates, CcConfig
<1>5. NoneUnprocessed \in Counted
  BY DEF NoneUnprocessed, Counted
<1> HIDE DEF rate
<1>6. cc = [alg |-> alg, slowstart |-> alg # "const_rate", ecn_rate |-> 0, act |-> act, window |-> 2 * Mss,
            rate |-> rate, unproc |-> NoneUnprocessed, rtt_prev |-> 0, rtt_diff |-> 0, hai_cnt |-> 0,
            rexmits |-> 0, cnt_tx_pending |-> 0,
            marked |-> FALSE, raised |-> FALSE, idle |-> 0, hasty |-> FALSE]
  BY <1>1, Zenon DEF rate, cc_conn_init
<1>7. cc \in CcState
  BY <1>3, <1>4, <1>5, <1>6 DEF CcState
<1>8. cc.window >= Mss /\ cc.idle = cc.cnt_tx_pending /\ (cc.alg # "const_rate" => cc.rate > 0)
  BY <1>4, <1>6
<1>9. ~cc.raised /\ ~cc.hasty /\ ~cc.marked
  BY <1>6
<1> QED
  BY <1>7, <1>8, <1>9 DEF CcInv

\* The update that cc_poll applies to a connection, and what it raises.
Updated(c, st) ==
  CASE c.alg = "dctcp_win"  -> dctcp_win_update(c, st)
    [] c.alg = "dctcp_rate" -> dctcp_rate_update(c, st)
    [] c.alg = "timely"     -> timely_update(c, st)
    [] c.alg = "const_rate" -> const_rate_update(c, st)
Raises(c, u) ==
  /\ c.alg \in {"dctcp_win", "dctcp_rate"} /\ c.marked /\ ~u.marked
  /\ IF c.alg = "dctcp_win" THEN u.window > c.window
     ELSE u.rate > Max({c.rate, DctcpMin})
Reasons(c) == c.rexmits > 0 \/ c.unproc.drops > 0 \/ c.unproc.ecnb > 0

\* An update of a connection in which every mark has a reason.
UpdateRight(c, u) ==
  /\ u \in CcState /\ Untouched(c, u) /\ u.window >= Mss /\ ~Raises(c, u)
  /\ (c.alg # "const_rate" => u.rate > 0)
  /\ (c.alg = "dctcp_win" => ~u.marked)
  /\ (c.alg = "dctcp_rate" /\ u.marked => Reasons(u))

\* One call of cc_poll's switch: whatever algorithm runs, congestion that was noted is
\* answered, and what is deferred is remembered.
LEMMA UpdateStep ==
  ASSUME CcConfig, PositiveRates, NEW c \in CcState, NEW st \in Stats, c.window >= Mss,
         c.alg # "const_rate" => c.rate > 0,
         c.alg = "dctcp_win" /\ c.marked => Congested(c, st),
         c.alg = "dctcp_rate" /\ c.marked => Congested(c, Unprocessed(c, st))
  PROVE  UpdateRight(c, Updated(c, st))
<1> DEFINE u == Updated(c, st)
<1>1. c.alg \in {"dctcp_win", "dctcp_rate", "timely", "const_rate"}
  BY DEF CcState
<1>2. c.window \in Nat /\ c.rate \in Nat
  BY DEF CcState
<1>3. CASE c.alg = "dctcp_win"
  <2>1. u = dctcp_win_update(c, st)
    BY <1>3 DEF Updated
  <2>2. /\ u \in CcState /\ Untouched(c, u) /\ u.window >= Mss /\ u.rate > 0 /\ ~u.marked
        /\ (Congested(c, st) => u.window <= c.window)
    BY <2>1, WinUpdate, Zenon
  <2> HIDE DEF u
  <2>3. u.window \in Nat
    BY <2>2 DEF CcState
  <2>4. u.window <= c.window => ~(u.window > c.window)
    BY <1>2, <2>3
  <2>5. ~Raises(c, u)
    BY <1>3, <2>2, <2>4, Zenon DEF Raises
  <2>6. UpdateRight(c, u)
    BY <1>3, <2>2, <2>5, Zenon DEF UpdateRight
  <2> QED
    BY <2>6 DEF u
<1>4. CASE c.alg = "dctcp_rate"
  <2>1. u = dctcp_rate_update(c, st)
    BY <1>4 DEF Updated
  <2>2. c.alg # "dctcp_win"
    BY <1>4
  <2>3. CASE Unprocessed(c, st).acks < DctcpMinPkts
    <3>1. /\ u \in CcState /\ Untouched(c, u) /\ u.window = c.window /\ u.rate = c.rate
          /\ (u.marked <=> c.marked) /\ u.rexmits = c.rexmits /\ u.unproc = Unprocessed(c, st)
      <4> DEFINE d == dctcp_rate_update(c, st)
      <4>1. /\ d \in CcState /\ Untouched(c, d) /\ d.window = c.window /\ d.rate = c.rate
            /\ (d.marked <=> c.marked) /\ d.rexmits = c.rexmits /\ d.unproc = Unprocessed(c, st)
        BY <2>3, RateDeferred
      <4> HIDE DEF d, u
      <4>2. u = d
        BY <2>1 DEF d
      <4> QED
        BY <4>1, <4>2, Zenon
    <3> HIDE DEF u
    <3>2. u.window >= Mss /\ u.rate > 0
      BY <1>4, <3>1
    <3>3. Congested(c, Unprocessed(c, st)) => Reasons(u)
      BY <3>1, Zenon DEF Congested, Reasons
    <3>4. UpdateRight(c, u)
      BY <1>4, <2>2, <3>1, <3>2, <3>3, Zenon DEF UpdateRight, Raises
    <3> QED
      BY <3>4 DEF u
  <2>4. CASE ~(Unprocessed(c, st).acks < DctcpMinPkts)
    <3>1. /\ u \in CcState /\ Untouched(c, u) /\ u.window = c.window /\ u.rate > 0 /\ ~u.marked
          /\ (Congested(c, Unprocessed(c, st)) => u.rate <= Max({c.rate, DctcpMin}))
      BY <2>1, <2>4, RateComputed, Zenon
    <3> HIDE DEF u
    <3>2. u.window >= Mss /\ u.rate \in Nat
      BY <3>1 DEF CcState
    <3>3. Max({c.rate, DctcpMin}) \in Int
      BY <1>2, MaxOfTwo
    <3>4. u.rate <= Max({c.rate, DctcpMin}) => ~(u.rate > Max({c.rate, DctcpMin}))
      BY <3>2, <3>3
    <3>5. ~Raises(c, u)
      BY <1>4, <2>2, <3>1, <3>4, Zenon DEF Raises
    <3>6. UpdateRight(c, u)
      BY <1>4, <2>2, <3>1, <3>2, <3>5, Zenon DEF UpdateRight
    <3> QED
      BY <3>6 DEF u
  <2> QED
    BY <2>3, <2>4
<1>5. CASE c.alg = "timely"
  <2>1. u = timely_update(c, st)
    BY <1>5 DEF Updated
  <2>2. c.alg # "dctcp_win" /\ c.alg # "dctcp_rate" /\ c.rate > 0
    BY <1>5
  <2>3. u \in CcState /\ Untouched(c, u) /\ u.window = c.window /\ u.rate > 0
    BY <2>1, <2>2, TimelyUpdate, Zenon
  <2> HIDE DEF u
  <2>4. u.window >= Mss
    BY <2>3
  <2>5. UpdateRight(c, u)
    BY <2>2, <2>3, <2>4, Zenon DEF UpdateRight, Raises
  <2> QED
    BY <2>5 DEF u
<1>6. CASE c.alg = "const_rate"
  <2>1. u = const_rate_update(c, st)
    BY <1>6 DEF Updated
  <2>2. c.alg # "dctcp_win" /\ c.alg # "dctcp_rate"
    BY <1>6
  <2>3. u \in CcState /\ Untouched(c, u) /\ u.window = c.window
    BY <2>1, ConstUpdate, Zenon
  <2> HIDE DEF u
  <2>4. u.window >= Mss
    BY <2>3
  <2>5. UpdateRight(c, u)
    BY <1>6, <2>2, <2>3, <2>4, Zenon DEF UpdateRight, Raises
  <2> QED
    BY <2>5 DEF u
<1> QED
  BY <1>1, <1>3, <1>4, <1>5, <1>6

\* The connection as cc_poll finds it, with what the flow counted.
Noted(st) == [cc EXCEPT !.marked = @ \/ st.drops > 0 \/ st.ecnb > 0]

\* The connection after an iteration of cc_poll.
After(v, raised) == [v EXCEPT !.raised = raised]

\* cc_poll keeps the invariant: notes the statistics, updates, then issues retransmits.
LEMMA PollStep ==
  ASSUME CcConfig, PositiveRates, CcInv, NEW st \in Stats, NEW may \in BOOLEAN, cc_poll_conn(st, may)
  PROVE  CcInv'
<1> DEFINE c == Noted(st)
           u == Updated(c, st)
           v == issue_retransmits(u, st, may)
<1>1. cc' = After(v, Raises(c, u))
  BY Zenon DEF cc_poll_conn, After, Raises, Updated, Noted
<1>2. st.drops \in Nat /\ st.ecnb \in Nat
  BY StatsTyped
<1>3. cc \in CcState /\ cc.marked \in BOOLEAN
  BY DEF CcInv, CcState
<1>4. c \in CcState
  BY <1>3, Zenon DEF Noted, CcState
<1>5. /\ c.window = cc.window /\ c.rate = cc.rate /\ c.alg = cc.alg /\ c.rexmits = cc.rexmits
      /\ c.unproc = cc.unproc /\ c.idle = cc.idle /\ c.cnt_tx_pending = cc.cnt_tx_pending
  BY <1>3 DEF Noted, CcState
<1>6. c.hasty = cc.hasty /\ (c.marked <=> cc.marked \/ st.drops > 0 \/ st.ecnb > 0)
  BY <1>3, Zenon DEF Noted, CcState
<1> HIDE DEF c
<1>7. c.alg = "dctcp_win" /\ c.marked => Congested(c, st)
  BY <1>5, <1>6, Zenon DEF CcInv, Congested
<1>8. c.alg = "dctcp_rate" /\ c.marked => Congested(c, Unprocessed(c, st))
  <2> DEFINE s == Unprocessed(c, st)
  <2>1. s.drops = c.unproc.drops + st.drops /\ s.ecnb = c.unproc.ecnb + st.ecnb
    BY <1>4, UnprocessedCounted
  <2>2. c.unproc.drops \in Nat /\ c.unproc.ecnb \in Nat
    BY <1>4, UnprocessedCounted
  <2> HIDE DEF s
  <2>3. /\ (c.unproc.drops > 0 \/ st.drops > 0 => s.drops > 0)
        /\ (c.unproc.ecnb > 0 \/ st.ecnb > 0 => s.ecnb > 0)
    BY <1>2, <2>1, <2>2
  <2>4. c.alg = "dctcp_rate" /\ c.marked => Congested(c, s)
    BY <1>5, <1>6, <2>3, Zenon DEF CcInv, Congested
  <2> QED
    BY <2>4 DEF s
<1>9. c.window >= Mss /\ (c.alg # "const_rate" => c.rate > 0)
  BY <1>5 DEF CcInv
<1>10. UpdateRight(c, u)
  BY <1>4, <1>7, <1>8, <1>9, UpdateStep
<1> HIDE DEF u
<1>11. /\ u \in CcState /\ u.alg = c.alg /\ u.idle = u.cnt_tx_pending /\ ~u.hasty /\ u.window >= Mss
       /\ (c.alg # "const_rate" => u.rate > 0) /\ ~Raises(c, u)
  BY <1>5, <1>6, <1>10, Zenon DEF UpdateRight, Untouched, CcInv
<1>12. /\ v \in CcState /\ SameRate(u, v) /\ v.idle = v.cnt_tx_pending /\ ~v.hasty
       /\ (u.rexmits > 0 => v.rexmits > 0) /\ (v.marked => u.marked \/ v.rexmits > 0)
  BY <1>11, IssueStep, Zenon
<1> HIDE DEF v
<1>13. cc' = After(v, FALSE)
  <2>1. Raises(c, u) \in BOOLEAN
    BY Zenon DEF Raises
  <2>2. Raises(c, u) = FALSE
    BY <1>11, <2>1, Zenon
  <2> QED
    BY <1>1, <2>2, Zenon
<1>14. cc' \in CcState
  BY <1>12, <1>13, Zenon DEF After, CcState
<1>15. /\ cc'.window = v.window /\ cc'.rate = v.rate /\ cc'.alg = v.alg /\ cc'.rexmits = v.rexmits
       /\ cc'.unproc = v.unproc /\ cc'.idle = v.idle /\ cc'.cnt_tx_pending = v.cnt_tx_pending
  BY <1>12, <1>13 DEF After, CcState
<1>16. cc'.hasty = v.hasty /\ cc'.marked = v.marked /\ cc'.raised = FALSE
  BY <1>12, <1>13 DEF After, CcState
<1>17. cc'.alg = c.alg /\ cc'.window = u.window /\ cc'.rate = u.rate /\ cc'.unproc = u.unproc
  BY <1>11, <1>12, <1>15, Zenon DEF SameRate
<1>18. cc'.alg = "dctcp_win" /\ cc'.marked => cc'.rexmits > 0
  BY <1>10, <1>12, <1>15, <1>16, <1>17, Zenon DEF UpdateRight
<1>19. cc'.alg = "dctcp_rate" /\ cc'.marked => Reasons(cc')
  BY <1>10, <1>12, <1>15, <1>16, <1>17, Zenon DEF UpdateRight, Reasons
<1>20. cc'.window >= Mss /\ cc'.idle = cc'.cnt_tx_pending /\ (cc'.alg # "const_rate" => cc'.rate > 0)
  BY <1>11, <1>12, <1>15, <1>17
<1>21. ~cc'.raised /\ ~cc'.hasty
  BY <1>12, <1>16, Zenon
<1> QED
  BY <1>14, <1>18, <1>19, <1>20, <1>21, Zenon DEF CcInv, Reasons

\* Every step of a connection under congestion control keeps it.
LEMMA NextCc ==
  ASSUME CcConfig, PositiveRates, CcInv, [CongestionControlNext]_cc
  PROVE  CcInv'
<1>1. CASE CongestionControlNext
  BY <1>1, PollStep DEF CongestionControlNext
<1>2. CASE UNCHANGED cc
  BY <1>2 DEF CcInv
<1> QED
  BY <1>1, <1>2

\* For every configuration of the algorithms and every sequence of statistics, DCTCP
\* never answers a drop, a mark or a retransmission by raising window or rate, over
\* the intervals that dctcp_rate_update only collects too, and no algorithm but the
\* constant one ever sets rate 0, which the fast path takes for no limit.
THEOREM CongestionAnswered ==
  ASSUME CcConfig, PositiveRates
  PROVE  CongestionControlSpec => []CongestionCuts
<1>1. CcInv => CongestionCuts
  BY DEF CcInv, CongestionCuts
<1> QED
  BY <1>1, InitCc, NextCc, PTL DEF CongestionControlSpec

-------------------------------------------------------------------------------
\* For retransmissions no more is needed than that the algorithm is one there is.
AlgorithmsKnown ==
  Algorithms \subseteq {"dctcp_win", "dctcp_rate", "timely", "const_rate"} /\ MaxCount \in Nat

CcFields == {"alg", "slowstart", "ecn_rate", "act", "window", "rate", "unproc", "rtt_prev", "rtt_diff",
             "hai_cnt", "rexmits", "cnt_tx_pending", "marked", "raised", "idle", "hasty"}
HasFields(c) == c = [f \in CcFields |-> c[f]]

\* Whatever an update sets, it leaves the counts of idle intervals alone.
LEMMA UpdateKeepsCounts ==
  ASSUME NEW c, HasFields(c), NEW st,
         c.alg \in {"dctcp_win", "dctcp_rate", "timely", "const_rate"}
  PROVE  HasFields(Updated(c, st)) /\ Untouched(c, Updated(c, st))
<1> DEFINE u == Updated(c, st)
<1>1. CASE c.alg = "dctcp_win"
  <2>1. u = dctcp_win_update(c, st)
    BY <1>1 DEF Updated
  <2> DEFINE ss  == c.slowstart /\ ~Congested(c, st)
             e   == Ewma(c, st.ecnb, st.ackb)
             cut == st.drops > 0 \/ c.rexmits > 0
             win == IF ss THEN c.window + st.ackb
                    ELSE IF cut THEN c.window \div 2
                    ELSE IF st.ecnb > 0 THEN Reduced(c.window, e)
                    ELSE c.window + (st.ackb * Mss) \div c.window
             w   == Min({TxBuf, Max({Mss, win})})
             ec  == IF ss \/ cut THEN c.ecn_rate ELSE e
             r   == window_to_rate(w, Rtt(st))
  <2>2. u = WindowSet(c, ss, ec, w, r)
    BY <2>1, Zenon DEF dctcp_win_update, WindowSet
  <2> HIDE DEF u, ss, ec, w, r
  <2>3. HasFields(u) /\ Untouched(c, u)
    BY <2>2, Zenon DEF HasFields, Untouched, WindowSet, CcFields
  <2> QED
    BY <2>3 DEF u
<1>2. CASE c.alg = "dctcp_rate"
  <2>1. u = dctcp_rate_update(c, st)
    BY <1>2 DEF Updated
  <2> DEFINE s    == Unprocessed(c, st)
             used == Used(c, st.rate)
             r    == ClampUsed(c.rate, used[2])
             ss   == c.slowstart /\ ~Congested(c, s)
             e    == Ewma(c, s.ecnb, s.ackb)
             cut  == s.drops > 0 \/ c.rexmits > 0
             rate == IF ss THEN IF (2 * r) % RateMod >= r THEN (2 * r) % RateMod ELSE RateMod - 1
                     ELSE IF cut THEN r \div 2
                     ELSE IF s.ecnb > 0 THEN Reduced(r, e)
                     ELSE IF DctcpMimd = 0 THEN (r + DctcpStep) % RateMod
                     ELSE (r + (r * DctcpMimd) \div One) % RateMod
             act  == used[1]
             ec   == IF ss \/ cut THEN c.ecn_rate ELSE e
             new  == AtLeastMinimum(rate)
  <2>2. u = RateSet(c, act, ss, ec, new) \/ u = [c EXCEPT !.unproc = s]
    <3>1. CASE s.acks < DctcpMinPkts
      BY <2>1, <3>1, Zenon DEF dctcp_rate_update
    <3>2. CASE ~(s.acks < DctcpMinPkts)
      BY <2>1, <3>2, Zenon DEF dctcp_rate_update, RateSet
    <3> QED
      BY <3>1, <3>2
  <2> HIDE DEF u, act, ss, ec, new, s
  <2>3. HasFields(u) /\ Untouched(c, u)
    BY <2>2, Zenon DEF HasFields, Untouched, RateSet, CcFields
  <2> QED
    BY <2>3 DEF u
<1>3. CASE c.alg = "timely"
  <2>1. u = timely_update(c, st)
    BY <1>3 DEF Updated
  <2> DEFINE used == Used(c, st.rate)
             act  == used[1]
             ss   == c.slowstart /\ st.rtt <= (TimelyTlow + TimelyThigh) \div 2
             r    == IF ss THEN c.rate ELSE ClampUsed(c.rate, used[2])
             diff == IF c.rtt_prev = 0 THEN c.rtt_diff
                     ELSE Quot((One - TimelyAlpha) * c.rtt_diff + TimelyAlpha * (st.rtt - c.rtt_prev), One)
             grad == IF c.rtt_prev = 0 THEN 0 ELSE Quot(diff * One, TimelyMinRtt)
             fall == Quot(TimelyBeta * grad, One)
             hai  == c.hai_cnt + 1
             gain == ~ss /\ st.rtt \in TimelyTlow .. TimelyThigh /\ grad <= 0
             rate == CASE ss -> (2 * r) % RateMod
                       [] ~ss /\ st.rtt < TimelyTlow -> (r + TimelyStep) % RateMod
                       [] ~ss /\ st.rtt > TimelyThigh ->
                            (r * (One - (TimelyBeta * (One - ((One * TimelyThigh) \div st.rtt))) \div One))
                              \div One
                       [] ~ss /\ st.rtt \in TimelyTlow .. TimelyThigh /\ grad <= 0 ->
                            (r + (IF hai >= 5 THEN 5 ELSE 1) * TimelyStep) % RateMod
                       [] OTHER -> (r * Max({0, One - fall})) \div One
             prev == st.rtt
             hh   == IF ss THEN c.hai_cnt ELSE IF gain THEN Min({hai, 4}) ELSE 0
             new  == Max({rate, r \div 2, TimelyMinRate})
  <2>2. u = TimelySet(c, act, ss, diff, prev, hh, new) \/ u = [c EXCEPT !.act = act]
    <3>1. CASE st.rtt = 0
      BY <2>1, <3>1, Zenon DEF timely_update
    <3>2. CASE st.rtt # 0
      BY <2>1, <3>2, Zenon DEF timely_update, TimelySet
    <3> QED
      BY <3>1, <3>2
  <2> HIDE DEF u, act, ss, diff, prev, hh, new
  <2>3. HasFields(u) /\ Untouched(c, u)
    BY <2>2, Zenon DEF HasFields, Untouched, TimelySet, CcFields
  <2> QED
    BY <2>3 DEF u
<1>4. CASE c.alg = "const_rate"
  <2>1. u = const_rate_update(c, st)
    BY <1>4 DEF Updated
  <2>2. HasFields(u) /\ Untouched(c, u)
    BY <2>1, Zenon DEF HasFields, Untouched, const_rate_update, CcFields
  <2> QED
    BY <2>2
<1> QED
  BY <1>1, <1>2, <1>3, <1>4

\* The count of idle intervals is the one issue_retransmits keeps.
RexmitInv ==
  /\ HasFields(cc) /\ cc.alg \in {"dctcp_win", "dctcp_rate", "timely", "const_rate"}
  /\ cc.cnt_tx_pending \in Nat /\ cc.idle = cc.cnt_tx_pending /\ ~cc.hasty

\* issue_retransmits counts the polls without progress exactly.
LEMMA IssueKeepsCounts ==
  ASSUME NEW u, HasFields(u), NEW st, st.ackb \in Nat, st.txp \in BOOLEAN, NEW may \in BOOLEAN,
         u.cnt_tx_pending \in Nat, u.idle = u.cnt_tx_pending, ~u.hasty
  PROVE  LET v == issue_retransmits(u, st, may)
         IN  /\ HasFields(v) /\ v.alg = u.alg
             /\ v.cnt_tx_pending \in Nat /\ v.idle = v.cnt_tx_pending /\ ~v.hasty
<1> DEFINE v    == issue_retransmits(u, st, may)
           cnt  == Pending(u, st)
           due  == cnt > 1 /\ cnt >= RexmitInts /\ st.txp /\ may
           left == IF due THEN 0 ELSE Min({cnt, RexmitInts + 1})
           idle == IF due \/ ~st.txp \/ st.ackb > 0 THEN 0 ELSE Min({u.idle + 1, RexmitInts + 1})
           more == IF due THEN Min({2, u.rexmits + 1}) ELSE u.rexmits
           mk   == u.marked \/ due
           hst  == u.hasty \/ (due /\ u.idle + 1 < RexmitInts)
<1>1. v = Issued(u, left, more, mk, idle, hst)
  BY Zenon DEF issue_retransmits, Issued
<1>2. cnt = IF st.txp /\ st.ackb = 0 THEN u.cnt_tx_pending + 1 ELSE 0
  BY DEF Pending
<1>3. left \in Nat /\ idle = left /\ ~(due /\ u.idle + 1 < RexmitInts)
  <2> HIDE DEF cnt
  <2>1. cnt \in Nat /\ Min({cnt, RexmitInts + 1}) = IF cnt <= RexmitInts + 1 THEN cnt ELSE RexmitInts + 1
    BY <1>2, MinOfTwo
  <2>2. Min({u.idle + 1, RexmitInts + 1}) =
          IF u.idle + 1 <= RexmitInts + 1 THEN u.idle + 1 ELSE RexmitInts + 1
    BY MinOfTwo
  <2>3. CASE st.txp /\ st.ackb = 0
    BY <1>2, <2>1, <2>2, <2>3
  <2>4. CASE ~(st.txp /\ st.ackb = 0)
    BY <1>2, <2>1, <2>2, <2>4
  <2> QED
    BY <2>3, <2>4
<1>4. hst = FALSE
  BY <1>3, Zenon
<1> HIDE DEF left, idle, more, mk, hst, v
<1>5. HasFields(v) /\ v.alg = u.alg /\ v.cnt_tx_pending = left /\ v.idle = idle /\ v.hasty = hst
  BY <1>1, Zenon DEF HasFields, CcFields, Issued
<1>6. v.cnt_tx_pending \in Nat /\ v.idle = v.cnt_tx_pending
  BY <1>3, <1>5
<1> QED
  BY <1>4, <1>5, <1>6, Zenon DEF v

\* Every step keeps the count, whatever the algorithm makes of the rate.
LEMMA NextRexmit ==
  ASSUME AlgorithmsKnown, RexmitInv, [CongestionControlNext]_cc
  PROVE  RexmitInv'
<1>1. CASE UNCHANGED cc
  BY <1>1 DEF RexmitInv
<1>2. CASE CongestionControlNext
  <2>1. PICK st \in Stats, may \in BOOLEAN : cc_poll_conn(st, may)
    BY <1>2 DEF CongestionControlNext
  <2> DEFINE c == Noted(st)
             u == Updated(c, st)
             v == issue_retransmits(u, st, may)
             raised == Raises(c, u)
  <2>2. cc' = After(v, raised)
    BY <2>1, Zenon DEF cc_poll_conn, After, Raises, Updated, Noted
  <2>3. /\ HasFields(c) /\ c.alg = cc.alg /\ c.cnt_tx_pending = cc.cnt_tx_pending
        /\ c.idle = cc.idle /\ c.hasty = cc.hasty
    <3> DEFINE mk == cc.marked \/ st.drops > 0 \/ st.ecnb > 0
    <3>1. c = [cc EXCEPT !.marked = mk]
      BY Zenon DEF Noted
    <3> HIDE DEF c, mk
    <3> QED
      BY <3>1 DEF RexmitInv, HasFields, CcFields
  <2> HIDE DEF c
  <2>4. HasFields(u) /\ Untouched(c, u)
    BY <2>3, UpdateKeepsCounts DEF RexmitInv
  <2> HIDE DEF u
  <2>5. /\ u.alg = cc.alg /\ u.cnt_tx_pending \in Nat /\ u.idle = u.cnt_tx_pending /\ ~u.hasty
    BY <2>3, <2>4, Zenon DEF Untouched, RexmitInv
  <2>6. st.ackb \in Nat /\ st.txp \in BOOLEAN
    <3>1. st.ackb \in 0 .. MaxCount /\ st.txp \in BOOLEAN
      BY Zenon DEF Stats
    <3> QED
      BY <3>1 DEF AlgorithmsKnown
  <2>7. /\ HasFields(v) /\ v.alg = u.alg
        /\ v.cnt_tx_pending \in Nat /\ v.idle = v.cnt_tx_pending /\ ~v.hasty
    BY <2>4, <2>5, <2>6, IssueKeepsCounts
  <2> HIDE DEF v, raised
  <2>8. /\ HasFields(cc') /\ cc'.alg = v.alg /\ cc'.cnt_tx_pending = v.cnt_tx_pending
        /\ cc'.idle = v.idle /\ cc'.hasty = v.hasty
    BY <2>2, <2>7 DEF After, HasFields, CcFields
  <2> QED
    BY <2>5, <2>7, <2>8, Zenon DEF RexmitInv
<1> QED
  BY <1>1, <1>2

\* issue_retransmits retransmits only after RexmitInts intervals in a row with data
\* outstanding and none of it acknowledged, whatever the algorithm and its parameters.
THEOREM RetransmitsJustified ==
  ASSUME AlgorithmsKnown
  PROVE  CongestionControlSpec => []RexmitJustified
<1>1. ASSUME cc \in CongestionControlStart PROVE RexmitInv
  <2>1. PICK alg \in Algorithms, act \in {0, RateMod - 1} : cc = cc_conn_init(alg, act)
    BY <1>1 DEF CongestionControlStart
  <2> DEFINE rate == CASE alg = "dctcp_win"  -> window_to_rate(2 * Mss, RttInit)
                       [] alg = "dctcp_rate" -> DctcpInit
                       [] alg = "timely"     -> TimelyInit
                       [] OTHER              -> ConstRate
             ss   == alg # "const_rate"
  <2>2. cc = [alg |-> alg, slowstart |-> ss, ecn_rate |-> 0, act |-> act, window |-> 2 * Mss,
              rate |-> rate, unproc |-> NoneUnprocessed, rtt_prev |-> 0, rtt_diff |-> 0, hai_cnt |-> 0,
              rexmits |-> 0, cnt_tx_pending |-> 0,
              marked |-> FALSE, raised |-> FALSE, idle |-> 0, hasty |-> FALSE]
    BY <2>1, Zenon DEF cc_conn_init
  <2> HIDE DEF rate, ss
  <2>3. HasFields(cc)
    BY <2>2 DEF HasFields, CcFields
  <2>4. cc.alg = alg /\ cc.cnt_tx_pending = 0 /\ cc.idle = 0
    BY <2>2
  <2>5. ~cc.hasty
    BY <2>2
  <2>6. alg \in {"dctcp_win", "dctcp_rate", "timely", "const_rate"} /\ 0 \in Nat
    BY DEF AlgorithmsKnown
  <2> QED
    BY <2>3, <2>4, <2>5, <2>6, Zenon DEF RexmitInv
<1>2. RexmitInv => RexmitJustified
  BY DEF RexmitInv, RexmitJustified
<1> QED
  BY <1>1, <1>2, NextRexmit, PTL DEF CongestionControlSpec
===============================================================================
