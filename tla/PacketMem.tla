------------------------------- MODULE PacketMem ------------------------------
(***************************************************************************)
(* The allocator of the shared packet memory (tas_nic/slow/packetmem.c):   *)
(* connection buffers, kernel queues and application queues all come from  *)
(* one region of dma_mem_size bytes.  The free list is kept as the         *)
(* sequence of its handles, in list order; the handles given out are a     *)
(* set.  Every call is one step: the code has no lock, and calls that two  *)
(* threads make at the same time are outside of this module.               *)
(***************************************************************************)
EXTENDS Integers, Sequences

CONSTANTS dma_mem_size,   \* bytes in the region
          Lengths         \* lengths that callers ask for

ASSUME MemAssumption ==
  /\ dma_mem_size \in Nat \ {0}
  /\ Lengths \subseteq Nat \ {0}

VARIABLES freelist,   \* the free handles, first one first
          allocated   \* the handles given out and not returned

vars == <<freelist, allocated>>

Handle == [base : Nat, len : Nat \ {0}]

Insert(list, k, ph) ==
  [i \in 1 .. Len(list) + 1 |->
     IF i < k THEN list[i] ELSE IF i = k THEN ph ELSE list[i - 1]]
Remove(list, k) ==
  [i \in 1 .. Len(list) - 1 |-> IF i < k THEN list[i] ELSE list[i + 1]]

\* packetmem_init
Init ==
  /\ freelist = <<[base |-> 0, len |-> dma_mem_size]>>
  /\ allocated = {}

\* The first handle of the list that is long enough.
FirstFit(k, length) ==
  /\ k \in 1 .. Len(freelist)
  /\ freelist[k].len >= length
  /\ \A i \in 1 .. k - 1 : freelist[i].len < length

\* packetmem_alloc: an exact fit leaves the list, a longer one is split and its
\* front is given out.  Without a fit, or when malloc fails for the new handle,
\* it returns -1 and changes nothing.
packetmem_alloc(length) ==
  \E k \in 1 .. Len(freelist) :
    /\ FirstFit(k, length)
    /\ freelist' =
         IF freelist[k].len = length THEN Remove(freelist, k)
         ELSE [freelist EXCEPT ![k] = [base |-> freelist[k].base + length,
                                       len |-> freelist[k].len - length]]
    /\ allocated' = allocated \cup {[base |-> freelist[k].base, len |-> length]}

\* Where the search of packetmem_free stops: it walks on while the NEXT item lies
\* below the handle, and the handle is inserted in front of where it stops.
InsertionPoint(k, ph) ==
  /\ k \in 1 .. Len(freelist) + 1
  /\ \A i \in 2 .. k : i <= Len(freelist) /\ freelist[i].base < ph.base
  /\ k + 1 <= Len(freelist) => freelist[k + 1].base >= ph.base

Adjacent(list, k) == list[k].base + list[k].len = list[k + 1].base
\* Mutant: the merged successor is not unlinked.
MergeKeepsNext(list, k) ==
  IF k < Len(list) /\ Adjacent(list, k)
  THEN [list EXCEPT ![k] = [base |-> list[k].base, len |-> list[k].len + list[k + 1].len]]
  ELSE list
MergeNext(list, k) ==
  IF k < Len(list) /\ Adjacent(list, k)
  THEN Remove([list EXCEPT ![k] = [base |-> list[k].base, len |-> list[k].len + list[k + 1].len]],
              k + 1)
  ELSE list

\* merge_items for the item at k: with its predecessor, then with its successor.
merge_items(list, k) ==
  IF k > 1 /\ Adjacent(list, k - 1)
  THEN MergeNext(MergeNext(list, k - 1), k - 1)
  ELSE MergeNext(list, k)

packetmem_free(ph) ==
  /\ ph \in allocated
  /\ allocated' = allocated \ {ph}
  /\ \E k \in 1 .. Len(freelist) + 1 :
       /\ InsertionPoint(k, ph)
       /\ freelist' = merge_items(Insert(freelist, k, ph), k)

Next ==
  \/ \E length \in Lengths : packetmem_alloc(length)
  \/ \E ph \in allocated : packetmem_free(ph)
Spec == Init /\ [][Next]_vars

-------------------------------------------------------------------------------
TypeOK ==
  /\ freelist \in Seq(Handle)
  /\ allocated \subseteq Handle

Disjoint(a, b) == a.base + a.len <= b.base \/ b.base + b.len <= a.base

\* No two handles share a byte, whether they are free or given out: memory that
\* one connection holds is never handed to another, whatever order the calls
\* come in and however the list was merged.
NoOverlap ==
  /\ \A i, j \in 1 .. Len(freelist) : i # j => Disjoint(freelist[i], freelist[j])
  /\ \A i \in 1 .. Len(freelist), a \in allocated : Disjoint(freelist[i], a)
  /\ \A a, b \in allocated : a # b => Disjoint(a, b)

Holds(ph, byte) == ph.base <= byte /\ byte < ph.base + ph.len

\* No byte of the region is lost: every one is in a handle, and no handle
\* reaches beyond the region.
NoLeak ==
  /\ \A byte \in 0 .. dma_mem_size - 1 :
       \/ \E i \in 1 .. Len(freelist) : Holds(freelist[i], byte)
       \/ \E a \in allocated : Holds(a, byte)
  /\ \A i \in 1 .. Len(freelist) : freelist[i].base + freelist[i].len <= dma_mem_size
  /\ \A a \in allocated : a.base + a.len <= dma_mem_size

\* packetmem_alloc and packetmem_free only move memory between the list and its
\* owners: through every split and every merge of handles the region stays
\* partitioned.
Partitioned == NoOverlap /\ NoLeak
===============================================================================
