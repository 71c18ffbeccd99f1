-------------------------- MODULE ArithmeticProofs --------------------------
(***************************************************************************)
(* Arithmetic that the proofs of several components share: least and       *)
(* greatest elements, numbers that wrap around, and the offsets of the     *)
(* rdma_queue for every buffer size and pad (distances between offsets     *)
(* once one of them has moved, and the index of a slot counted from        *)
(* different offsets).                                                     *)
(***************************************************************************)
EXTENDS RdmaRing, FiniteSetsExt, WellFoundedInduction, TLAPS

\* Unsigned addition and subtraction wrap at most once.
LEMMA SeqWraps ==
  ASSUME NEW M \in Nat \ {0}, NEW a \in 0 .. M - 1, NEW n \in 0 .. M - 1
  PROVE  /\ (a + n) % M = IF a + n < M THEN a + n ELSE a + n - M
         /\ (a - n) % M = IF a >= n THEN a - n ELSE a - n + M
<1>1. CASE a + n < M
  <2>1. a + n \in 0 .. M - 1
    BY <1>1
  <2> QED
    BY <1>1, <2>1
<1> QED
  OBVIOUS

\* A set of natural numbers that is not empty has a least element.
LEMMA LeastOf ==
  ASSUME NEW S \in SUBSET Nat, S # {}
  PROVE  Min(S) \in S /\ \A y \in S : Min(S) <= y
<1>1. PICK R : R = OpToRel(<, Nat)
  BY Zenon
<1>2. \E x \in S : \A y \in S : ~(<<y, x>> \in R)
  BY <1>1, NatLessThanWellFounded, WFMin, Zenon
<1>3. R = {ss \in Nat \X Nat : ss[1] < ss[2]}
  BY <1>1, Zenon DEF OpToRel
<1>4. \A x \in S, y \in S : ~(<<y, x>> \in R) => x <= y
  BY ONLY S \in SUBSET Nat, <1>3
<1>5. \E x \in S : \A y \in S : x <= y
  BY <1>2, <1>4, Zenon
<1> QED
  BY <1>5, Zenon DEF Min

\* One that is bounded has a greatest element.
LEMMA GreatestOf ==
  ASSUME NEW S \in SUBSET Nat, S # {}, NEW bound \in Nat, \A y \in S : y <= bound
  PROVE  Max(S) \in S /\ \A y \in S : Max(S) >= y
<1> DEFINE T == {bound - y : y \in S}
<1>a. \A y \in S : bound - y \in Nat
  OBVIOUS
<1>1. T \in SUBSET Nat /\ T # {}
  BY <1>a, Zenon
<1>2. Min(T) \in T /\ \A y \in T : Min(T) <= y
  BY <1>1, LeastOf, Zenon
<1>3. PICK x \in S : Min(T) = bound - x
  BY <1>2, Zenon
<1>4. \A y \in S : bound - y \in T
  OBVIOUS
<1>5. \A y \in S : x >= y
  <2> HIDE DEF T
  <2> SUFFICES ASSUME NEW y \in S PROVE x >= y
    OBVIOUS
  <2>1. bound - x <= bound - y
    BY <1>2, <1>3, <1>4
  <2> QED
    BY <2>1
<1>6. \E z \in S : \A y \in S : z >= y
  BY <1>5
<1> QED
  BY <1>6, Zenon DEF Max

\* A remainder is the only one.
LEMMA RemainderUnique ==
  ASSUME NEW M \in Nat \ {0}, NEW q \in Int, NEW r \in Nat, r < M
  PROVE  (M * q + r) % M = r
OBVIOUS

\* A set of integers that is bounded below has a least element.
LEMMA LeastFrom ==
  ASSUME NEW S \in SUBSET Int, S # {}, NEW b \in Nat, \A y \in S : -b <= y
  PROVE  Min(S) \in S /\ \A y \in S : Min(S) <= y
<1> DEFINE T == {y + b : y \in S}
<1>a. \A y \in S : y + b \in Nat
  OBVIOUS
<1>1. T \in SUBSET Nat /\ T # {}
  BY <1>a, Zenon
<1>2. Min(T) \in T /\ \A y \in T : Min(T) <= y
  BY <1>1, LeastOf, Zenon
<1>3. PICK x \in S : Min(T) = x + b
  BY <1>2, Zenon
<1>4. \A y \in S : y + b \in T
  OBVIOUS
<1>5. \A y \in S : x <= y
  <2> HIDE DEF T
  <2> SUFFICES ASSUME NEW y \in S PROVE x <= y
    OBVIOUS
  <2>1. x + b <= y + b
    BY <1>2, <1>3, <1>4
  <2> QED
    BY <2>1
<1>6. \E z \in S : \A y \in S : z <= y
  BY <1>5
<1> QED
  BY <1>6, Zenon DEF Min

\* The lesser of two numbers.
LEMMA MinOfTwo ==
  ASSUME NEW a \in Int, NEW b \in Int
  PROVE  Min({a, b}) = IF a <= b THEN a ELSE b
<1> DEFINE m == IF a <= b THEN a ELSE b
<1>1. m \in {a, b} /\ \A y \in {a, b} : m <= y
  OBVIOUS
<1>2. Min({a, b}) \in {a, b} /\ \A y \in {a, b} : Min({a, b}) <= y
  BY <1>1, Zenon DEF Min
<1> QED
  BY <1>2

\* The greater of two numbers.
LEMMA MaxOfTwo ==
  ASSUME NEW a \in Int, NEW b \in Int
  PROVE  Max({a, b}) = IF a >= b THEN a ELSE b
<1> DEFINE m == IF a >= b THEN a ELSE b
<1>1. m \in {a, b} /\ \A y \in {a, b} : m >= y
  OBVIOUS
<1>2. Max({a, b}) \in {a, b} /\ \A y \in {a, b} : Max({a, b}) >= y
  BY <1>1, Zenon DEF Max
<1> QED
  BY <1>2

\* A number and its remainder go on in the same way.
LEMMA RemainderAdds ==
  ASSUME NEW M \in Nat \ {0}, NEW a \in Nat, NEW n \in 0 .. M - 1
  PROVE  (a + n) % M = ((a % M) + n) % M
<1> DEFINE q == a \div M
           r == a % M
<1>1. a = M * q + r /\ q \in Int /\ r \in 0 .. M - 1
  OBVIOUS
<1>2. (r + n) % M = IF r + n < M THEN r + n ELSE r + n - M
  BY <1>1, SeqWraps
<1> HIDE DEF q, r
<1>3. CASE r + n < M
  <2>1. a + n = M * q + (r + n) /\ r + n \in Nat
    BY <1>1
  <2>2. (M * q + (r + n)) % M = r + n
    BY <1>1, <1>3, <2>1, RemainderUnique
  <2> QED
    BY <1>2, <1>3, <2>1, <2>2 DEF r
<1>4. CASE ~(r + n < M)
  <2>1. a + n = M * (q + 1) + (r + n - M) /\ r + n - M \in Nat /\ r + n - M < M /\ q + 1 \in Int
    BY <1>1, <1>4
  <2>2. (M * (q + 1) + (r + n - M)) % M = r + n - M
    BY ONLY <2>1, RemainderUnique, M \in Nat \ {0}, Zenon
  <2> QED
    BY <1>2, <1>4, <2>1, <2>2 DEF r
<1> QED
  BY <1>3, <1>4

\* A number less than one turn away is wrapped at most once.
LEMMA TsWraps ==
  ASSUME NEW M \in Nat \ {0}, NEW x \in Int, -M <= x, x < 2 * M
  PROVE  x % M = IF x < 0 THEN x + M ELSE IF x >= M THEN x - M ELSE x
<1>1. CASE x < 0
  <2>1. x = M * (-1) + (x + M) /\ x + M \in Nat /\ x + M < M
    BY <1>1
  <2>2. (M * (-1) + (x + M)) % M = x + M
    BY ONLY <2>1, RemainderUnique, M \in Nat \ {0}, -1 \in Int
  <2> QED
    BY <1>1, <2>1, <2>2
<1>2. CASE x >= M
  <2>1. x = M * 1 + (x - M) /\ x - M \in Nat /\ x - M < M
    BY <1>2
  <2>2. (M * 1 + (x - M)) % M = x - M
    BY ONLY <2>1, RemainderUnique, M \in Nat \ {0}, 1 \in Int
  <2> QED
    BY <1>2, <2>1, <2>2
<1>3. CASE 0 <= x /\ x < M
  BY <1>3
<1> QED
  BY <1>1, <1>2, <1>3
-------------------------------------------------------------------------------
\* Bytes from one offset to another, equal offsets meaning none or all.
Ahead(from, to) == rq_nbytes(from, to, TRUE)
Behind(from, to) == rq_nbytes(from, to, FALSE)

USE RingAssumption

\* A distance is a number of bytes, whatever equal offsets mean.
LEMMA DistanceNat ==
  ASSUME NEW from \in Offset, NEW to \in Offset
  PROVE  Ahead(from, to) \in Nat /\ Behind(from, to) \in Nat
BY DEF Ahead, Behind, rq_nbytes, Distance, Offset

\* An offset that moves by n bytes is n bytes further ahead of another one.
LEMMA AdvanceTo ==
  ASSUME NEW from \in Offset, NEW to \in Offset, NEW n \in Nat,
         Ahead(from, to) + n < buffer_size
  PROVE  /\ Advance(to, n) \in Offset
         /\ Ahead(from, Advance(to, n)) = Ahead(from, to) + n
BY DEF Ahead, Behind, rq_nbytes, Distance, Offset, Advance, FirstPart, SecondPart

\* An offset that moves by n bytes comes n bytes nearer to one ahead of it.
LEMMA AdvanceFrom ==
  ASSUME NEW from \in Offset, NEW to \in Offset, NEW n \in Nat,
         n <= Ahead(from, to), Ahead(from, to) < buffer_size
  PROVE  /\ Advance(from, n) \in Offset
         /\ Ahead(Advance(from, n), to) = Ahead(from, to) - n
BY DEF Ahead, Behind, rq_nbytes, Distance, Offset, Advance, FirstPart, SecondPart

\* The receiver has room for what is behind its rx.offset.
LEMMA RoomBehind ==
  ASSUME NEW rx \in Offset, NEW flush \in Offset, NEW n \in Nat,
         Ahead(rx, flush) + n < buffer_size, n <= buffer_size - RDMA_QUEUE_PAD
  PROVE  n <= Behind(flush, rx)
BY DEF Ahead, Behind, rq_nbytes, Distance, Offset

\* A slot has an index from every offset.
LEMMA IndexNat ==
  ASSUME NEW offset \in Offset, NEW s \in Slot
  PROVE  SlotIndex(offset, s) \in Nat /\ SlotIndex(offset, s) <= buffer_size
BY DEF SlotIndex, Slot, Offset

\* The n slots from one offset on, in indices from another one behind it.
LEMMA IndexAhead ==
  ASSUME NEW from \in Offset, NEW to \in Offset, NEW s \in Slot, NEW n \in Nat,
         Ahead(from, to) + n < buffer_size
  PROVE  SlotIndex(to, s) < n <=>
           /\ SlotIndex(from, s) >= Ahead(from, to)
           /\ SlotIndex(from, s) < Ahead(from, to) + n
BY DEF SlotIndex, Slot, Offset, Ahead, rq_nbytes, Distance

\* The index of such a slot grows by the distance of the two offsets.
LEMMA IndexShifts ==
  ASSUME NEW from \in Offset, NEW to \in Offset, NEW s \in Slot, NEW n \in Nat,
         Ahead(from, to) + n < buffer_size, SlotIndex(to, s) < n
  PROVE  SlotIndex(from, s) = Ahead(from, to) + SlotIndex(to, s)
BY DEF SlotIndex, Slot, Offset, Ahead, rq_nbytes, Distance

\* The slot of the n-th byte after an offset is n bytes further on.
LEMMA SlotAtAhead ==
  ASSUME NEW from \in Offset, NEW to \in Offset, NEW n \in Nat,
         Ahead(from, to) + n < buffer_size
  PROVE  SlotAt(to, n) \in Offset /\ Ahead(from, SlotAt(to, n)) = Ahead(from, to) + n
BY DEF SlotAt, Offset, Ahead, rq_nbytes, Distance

\* SlotAt and SlotIndex are each other's inverse.
LEMMA SlotAtIndex ==
  ASSUME NEW offset \in Offset, NEW n \in Nat, n < buffer_size
  PROVE  SlotAt(offset, n) \in Slot /\ SlotIndex(offset, SlotAt(offset, n)) = n
BY DEF SlotAt, SlotIndex, Slot, Offset
===============================================================================
