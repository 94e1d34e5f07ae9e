------------------------- MODULE WfbReceiverProofs -------------------------
(***************************************************************************)
(* The receiver outputs packets in order and at most once per session, for *)
(* every ring size, FEC parameters, output queue and sequence of packets.  *)
(*                                                                         *)
(* First lemmas about the ring's index arithmetic, then what one call of   *)
(* the ring does, then one step of the inductive invariant per action.     *)
(***************************************************************************)
EXTENDS MCReceiver, FiniteSetTheorems, TLAPS

USE RingSizeAssumption

(* modN on the sums the ring forms: at most two turns of the ring.         *)
Unwind(x) == IF x < RingSize THEN x
             ELSE IF x < 2 * RingSize THEN x - RingSize
             ELSE x - 2 * RingSize

LEMMA Turns == \A x \in 0 .. 3 * RingSize - 1 : modN(x) = Unwind(x)
<1> TAKE x \in 0 .. 3 * RingSize - 1
<1>1. CASE x < RingSize
  BY <1>1 DEF modN, Unwind
<1>2. CASE RingSize <= x /\ x < 2 * RingSize
  BY <1>2 DEF modN, Unwind
<1>3. CASE 2 * RingSize <= x
  BY <1>3 DEF modN, Unwind
<1> QED
  BY <1>1, <1>2, <1>3

(* A slot is the front plus an offset, with one turn at most.              *)
LEMMA SlotValue ==
  ASSUME NEW r, r.front \in Slots
  PROVE  \A j \in 0 .. 2 * RingSize : /\ Slot(r, j) \in Slots
                                      /\ Slot(r, j) = Unwind(r.front + j)
<1> TAKE j \in 0 .. 2 * RingSize
<1>1. r.front + j \in 0 .. 3 * RingSize - 1
  BY DEF Slots
<1>2. Slot(r, j) = Unwind(r.front + j)
  BY <1>1, Turns DEF Slot
<1> QED
  BY <1>1, <1>2 DEF Unwind, Slots

(* Different offsets below RingSize are different slots.                   *)
LEMMA SlotInjective ==
  ASSUME NEW r, r.front \in Slots,
         NEW i \in 0 .. RingSize-1, NEW j \in 0 .. RingSize-1,
         Slot(r, i) = Slot(r, j)
  PROVE  i = j
  BY SlotValue DEF Slots, Unwind

(* Moving the front by d slots shifts every offset by d.                   *)
LEMMA SlotShift ==
  ASSUME NEW r, NEW t, r.front \in Slots, NEW d \in 0 .. RingSize,
         t.front = Slot(r, d), NEW j \in 0 .. RingSize
  PROVE  Slot(t, j) = Slot(r, d + j)
<1>1. t.front \in Slots
  BY SlotValue
<1>2. Slot(t, j) = Unwind(t.front + j)
  BY <1>1, SlotValue
<1>3. Slot(r, d + j) = Unwind(r.front + (d + j))
  BY SlotValue
<1>4. t.front = Unwind(r.front + d)
  BY SlotValue
<1> QED
  BY <1>2, <1>3, <1>4 DEF Slots, Unwind

(* Offset recovers the position of a slot relative to the end of the ring. *)
LEMMA OffsetOfSlot ==
  ASSUME NEW r, r.front \in Slots,
         NEW e \in 0 .. RingSize, NEW j \in 0 .. 2 * RingSize - 1,
         j < e + RingSize,
         NEW s, s = Slot(r, j)
  PROVE  Offset(r, e, s) = IF j < e THEN j - e + RingSize ELSE j - e
<1> DEFINE x == s + 2 * RingSize - r.front - e
<1>1. s \in Slots /\ s = Unwind(r.front + j)
  BY SlotValue
<1>2. x \in 0 .. 3 * RingSize - 1
  BY <1>1 DEF Slots
<1>3. modN(x) = Unwind(x)
  BY <1>2, Turns
<1>4. Unwind(x) = IF j < e THEN j - e + RingSize ELSE j - e
  BY <1>1 DEF Slots, Unwind
<1> QED
  BY <1>3, <1>4 DEF Offset
-----------------------------------------------------------------------------
(***************************************************************************)
(* What the operations of the ring do to it.                               *)
(***************************************************************************)
LEMMA ItemFits ==
  ASSUME NEW b \in Nat, NEW k \in Nat, NEW n \in Nat
  PROVE  Item(b, n) \in ItemType(k, n)
  BY DEF Item, ItemType

LEMMA NewRingFits ==
  ASSUME NEW k \in Nat \ {0}, NEW n \in Nat, k <= n
  PROVE  /\ Fits(NewRing(k, n))
         /\ Consecutive(NewRing(k, n))
  BY ItemFits DEF NewRing, RingType, Fits, Consecutive, Slots

LEMMA SlotFits ==
  ASSUME NEW r, Fits(r)
  PROVE  /\ r.front \in Slots
         /\ r.alloc \in 0 .. RingSize
         /\ r.lastKnown \in Nat \cup {NoBlock}
         /\ \A s \in Slots : r.items[s] \in ItemType(r.k, r.n)
         /\ \A j \in 0 .. 2 * RingSize : Slot(r, j) \in Slots
         /\ Slot(r, 0) = r.front
         /\ r.alloc > 0 => r.front \in ActiveSlots(r)
<1>1. /\ r.front \in Slots
      /\ r.alloc \in 0 .. RingSize
      /\ r.lastKnown \in Nat \cup {NoBlock}
      /\ \A s \in Slots : r.items[s] \in ItemType(r.k, r.n)
  BY DEF Fits, RingType
<1>2. \A j \in 0 .. 2 * RingSize : Slot(r, j) \in Slots
  BY <1>1, SlotValue
<1>3. Slot(r, 0) = r.front
  BY <1>1, SlotValue DEF Slots, Unwind
<1>4. r.alloc > 0 => r.front \in ActiveSlots(r)
  BY <1>1, <1>3 DEF ActiveSlots
<1> QED
  BY <1>1, <1>2, <1>3, <1>4

(* In a ring in order, every block in it is between the front block and    *)
(* lastKnown, which is a block number as soon as the ring is not empty.    *)
LEMMA FrontIsOldest ==
  ASSUME NEW r, Fits(r), Consecutive(r), r.alloc > 0
  PROVE  /\ r.lastKnown \in Nat
         /\ r.items[r.front].blk = r.lastKnown - (r.alloc - 1)
<1>1. r.items[r.front].blk = r.lastKnown - (r.alloc - 1)
  BY SlotFits DEF Consecutive
<1>2. r.items[r.front].blk \in Nat
  BY SlotFits DEF ItemType
<1> QED
  BY <1>1, <1>2, SlotFits DEF NoBlock

(* Advance drops the front block and leaves the others where they are.     *)
LEMMA AdvanceRing ==
  ASSUME NEW r, Fits(r), Consecutive(r), r.alloc > 0,
         NEW t, t = Advance(r)
  PROVE  /\ Fits(t)
         /\ Consecutive(t)
         /\ t.k = r.k /\ t.n = r.n
         /\ t.lastKnown = r.lastKnown
         /\ t.alloc = r.alloc - 1
         /\ t.front = Slot(r, 1)
         /\ \A j \in 0 .. t.alloc-1 :
              /\ Slot(t, j) = Slot(r, j + 1)
              /\ t.items[Slot(t, j)] = r.items[Slot(r, j + 1)]
<1> USE SlotFits
<1>1. t = [r EXCEPT !.items[r.front] = Item(0, r.n),
                    !.front = Slot(r, 1), !.alloc = @ - 1]
  BY DEF Advance
<1>2. Slot(r, 1) \in Slots
  BY SMT
<1>3. /\ t.k = r.k /\ t.n = r.n /\ t.lastKnown = r.lastKnown
      /\ t.alloc = r.alloc - 1 /\ t.front = Slot(r, 1)
      /\ t.items = [r.items EXCEPT ![r.front] = Item(0, r.n)]
  BY <1>1 DEF Fits, RingType
<1>4. Fits(t)
  <2>1. Item(0, r.n) \in ItemType(r.k, r.n)
    BY ItemFits DEF Fits
  <2>2. t.items \in [Slots -> ItemType(r.k, r.n)]
    BY <1>3, <2>1 DEF Fits, RingType
  <2>3. t = [r EXCEPT !.items = t.items, !.front = t.front, !.alloc = t.alloc]
    BY <1>1, <1>3
  <2>4. t.alloc \in 0 .. RingSize
    BY <1>3
  <2>5. t \in RingType(r.k, r.n)
    BY <1>2, <1>3, <2>2, <2>3, <2>4 DEF Fits, RingType
  <2> QED
    BY <1>3, <2>5 DEF Fits
<1>5. ASSUME NEW j \in 0 .. t.alloc-1
      PROVE  /\ Slot(t, j) = Slot(r, j + 1)
             /\ t.items[Slot(t, j)] = r.items[Slot(r, j + 1)]
  <2>1. Slot(t, j) = Slot(r, 1 + j)
    BY <1>3, SlotShift
  <2>2. Slot(r, j + 1) # r.front
    BY <1>3, SlotInjective
  <2> QED
    BY <1>3, <2>1, <2>2 DEF Fits, RingType
<1>6. Consecutive(t)
  BY <1>3, <1>5 DEF Consecutive
<1> QED
  BY <1>3, <1>4, <1>5, <1>6

(* Push appends the blocks up to b, the first `Overflow' blocks leaving.   *)
LEMMA PushRing ==
  ASSUME NEW r, Fits(r), Consecutive(r),
         NEW b \in Nat, r.lastKnown < b,
         NEW m, m = NewBlocks(r, b),
         NEW o, o = Overflow(r, m),
         NEW t, t = Push(r, b, m)
  PROVE  /\ m \in 1 .. RingSize
         /\ m <= b - r.lastKnown
         /\ o \in 0 .. r.alloc
         /\ Fits(t)
         /\ Consecutive(t)
         /\ t.k = r.k /\ t.n = r.n
         /\ t.lastKnown = b
         /\ t.front = Slot(r, o)
         /\ t.alloc = r.alloc + m - o
         /\ \A j \in 0 .. t.alloc-1 :
              /\ Slot(t, j) = Slot(r, o + j)
              /\ t.items[Slot(t, j)] =
                   IF o + j < r.alloc THEN r.items[Slot(r, o + j)]
                   ELSE Item(b + (o + j - r.alloc) + 1 - m, r.n)
         /\ \A i \in 1 .. o : \E c \in Nat :
              t.items[Slot(r, i - 1)] = Item(c, r.n)
<1>0. /\ r.front \in Slots
      /\ r.alloc \in 0 .. RingSize
      /\ r.lastKnown \in Nat \cup {NoBlock}
      /\ r.lastKnown \in Int
      /\ \A s \in Slots : r.items[s] \in ItemType(r.k, r.n)
      /\ \A j \in 0 .. 2 * RingSize : Slot(r, j) \in Slots
  BY SlotFits DEF NoBlock
<1> USE <1>0
<1>1. /\ m \in 1 .. RingSize
      /\ m <= b - r.lastKnown
      /\ r.alloc > 0 => m = RingSize \/ m = b - r.lastKnown
  BY FrontIsOldest DEF NewBlocks, NoBlock
<1>2. /\ o \in 0 .. r.alloc
      /\ r.alloc + m - o \in 1 .. RingSize
      /\ o > 0 => r.alloc + m - o = RingSize
  BY <1>1 DEF Overflow
<1> DEFINE P(s) == Offset(r, r.alloc, s)
<1>3. /\ t.k = r.k /\ t.n = r.n /\ t.lastKnown = b
      /\ t.front = Slot(r, o) /\ t.alloc = r.alloc + m - o
  BY DEF Push, Fits, RingType
<1>31. t.items = [s \in Slots |-> IF P(s) < m THEN Item(b + P(s) + 1 - m, r.n)
                                    ELSE r.items[s]]
  BY DEF Push, Fits, RingType
<1>32. t = [r EXCEPT !.lastKnown = t.lastKnown, !.front = t.front,
                      !.alloc = t.alloc, !.items = t.items]
  BY DEF Push, Fits, RingType
<1>4. Slot(r, o) \in Slots
  BY <1>2
<1>5. Fits(t)
  <2>1. ASSUME NEW s \in Slots PROVE t.items[s] \in ItemType(r.k, r.n)
    <3>1. P(s) \in Nat
      <4>1. s + 2 * RingSize - r.front - r.alloc \in 0 .. 3 * RingSize - 1
        BY DEF Slots
      <4> QED
        BY <4>1, Turns DEF Offset, Unwind
    <3>2. b + P(s) + 1 - m \in Nat
      BY <1>1, <3>1 DEF NoBlock
    <3>3. Item(b + P(s) + 1 - m, r.n) \in ItemType(r.k, r.n)
      BY <3>2, ItemFits DEF Fits
    <3> QED
      BY <1>31, <3>3
  <2>2. t.items \in [Slots -> ItemType(r.k, r.n)]
    BY <1>31, <2>1
  <2>3. /\ t.lastKnown \in Nat \cup {NoBlock}
        /\ t.front \in Slots
        /\ t.alloc \in 0 .. RingSize
    BY <1>2, <1>3, <1>4
  <2>4. r \in RingType(r.k, r.n)
    BY DEF Fits
  <2>5. t \in RingType(r.k, r.n)
    BY ONLY <1>32, <2>2, <2>3, <2>4 DEF RingType
  <2> QED
    BY <1>3, <2>5 DEF Fits
<1>6. ASSUME NEW j \in 0 .. t.alloc-1
      PROVE  /\ Slot(t, j) = Slot(r, o + j)
             /\ t.items[Slot(t, j)] =
                  IF o + j < r.alloc THEN r.items[Slot(r, o + j)]
                  ELSE Item(b + (o + j - r.alloc) + 1 - m, r.n)
  <2>1. Slot(t, j) = Slot(r, o + j)
    <3>1. o \in 0 .. RingSize /\ j \in 0 .. RingSize
      BY <1>2, <1>3
    <3> QED
      BY <1>3, <3>1, SlotShift
  <2>2. Slot(r, o + j) \in Slots
    BY <1>2, <1>3
  <2>3. P(Slot(r, o + j)) = IF o + j < r.alloc THEN o + j - r.alloc + RingSize
                            ELSE o + j - r.alloc
    BY <1>2, <1>3, OffsetOfSlot
  <2>4. o + j < r.alloc <=> ~(P(Slot(r, o + j)) < m)
    BY <1>1, <1>2, <1>3, <2>3
  <2> QED
    BY <1>31, <2>1, <2>2, <2>3, <2>4
<1>7. Consecutive(t)
  <2>1. ASSUME NEW j \in 0 .. t.alloc-1
        PROVE  t.items[Slot(t, j)].blk = b - (t.alloc-1 - j)
    <3>1. CASE o + j < r.alloc
      <4>1. r.items[Slot(r, o + j)].blk = r.lastKnown - (r.alloc-1 - (o + j))
        BY <1>2, <1>3, <3>1 DEF Consecutive
      <4>2. m = b - r.lastKnown
        BY <1>1, <1>2, <3>1
      <4>3. r.lastKnown \in Int
        BY DEF NoBlock
      <4>4. t.items[Slot(t, j)] = r.items[Slot(r, o + j)]
        BY <1>6, <3>1
      <4> QED
        BY <1>2, <1>3, <4>1, <4>2, <4>3, <4>4
    <3>2. CASE ~(o + j < r.alloc)
      <4>1. t.items[Slot(t, j)] = Item(b + (o + j - r.alloc) + 1 - m, r.n)
        BY <1>6, <3>2
      <4>2. t.items[Slot(t, j)].blk = b + (o + j - r.alloc) + 1 - m
        BY <4>1 DEF Item
      <4> QED
        BY <1>1, <1>2, <1>3, <4>2
    <3> QED
      BY <3>1, <3>2
  <2> QED
    BY <1>3, <2>1 DEF Consecutive
<1>8. ASSUME NEW i \in 1 .. o
      PROVE  \E c \in Nat : t.items[Slot(r, i - 1)] = Item(c, r.n)
  <2>1. Slot(r, i - 1) \in Slots
    BY <1>2
  <2>2. P(Slot(r, i - 1)) = i - 1 - r.alloc + RingSize
    BY <1>2, OffsetOfSlot
  <2>3. P(Slot(r, i - 1)) < m /\ b + P(Slot(r, i - 1)) + 1 - m \in Nat
    BY <1>1, <1>2, <2>2 DEF NoBlock
  <2> QED
    BY <1>31, <2>1, <2>3
<1> QED
  BY <1>1, <1>2, <1>3, <1>5, <1>6, <1>7, <1>8

(* The other operations change one item and not its block number.          *)
LEMMA ItemChange ==
  ASSUME NEW r, Fits(r), NEW s \in Slots,
         NEW it \in ItemType(r.k, r.n), it.blk = r.items[s].blk,
         NEW t, t = [r EXCEPT !.items[s] = it]
  PROVE  /\ Fits(t)
         /\ Consecutive(r) => Consecutive(t)
         /\ t.k = r.k /\ t.n = r.n /\ t.lastKnown = r.lastKnown
         /\ t.front = r.front /\ t.alloc = r.alloc
         /\ t.items[s] = it
         /\ \A x \in Slots : x # s => t.items[x] = r.items[x]
         /\ \A j : Slot(t, j) = Slot(r, j)
         /\ ActiveSlots(t) = ActiveSlots(r)
<1>1. /\ t.k = r.k /\ t.n = r.n /\ t.lastKnown = r.lastKnown
      /\ t.front = r.front /\ t.alloc = r.alloc
      /\ t.items = [r.items EXCEPT ![s] = it]
  BY DEF Fits, RingType
<1>2. t.items \in [Slots -> ItemType(r.k, r.n)]
  BY <1>1 DEF Fits, RingType
<1>3. t.items[s] = it /\ \A x \in Slots : x # s => t.items[x] = r.items[x]
  BY <1>1 DEF Fits, RingType
<1>4. Fits(t)
  <2>1. t = [r EXCEPT !.items = t.items]
    BY <1>1
  <2>2. r \in RingType(r.k, r.n)
    BY DEF Fits
  <2>3. t \in RingType(r.k, r.n)
    BY ONLY <1>2, <2>1, <2>2 DEF RingType
  <2> QED
    BY <1>1, <2>3 DEF Fits
<1>5. (\A j : Slot(t, j) = Slot(r, j)) /\ ActiveSlots(t) = ActiveSlots(r)
  BY <1>1 DEF Slot, ActiveSlots
<1>6. ASSUME Consecutive(r) PROVE Consecutive(t)
  <2>1. ASSUME NEW j \in 0 .. r.alloc-1
        PROVE  t.items[Slot(r, j)].blk = r.items[Slot(r, j)].blk
    BY <1>3, SlotFits
  <2> QED
    BY <1>1, <1>5, <1>6, <2>1 DEF Consecutive
<1> QED
  BY <1>1, <1>3, <1>4, <1>5, <1>6

(* AdvanceFragmentToSend, SetFragmentSize and Recover do just that.        *)
LEMMA MarkSent ==
  ASSUME NEW r, Fits(r), NEW s \in Slots, r.items[s].next < r.k
  PROVE  \E it \in ItemType(r.k, r.n) :
           /\ AdvanceFragmentToSend(r, s) = [r EXCEPT !.items[s] = it]
           /\ it.blk = r.items[s].blk
           /\ it.next = r.items[s].next + 1
           /\ it.frags = r.items[s].frags
           /\ it.has = r.items[s].has
<1> DEFINE it == [r.items[s] EXCEPT !.next = @ + 1]
<1>1. r.items[s] \in ItemType(r.k, r.n)
  BY SlotFits
<1>2. it \in ItemType(r.k, r.n)
  BY SMTT(30), <1>1 DEF ItemType, Fits
<1>3. /\ it.blk = r.items[s].blk
      /\ it.next = r.items[s].next + 1
      /\ it.frags = r.items[s].frags
      /\ it.has = r.items[s].has
  BY <1>1 DEF ItemType
<1>4. AdvanceFragmentToSend(r, s) = [r EXCEPT !.items[s] = it]
  BY DEF AdvanceFragmentToSend
<1> QED
  BY <1>2, <1>3, <1>4

StoredItem(r, s, f, body) ==
  [r.items[s] EXCEPT !.frags[f] = body, !.has = @ + 1]

LEMMA StoreItem ==
  ASSUME NEW r, Fits(r), NEW s \in Slots, NEW f \in Nat, f < r.n,
         NEW body \in Bodies,
         NEW it, it = StoredItem(r, s, f, body)
  PROVE  /\ it \in ItemType(r.k, r.n)
         /\ Store(r, s, f, body) = [r EXCEPT !.items[s] = it]
         /\ it.blk = r.items[s].blk
         /\ it.next = r.items[s].next
<1>1. r.items[s] \in ItemType(r.k, r.n)
  BY SlotFits
<1>11. /\ r.items[s].frags \in [0 .. r.n-1 -> Bodies \cup {Missing}]
       /\ r.items[s].has \in Nat /\ r.n \in Nat
  BY <1>1 DEF ItemType, Fits
<1>12. [r.items[s].frags EXCEPT ![f] = body] \in [0 .. r.n-1 -> Bodies \cup {Missing}]
  BY <1>11
<1>13. it = [r.items[s] EXCEPT !.frags = [r.items[s].frags EXCEPT ![f] = body],
                               !.has = r.items[s].has + 1]
  BY <1>1 DEF ItemType, StoredItem
<1>2. it \in ItemType(r.k, r.n)
  <2> DEFINE frags == [r.items[s].frags EXCEPT ![f] = body]
             has == r.items[s].has + 1
  <2>1. frags \in [0 .. r.n-1 -> Bodies \cup {Missing}] /\ has \in Nat
    BY <1>11, <1>12
  <2> HIDE DEF frags, has
  <2>2. it = [r.items[s] EXCEPT !.frags = frags, !.has = has]
    BY <1>13 DEF frags, has
  <2> QED
    BY ONLY <1>1, <2>1, <2>2 DEF ItemType
<1>3. it.blk = r.items[s].blk /\ it.next = r.items[s].next
  BY <1>1 DEF ItemType, StoredItem
<1>4. Store(r, s, f, body) = [r EXCEPT !.items[s] = it]
  BY <1>1 DEF Store, StoredItem, Fits, RingType, ItemType
<1> QED
  BY <1>2, <1>3, <1>4

LEMMA ReconstructFits ==
  ASSUME NEW k \in Nat, NEW n \in Nat, k <= n,
         NEW frags \in [0 .. n-1 -> Bodies \cup {Missing}]
  PROVE  /\ Reconstruct(frags, k, n) \in [0 .. n-1 -> Bodies \cup {Missing}]
         /\ \A f \in 0 .. k-1 : Reconstruct(frags, k, n)[f] # Missing
<1> DEFINE words == {w \in WordsSeen(frags, k, n) : Consistent(frags, k, n, w)}
<1>1. ASSUME NEW w \in words, NEW f \in 0 .. k-1
      PROVE  w[f] \in Bodies
  <2>1. PICK g \in UsedParity(frags, k, n) :
          frags[g].kind = "parity" /\ w = frags[g].word
    BY DEF WordsSeen
  <2>2. g \in 0 .. n-1
    BY <2>1 DEF UsedParity, Present
  <2>3. frags[g] \in Bodies
    BY <2>1, <2>2 DEF Missing
  <2>4. DOMAIN w = 0 .. k-1
    BY DEF Consistent
  <2> QED
    BY <2>1, <2>3, <2>4, BodiesAssumption
<1>2. words # {} => (CHOOSE w \in words : TRUE) \in words
  OBVIOUS
<1> DEFINE w0 == CHOOSE w \in words : TRUE
<1>3. Garbage \in Bodies
  BY BodiesAssumption
<1>4. Reconstruct(frags, k, n) =
        [f \in 0 .. n-1 |-> IF f >= k \/ frags[f] # Missing THEN frags[f]
                            ELSE IF words = {} THEN Garbage ELSE w0[f]]
  BY DEF Reconstruct
<1> HIDE DEF words, w0
<1>5. ASSUME NEW f \in 0 .. n-1
      PROVE  (IF f >= k \/ frags[f] # Missing THEN frags[f]
              ELSE IF words = {} THEN Garbage ELSE w0[f])
               \in IF f < k THEN Bodies ELSE Bodies \cup {Missing}
  <2>1. CASE f >= k \/ frags[f] # Missing
    BY <2>1
  <2>2. CASE ~(f >= k \/ frags[f] # Missing)
    <3>1. words # {} => w0[f] \in Bodies
      BY <1>1, <1>2, <2>2 DEF w0
    <3> QED
      BY <1>3, <2>2, <3>1
  <2> QED
    BY <2>1, <2>2
<1>6. \A f \in 0 .. n-1 :
        Reconstruct(frags, k, n)[f]
          \in IF f < k THEN Bodies ELSE Bodies \cup {Missing}
  BY <1>4, <1>5
<1>7. \A f \in 0 .. k-1 : f \in 0 .. n-1 /\ f < k
  OBVIOUS
<1> QED
  BY <1>4, <1>6, <1>7, BodiesAssumption

LEMMA RecoverItem ==
  ASSUME NEW r, Fits(r), NEW s \in Slots
  PROVE  \E it \in ItemType(r.k, r.n) :
           /\ Recover(r, s) = [r EXCEPT !.items[s] = it]
           /\ it.blk = r.items[s].blk
           /\ it.next = r.items[s].next
           /\ \A f \in 0 .. r.k-1 : it.frags[f] # Missing
<1> DEFINE it == [r.items[s] EXCEPT !.frags = Reconstruct(@, r.k, r.n)]
<1>1. r.items[s] \in ItemType(r.k, r.n)
  BY SlotFits
<1>2. /\ Reconstruct(r.items[s].frags, r.k, r.n)
           \in [0 .. r.n-1 -> Bodies \cup {Missing}]
      /\ \A f \in 0 .. r.k-1 : Reconstruct(r.items[s].frags, r.k, r.n)[f] # Missing
  BY <1>1, ReconstructFits DEF ItemType, Fits
<1>3. it \in ItemType(r.k, r.n)
  BY <1>1, <1>2 DEF ItemType
<1>4. /\ it.blk = r.items[s].blk /\ it.next = r.items[s].next
      /\ \A f \in 0 .. r.k-1 : it.frags[f] # Missing
  BY <1>1, <1>2 DEF ItemType
<1>5. Recover(r, s) = [r EXCEPT !.items[s] = it]
  BY DEF Recover
<1> QED
  BY <1>3, <1>4, <1>5
-----------------------------------------------------------------------------
(***************************************************************************)
(* The output queue.                                                       *)
(***************************************************************************)
USE AggregatorAssumption

AllBehind(q, b, f) ==
  \A i \in 1 .. Len(q) : q[i].inc = incarnation => Behind(q[i], b, f)

LEMMA AppendSeq ==
  ASSUME NEW S, NEW q \in Seq(S), NEW e \in S
  PROVE  /\ Append(q, e) \in Seq(S)
         /\ Len(Append(q, e)) = Len(q) + 1
         /\ \A i \in 1 .. Len(q) : Append(q, e)[i] = q[i]
         /\ Append(q, e)[Len(q) + 1] = e
  BY SMT

(* A packet output from at or beyond the frontier keeps the queue in order *)
(* and moves the frontier behind itself.                                   *)
LEMMA OutputStep ==
  ASSUME RxTypeOK, InOrder,
         NEW s \in Slots, NEW f \in 0 .. ring.k-1,
         ring.items[s].frags[f] # Missing,
         AllBehind(queued, ring.items[s].blk, f),
         Output(s, f)
  PROVE  /\ queued' \in Seq(QueueType)
         /\ \A i, j \in 1 .. Len(queued') :
              i < j => Before(queued'[i], queued'[j])
         /\ AllBehind(queued', ring.items[s].blk, f + 1)
         /\ taken \in 0 .. Len(queued')
         /\ lost' \in Nat
<1> DEFINE b == ring.items[s].blk
           e == [inc |-> incarnation, sess |-> session, blk |-> b, frag |-> f,
                 seq |-> Seqno(b, f), body |-> ring.items[s].frags[f]]
<1>1. /\ ring.items[s] \in ItemType(ring.k, ring.n)
      /\ ring.k \in Nat /\ ring.n \in Nat /\ ring.k <= ring.n
  BY SlotFits DEF RxTypeOK, Fits
<1>2. b \in Nat /\ ring.items[s].frags[f] \in Bodies
  BY <1>1 DEF ItemType
<1>3. Seqno(b, f) \in 0 .. SeqMod-1
  <2>1. \A x \in Int : x % SeqMod \in 0 .. SeqMod-1
    OBVIOUS
  <2>2. (b % SeqMod) \in Nat
    BY <1>2, <2>1
  <2> HIDE <2>1
  <2>3. (b % SeqMod) * ring.k + f \in Int
    BY <1>1, <2>2
  <2> QED
    BY <2>1, <2>3 DEF Seqno
<1>4. e \in QueueType
  BY <1>2, <1>3 DEF QueueType, RxTypeOK
<1>5. /\ queued \in Seq(QueueType) /\ lost \in Nat
      /\ taken \in 0 .. Len(queued) /\ incarnation \in Nat
  BY DEF RxTypeOK
<1> HIDE DEF e, b
<1>6. CASE queued' = queued
  <2>1. lost' \in Nat
    BY <1>5 DEF Output
  <2>2. ASSUME NEW i \in 1 .. Len(queued), queued[i].inc = incarnation
        PROVE  Behind(queued[i], b, f + 1)
    <3>1. queued[i] \in QueueType
      BY <1>5
    <3>2. queued[i].frag \in Nat
      BY <3>1 DEF QueueType
    <3>3. Behind(queued[i], b, f)
      BY <2>2 DEF AllBehind, b
    <3> QED
      BY <3>2, <3>3 DEF Behind
  <2> QED
    BY <1>5, <1>6, <2>1, <2>2 DEF InOrder, AllBehind, b
<1>7. CASE queued' = Append(queued, e) /\ lost' = lost
  <2>1. /\ queued' \in Seq(QueueType)
        /\ Len(queued') = Len(queued) + 1
        /\ \A i \in 1 .. Len(queued) : queued'[i] = queued[i]
        /\ queued'[Len(queued) + 1] = e
    BY <1>4, <1>5, <1>7, AppendSeq
  <2>2. e.inc = incarnation /\ e.blk = b /\ e.frag = f
    BY DEF e
  <2>3. ASSUME NEW i \in 1 .. Len(queued)
        PROVE  Before(queued[i], e)
    <3>1. queued[i] \in QueueType
      BY <1>5
    <3>2. CASE queued[i].inc = incarnation
      BY <2>2, <3>2 DEF AllBehind, Behind, Before, b
    <3>3. CASE queued[i].inc # incarnation
      <4>1. queued[i].inc \in 0 .. incarnation
        BY <3>1 DEF QueueType
      <4> QED
        BY <1>5, <2>2, <3>3, <4>1 DEF Before
    <3> QED
      BY <3>2, <3>3
  <2>4. \A i, j \in 1 .. Len(queued') : i < j => Before(queued'[i], queued'[j])
    BY <1>5, <2>1, <2>3 DEF InOrder
  <2>5. ASSUME NEW i \in 1 .. Len(queued'), queued'[i].inc = incarnation
        PROVE  Behind(queued'[i], b, f + 1)
    <3>1. CASE i = Len(queued) + 1
      BY <1>2, <2>1, <2>2, <3>1 DEF Behind
    <3>2. CASE i \in 1 .. Len(queued)
      <4>1. queued[i] \in QueueType /\ queued'[i] = queued[i]
        BY <1>5, <2>1, <3>2
      <4> QED
        BY <1>2, <2>5, <3>2, <4>1 DEF AllBehind, Behind, QueueType, b
    <3> QED
      BY <1>5, <2>1, <3>1, <3>2
  <2>6. AllBehind(queued', ring.items[s].blk, f + 1)
    BY <2>5 DEF AllBehind, b
  <2> QED
    BY <1>5, <1>7, <2>1, <2>4, <2>6
<1>8. \/ queued' = queued
      \/ queued' = Append(queued, e) /\ lost' = lost
  BY DEF Output, e, b
<1> QED
  BY <1>6, <1>7, <1>8

(* QueueBehindRing for a ring r with frontier f in its front block.        *)
BehindRing(q, r, f) ==
  \A i \in 1 .. Len(q) :
    q[i].inc = incarnation =>
      /\ q[i].blk <= r.lastKnown
      /\ r.alloc > 0 => Behind(q[i], r.items[r.front].blk, f)

UnsentBehindFront(r) == \A j \in 1 .. r.alloc-1 : r.items[Slot(r, j)].next = 0

LEMMA QueueEntries ==
  ASSUME NEW q \in Seq(QueueType)
  PROVE  \A i \in 1 .. Len(q) : q[i].blk \in Nat /\ q[i].frag \in Nat
<1> TAKE i \in 1 .. Len(q)
<1>1. q[i] \in QueueType
  OBVIOUS
<1> QED
  BY <1>1 DEF QueueType

(* What lies behind the front block lies behind lastKnown.                 *)
LEMMA BehindFront ==
  ASSUME NEW r, Fits(r), Consecutive(r), r.alloc > 0,
         NEW q \in Seq(QueueType), NEW f,
         AllBehind(q, r.items[r.front].blk, f)
  PROVE  BehindRing(q, r, f)
<1>1. /\ r.lastKnown \in Nat /\ r.alloc \in Nat
      /\ r.items[r.front].blk = r.lastKnown - (r.alloc - 1)
  BY FrontIsOldest, SlotFits
<1>2. ASSUME NEW i \in 1 .. Len(q), q[i].inc = incarnation
      PROVE  /\ q[i].blk <= r.lastKnown
             /\ Behind(q[i], r.items[r.front].blk, f)
  <2>1. Behind(q[i], r.items[r.front].blk, f)
    BY <1>2 DEF AllBehind
  <2>2. q[i].blk \in Nat
    BY QueueEntries
  <2> QED
    BY <1>1, <2>1, <2>2 DEF Behind
<1> QED
  BY <1>2 DEF BehindRing

(* The frontier only moves forward.                                        *)
LEMMA BehindLater ==
  ASSUME NEW q \in Seq(QueueType), NEW b, NEW f \in Int, NEW g \in Int, f <= g,
         AllBehind(q, b, f)
  PROVE  AllBehind(q, b, g)
<1>1. ASSUME NEW i \in 1 .. Len(q), q[i].inc = incarnation
      PROVE  Behind(q[i], b, g)
  <2>1. Behind(q[i], b, f)
    BY <1>1 DEF AllBehind
  <2>2. q[i].frag \in Nat
    BY QueueEntries
  <2> QED
    BY <2>1, <2>2 DEF Behind
<1> QED
  BY <1>1 DEF AllBehind

(* Dropping the front block, once nothing beyond it has been output.       *)
LEMMA AdvancePastFront ==
  ASSUME NEW r, Fits(r), Consecutive(r), UnsentBehindFront(r), r.alloc > 0,
         NEW q \in Seq(QueueType), NEW f, NEW g,
         BehindRing(q, r, f),
         NEW t, t = Advance(r)
  PROVE  /\ Fits(t) /\ t.k = r.k /\ t.n = r.n
         /\ Consecutive(t)
         /\ UnsentBehindFront(t)
         /\ BehindRing(q, t, g)
         /\ \A s \in ActiveSlots(r) : s # r.front => s \in ActiveSlots(t)
<1>1. /\ Fits(t)
      /\ Consecutive(t)
      /\ t.k = r.k /\ t.n = r.n
      /\ t.lastKnown = r.lastKnown
      /\ t.alloc = r.alloc - 1
      /\ t.front = Slot(r, 1)
      /\ \A j \in 0 .. t.alloc-1 :
           /\ Slot(t, j) = Slot(r, j + 1)
           /\ t.items[Slot(t, j)] = r.items[Slot(r, j + 1)]
  BY AdvanceRing
<1>2. r.alloc \in Nat /\ r.lastKnown \in Nat /\ Slot(r, 0) = r.front
  BY SlotFits, FrontIsOldest
<1>3. UnsentBehindFront(t)
  BY <1>1, <1>2 DEF UnsentBehindFront
<1>4. t.alloc > 0 => t.items[t.front].blk = r.items[r.front].blk + 1
  <2> SUFFICES ASSUME t.alloc > 0
               PROVE  t.items[t.front].blk = r.items[r.front].blk + 1
    OBVIOUS
  <2>1. t.items[t.front].blk = t.lastKnown - (t.alloc - 1)
    BY <1>1, FrontIsOldest
  <2>2. r.items[r.front].blk = r.lastKnown - (r.alloc - 1)
    BY FrontIsOldest
  <2> QED
    BY <1>1, <1>2, <2>1, <2>2
<1>5. r.items[r.front].blk \in Nat
  BY SlotFits DEF ItemType
<1>6. ASSUME NEW i \in 1 .. Len(q), q[i].inc = incarnation
      PROVE  /\ q[i].blk <= t.lastKnown
             /\ t.alloc > 0 => Behind(q[i], t.items[t.front].blk, g)
  <2>1. /\ q[i].blk <= r.lastKnown
        /\ Behind(q[i], r.items[r.front].blk, f)
    BY <1>6 DEF BehindRing
  <2>2. q[i].blk \in Nat
    BY QueueEntries
  <2> QED
    BY <1>1, <1>4, <1>5, <2>1, <2>2 DEF Behind
<1>7. ASSUME NEW s \in ActiveSlots(r), s # r.front PROVE s \in ActiveSlots(t)
  <2>1. PICK j \in 0 .. r.alloc-1 : s = Slot(r, j)
    BY DEF ActiveSlots
  <2>2. j # 0
    BY <1>2, <1>7, <2>1
  <2>3. j - 1 \in 0 .. t.alloc-1 /\ (j - 1) + 1 = j
    BY <1>1, <1>2, <2>2
  <2>4. s = Slot(t, j - 1)
    BY <1>1, <2>1, <2>3
  <2> QED
    BY <2>3, <2>4 DEF ActiveSlots
<1> QED
  BY <1>1, <1>3, <1>6, <1>7 DEF BehindRing
-----------------------------------------------------------------------------
(***************************************************************************)
(* One lemma per action: it preserves RxInv.                               *)
(***************************************************************************)
LEMMA InvInit == RxInit => RxInv
<1> SUFFICES ASSUME RxInit PROVE RxInv
  OBVIOUS
<1>1. Fits(ring) /\ Consecutive(ring) /\ ring.alloc = 0 /\ ring.k = 1
  BY NewRingFits DEF RxInit, NewRing
<1>2. queued \in Seq(QueueType) /\ Len(queued) = 0 /\ evicted \in Seq(Slots)
  BY DEF RxInit
<1>3. cur \in [slot : Slots, frag : Nat, body : Bodies]
  BY BodiesAssumption DEF RxInit, Idle, Slots
<1>4. RxTypeOK
  BY <1>1, <1>2, <1>3 DEF RxInit, RxTypeOK, NoSession
<1>5. OnlyFrontSent /\ RingConsecutive /\ QueueBehindRing /\ InOrder
  BY <1>1, <1>2 DEF OnlyFrontSent, RingConsecutive, QueueBehindRing, InOrder
<1>6. TargetInRing /\ EvictedReset
  BY DEF RxInit, TargetInRing, EvictedReset
<1> QED
  BY <1>4, <1>5, <1>6 DEF RxInv

(* A queue typed for one incarnation is typed for the next.                *)
LEMMA SeqWiden ==
  ASSUME NEW S, NEW T, S \subseteq T, NEW q \in Seq(S)
  PROVE  q \in Seq(T)
  BY SMT

(* A session change: the frontier restarts, in a later incarnation.        *)
LEMMA InvProcessSession ==
  ASSUME RxInv, NEW a \in Announcements, ProcessSession(a)
  PROVE  RxInv'
<1>1. /\ a.sess \in Nat /\ a.epoch \in Nat /\ a.k \in Nat \ {0} /\ a.n \in Nat
      /\ a.k <= a.n
  BY PacketsAssumption DEF ProcessSession, ValidAnnouncement
<1>2. /\ ring' = NewRing(a.k, a.n) /\ Fits(ring') /\ Consecutive(ring')
      /\ ring'.alloc = 0 /\ ring'.k = a.k
  BY <1>1, NewRingFits DEF ProcessSession, Reset, NewRing
<1>3. /\ incarnation \in Nat /\ incarnation' = incarnation + 1
      /\ incarnation' \in 0 .. MaxIncarnations
      /\ pc = "idle" /\ pc' = pc /\ scan = 0 /\ scan' = 0
      /\ queued' = queued /\ queued \in Seq(QueueType)
  BY DEF ProcessSession, RxInv, RxTypeOK, TargetInRing, handlerVars, queueVars
<1>4. QueueType \subseteq QueueType'
  BY <1>3 DEF QueueType
<1>5. queued' \in Seq(QueueType')
  BY <1>3, <1>4, SeqWiden
<1>6. RxTypeOK'
  BY <1>1, <1>2, <1>3, <1>5
     DEF ProcessSession, RxInv, RxTypeOK, handlerVars, queueVars
<1>7. QueueBehindRing'
  <2>1. ASSUME NEW i \in 1 .. Len(queued) PROVE queued[i].inc # incarnation'
    <3>1. queued[i] \in QueueType
      BY <1>3
    <3>2. queued[i].inc \in 0 .. incarnation
      BY <3>1 DEF QueueType
    <3> QED
      BY <1>3, <3>2
  <2> QED
    BY <1>3, <2>1 DEF QueueBehindRing
<1>8. InOrder' /\ OnlyFrontSent' /\ RingConsecutive' /\ TargetInRing' /\ EvictedReset'
  BY <1>2, <1>3 DEF RxInv, InOrder, Before, OnlyFrontSent, RingConsecutive,
                    TargetInRing, EvictedReset
<1> QED
  BY <1>6, <1>7, <1>8 DEF RxInv

(* The packets that are only counted.                                      *)
LEMMA InvUnchanged ==
  ASSUME RxInv, UNCHANGED rxVars
  PROVE  RxInv'
  BY DEF RxInv, rxVars, RxTypeOK, QueueType, RingConsecutive, OnlyFrontSent,
         TargetInRing, EvictedReset, QueueBehindRing, FrontItem, FrontNext,
         InOrder

(* The processor goroutine only takes from the queue and counts.           *)
LEMMA InvOutputProcessor ==
  ASSUME RxInv, OutputProcessor
  PROVE  RxInv'
<1>1. UNCHANGED <<session, epoch, incarnation, ring, pc, cur, evicted, scan, queued>>
  BY DEF OutputProcessor, sessionVars, handlerVars
<1>2. RxTypeOK
  BY DEF RxInv
<1>3. queued[taken + 1].seq \in 0 .. SeqMod-1
  <2>1. queued[taken + 1] \in QueueType
    BY <1>2 DEF OutputProcessor, RxTypeOK
  <2> QED
    BY <2>1 DEF QueueType
<1>4. lost' \in Nat
  <2> DEFINE gap == (queued[taken + 1].seq - lastSeq - 1) % SeqMod
  <2>1. \A x \in Int : x % SeqMod \in Nat
    OBVIOUS
  <2>2. gap \in Nat
    <3>1. queued[taken + 1].seq - lastSeq - 1 \in Int
      BY <1>2, <1>3 DEF RxTypeOK
    <3> QED
      BY <2>1, <3>1
  <2>3. lost \in Nat /\ (lost' = lost + gap \/ lost' = lost)
    BY <1>2 DEF OutputProcessor, RxTypeOK
  <2> HIDE DEF gap
  <2> QED
    BY ONLY <2>2, <2>3
<1>5. RxTypeOK'
  BY <1>1, <1>2, <1>3, <1>4 DEF RxTypeOK, QueueType, OutputProcessor
<1>6. /\ RingConsecutive' /\ OnlyFrontSent' /\ TargetInRing' /\ EvictedReset'
      /\ QueueBehindRing' /\ InOrder'
  BY <1>1 DEF RxInv, RingConsecutive, OnlyFrontSent, TargetInRing, EvictedReset,
              QueueBehindRing, FrontItem, FrontNext, InOrder
<1> QED
  BY <1>5, <1>6 DEF RxInv

(* The lookup: the block is found, or the ring is extended to it.          *)
LEMMA InvStartData ==
  ASSUME RxInv, NEW p \in DataPackets, StartData(p)
  PROVE  RxInv'
<1>1. p.blk \in Nat /\ p.frag \in Nat /\ p.body \in Bodies
  BY PacketsAssumption
<1>2. RxTypeOK /\ Fits(ring) /\ Consecutive(ring) /\ UnsentBehindFront(ring)
  BY DEF RxInv, RxTypeOK, RingConsecutive, OnlyFrontSent, UnsentBehindFront
<1>3. /\ UNCHANGED <<session, epoch, incarnation, queued, taken, lastSeq, lost>>
      /\ pc = "idle" /\ pc' = "evict" /\ scan' = 0
  BY DEF StartData, sessionVars, queueVars
<1>4. InOrder'
  BY <1>3 DEF RxInv, InOrder
<1>5. /\ ring.front \in Slots /\ ring.alloc \in 0 .. RingSize
      /\ \A s \in Slots : ring.items[s] \in ItemType(ring.k, ring.n)
      /\ \A j \in 0 .. 2 * RingSize : Slot(ring, j) \in Slots
      /\ Slot(ring, 0) = ring.front
      /\ ring.k \in Nat /\ ring.n \in Nat /\ ring.k <= ring.n
  BY <1>2, SlotFits DEF Fits
<1>6. CASE Holders(ring, p.blk) # {}
  <2>1. PICK s \in Holders(ring, p.blk) :
          cur' = [slot |-> s, frag |-> p.frag, body |-> p.body]
    BY <1>6 DEF StartData
  <2>2. evicted' = <<>> /\ ring' = ring
    BY <1>6 DEF StartData
  <2>3. s \in ActiveSlots(ring) /\ s \in Slots
    BY <1>5 DEF Holders, ActiveSlots
  <2>4. cur' \in [slot : Slots, frag : Nat, body : Bodies] /\ cur'.slot = s
    BY <1>1, <2>1, <2>3
  <2>5. RxTypeOK'
    BY <1>2, <1>3, <1>5, <2>2, <2>4 DEF RxTypeOK, QueueType
  <2>6. FrontItem' = FrontItem /\ FrontNext' = FrontNext
    BY <1>3, <2>2 DEF FrontItem, FrontNext
  <2>7. QueueBehindRing'
    BY <1>3, <2>2, <2>6 DEF RxInv, QueueBehindRing
  <2>8. RingConsecutive' /\ OnlyFrontSent'
    BY <2>2 DEF RxInv, RingConsecutive, OnlyFrontSent
  <2>9. TargetInRing' /\ EvictedReset'
    BY <1>3, <2>2, <2>3, <2>4 DEF TargetInRing, EvictedReset
  <2> QED
    BY <1>4, <2>5, <2>7, <2>8, <2>9 DEF RxInv
<1>7. CASE Holders(ring, p.blk) = {}
  <2> DEFINE m == NewBlocks(ring, p.blk)
             o == Overflow(ring, m)
             e == Slot(ring, ring.alloc + m - 1)
  <2>1. /\ cur' = [slot |-> e, frag |-> p.frag, body |-> p.body]
        /\ evicted' = EvictedSlots(ring, m)
        /\ ring' = Push(ring, p.blk, m)
    BY <1>7 DEF StartData
  <2>2. ring.lastKnown < p.blk
    BY <1>1, <1>5, <1>7, SlotFits, <1>2
       DEF StartData, Acceptable, TooOld, NoBlock
  <2> HIDE DEF m, o
  <2>3. /\ m \in 1 .. RingSize
        /\ m <= p.blk - ring.lastKnown
        /\ o \in 0 .. ring.alloc
        /\ Fits(ring')
        /\ Consecutive(ring')
        /\ ring'.k = ring.k /\ ring'.n = ring.n
        /\ ring'.lastKnown = p.blk
        /\ ring'.front = Slot(ring, o)
        /\ ring'.alloc = ring.alloc + m - o
        /\ \A j \in 0 .. ring'.alloc-1 :
             /\ Slot(ring', j) = Slot(ring, o + j)
             /\ ring'.items[Slot(ring', j)] =
                  IF o + j < ring.alloc THEN ring.items[Slot(ring, o + j)]
                  ELSE Item(p.blk + (o + j - ring.alloc) + 1 - m, ring.n)
        /\ \A i \in 1 .. o : \E c \in Nat :
             ring'.items[Slot(ring, i - 1)] = Item(c, ring.n)
    BY <1>1, <1>2, <2>1, <2>2, PushRing DEF m, o
  <2>31. /\ ring'.alloc \in 1 .. RingSize
         /\ Slot(ring', 0) = ring'.front
         /\ ring.lastKnown \in Int
         /\ m \in Nat /\ o \in Nat /\ ring.alloc \in Nat
    <3>1. ring'.alloc \in 0 .. RingSize /\ Slot(ring', 0) = ring'.front
      BY <2>3, SlotFits
    <3>2. m \in 1 .. RingSize /\ o \in 0 .. ring.alloc /\ ring'.alloc = ring.alloc + m - o
      BY <2>3
    <3>3. ring.lastKnown \in Int
      BY <1>2, SlotFits DEF NoBlock
    <3> QED
      BY <1>5, <3>1, <3>2, <3>3
  <2>32. \A c, n : /\ Item(c, n).blk = c /\ Item(c, n).next = 0
                   /\ \A f \in 0 .. n-1 : Item(c, n).frags[f] = Missing
    BY DEF Item
  <2>4. e \in Slots
    BY <1>5, <2>3
  <2>5. /\ Len(evicted') = o
        /\ \A i \in 1 .. o : evicted'[i] = Slot(ring, i - 1)
        /\ evicted' \in Seq(Slots)
    <3>1. evicted' = [i \in 1 .. o |-> Slot(ring, i - 1)]
      BY <2>1 DEF EvictedSlots, o
    <3>2. \A i \in 1 .. o : Slot(ring, i - 1) \in Slots
      BY <1>5, <2>3
    <3>3. o \in Nat
      BY <1>5, <2>3
    <3> QED
      BY <3>1, <3>2, <3>3
  <2>6. cur' \in [slot : Slots, frag : Nat, body : Bodies] /\ cur'.slot = e
    BY <1>1, <2>1, <2>4
  <2>7. RxTypeOK'
    BY <1>2, <1>3, <1>5, <2>3, <2>5, <2>6 DEF RxTypeOK, QueueType
  <2>8. e \in ActiveSlots(ring')
    <3>1. ring'.alloc - 1 \in 0 .. ring'.alloc-1
      BY <2>31
    <3>2. Slot(ring', ring'.alloc - 1) = Slot(ring, o + (ring'.alloc - 1))
      BY <2>3, <3>1
    <3>3. o + (ring'.alloc - 1) = ring.alloc + m - 1
      BY <1>5, <2>3
    <3> QED
      BY <3>1, <3>2, <3>3 DEF ActiveSlots
  <2>9. TargetInRing'
    BY <1>3, <2>6, <2>8 DEF TargetInRing
  <2>10. EvictedReset'
    <3>1. ASSUME NEW i \in 1 .. o, NEW f \in 0 .. ring.n-1
          PROVE  ring'.items[evicted'[i]].frags[f] = Missing
      <4>1. PICK c \in Nat : ring'.items[Slot(ring, i - 1)] = Item(c, ring.n)
        BY <2>3
      <4>2. evicted'[i] = Slot(ring, i - 1)
        BY <2>5
      <4> QED
        BY <2>32, <4>1, <4>2
    <3> QED
      BY <2>3, <2>5, <3>1 DEF EvictedReset
  <2>11. OnlyFrontSent'
    <3>1. ASSUME NEW j \in 1 .. ring'.alloc-1
          PROVE  ring'.items[Slot(ring', j)].next = 0
      <4>1. j \in 0 .. ring'.alloc-1 /\ ring'.alloc \in Nat
        BY <2>31
      <4>2. CASE o + j < ring.alloc
        <5>1. o + j \in 1 .. ring.alloc-1
          BY <1>5, <2>3, <4>2
        <5> QED
          BY <1>2, <2>3, <4>1, <4>2, <5>1 DEF UnsentBehindFront
      <4>3. CASE ~(o + j < ring.alloc)
        BY <2>3, <2>32, <4>1, <4>3
      <4> QED
        BY <4>2, <4>3
    <3> QED
      BY <3>1 DEF OnlyFrontSent
  <2>12. QueueBehindRing'
    <3>1. ASSUME NEW i \in 1 .. Len(queued), queued[i].inc = incarnation
          PROVE  /\ queued[i].blk <= ring'.lastKnown
                 /\ ring'.alloc > 0 => Behind(queued[i], FrontItem'.blk, FrontNext')
      <4>1. /\ queued[i].blk \in Nat
            /\ queued[i].blk <= ring.lastKnown
            /\ ring.alloc > 0 => Behind(queued[i], FrontItem.blk, FrontItem.next)
        <5>1. queued[i].blk \in Nat
          BY <1>2, QueueEntries DEF RxTypeOK
        <5>2. FrontNext = FrontItem.next
          BY <1>3 DEF FrontNext
        <5> QED
          BY <3>1, <5>1, <5>2 DEF RxInv, QueueBehindRing
      <4>2. ring.lastKnown \in Int
        BY <1>2, SlotFits DEF NoBlock
      <4>3. FrontNext' = FrontItem'.next
        BY <1>3 DEF FrontNext
      <4>4. /\ Slot(ring', 0) = ring'.front
            /\ 0 \in 0 .. ring'.alloc-1
        BY <2>31
      <4>5. FrontItem' = IF o < ring.alloc THEN ring.items[Slot(ring, o)]
                         ELSE Item(p.blk + (o - ring.alloc) + 1 - m, ring.n)
        <5>1. o + 0 = o
          BY <1>5, <2>3
        <5>2. ring'.items[Slot(ring', 0)] =
                IF o + 0 < ring.alloc THEN ring.items[Slot(ring, o + 0)]
                ELSE Item(p.blk + (o + 0 - ring.alloc) + 1 - m, ring.n)
          BY <2>3, <4>4
        <5> QED
          <6>1. FrontItem' = ring'.items[Slot(ring', 0)]
            BY <4>4 DEF FrontItem
          <6> QED
            BY <2>31, <5>1, <5>2, <6>1
      <4>9. queued[i].blk <= ring'.lastKnown
        <5>1. ring'.lastKnown = p.blk
          BY <2>3
        <5> QED
          BY <1>1, <2>2, <4>1, <4>2, <5>1
      <4>6. CASE o = 0 /\ ring.alloc > 0
        <5>1. FrontItem' = FrontItem
          BY <1>5, <4>5, <4>6 DEF FrontItem
        <5> QED
          BY <4>1, <4>3, <4>6, <4>9, <5>1
      <4>7. CASE 0 < o /\ o < ring.alloc
        <5>1. FrontItem'.blk = ring.lastKnown - (ring.alloc-1 - o)
          BY <1>2, <2>31, <4>5, <4>7 DEF Consecutive
        <5>2. FrontItem.blk = ring.lastKnown - (ring.alloc-1)
          BY <1>2, <2>31, <4>7, FrontIsOldest DEF FrontItem
        <5>3. queued[i].blk <= FrontItem.blk
          BY <2>31, <4>1, <4>7, <5>2 DEF Behind
        <5>4. queued[i].blk < FrontItem'.blk
          BY <2>31, <4>1, <4>7, <5>1, <5>2, <5>3
        <5> QED
          BY <4>9, <5>4 DEF Behind
      <4>8. CASE o = ring.alloc
        <5>1. FrontItem'.blk = p.blk + (o - ring.alloc) + 1 - m
          BY <2>31, <2>32, <4>5, <4>8
        <5>2. m <= p.blk - ring.lastKnown
          BY <2>3
        <5>3. \A q, l, b, d \in Int : q <= l /\ d <= b - l => q < b + 1 - d
          OBVIOUS
        <5>4. queued[i].blk < p.blk + 1 - m
          <6>1. queued[i].blk \in Int /\ queued[i].blk <= ring.lastKnown
            BY <4>1
          <6>2. p.blk \in Int /\ m \in Int /\ ring.lastKnown \in Int
            BY <1>1, <2>31
          <6> QED
            BY <5>2, <5>3, <6>1, <6>2
        <5>5. p.blk + (o - ring.alloc) + 1 - m = p.blk + 1 - m
          BY <1>1, <2>31, <4>8
        <5>6. queued[i].blk < FrontItem'.blk
          BY <5>1, <5>4, <5>5
        <5> QED
          BY <4>9, <5>6 DEF Behind
      <4> QED
        BY <1>5, <2>3, <4>6, <4>7, <4>8
    <3> QED
      BY <1>3, <3>1 DEF QueueBehindRing
  <2>13. RingConsecutive'
    BY <2>3 DEF RingConsecutive
  <2> QED
    BY <1>4, <2>7, <2>9, <2>10, <2>11, <2>12, <2>13 DEF RxInv
<1> QED
  BY <1>6, <1>7

(* What the steps of a handler may use of the invariant.                   *)
LEMMA InvFacts ==
  ASSUME RxInv
  PROVE  /\ RxTypeOK /\ InOrder
         /\ Fits(ring) /\ Consecutive(ring) /\ UnsentBehindFront(ring)
         /\ ring.front \in Slots
         /\ \A s \in Slots : ring.items[s] \in ItemType(ring.k, ring.n)
         /\ ring.k \in Nat /\ ring.n \in Nat /\ ring.k <= ring.n
         /\ queued \in Seq(QueueType)
         /\ BehindRing(queued, ring, FrontNext)
         /\ pc # "idle" => /\ ring.alloc > 0
                           /\ cur.slot \in Slots
                           /\ cur.slot \in ActiveSlots(ring)
         /\ scan \in 0 .. ring.k
<1>1. /\ RxTypeOK /\ InOrder
      /\ Fits(ring) /\ Consecutive(ring) /\ UnsentBehindFront(ring)
      /\ queued \in Seq(QueueType) /\ scan \in 0 .. ring.k
  BY DEF RxInv, RxTypeOK, RingConsecutive, OnlyFrontSent, UnsentBehindFront
<1>2. BehindRing(queued, ring, FrontNext)
  BY DEF RxInv, QueueBehindRing, BehindRing, FrontItem
<1>3. pc # "idle" => cur.slot \in ActiveSlots(ring)
  BY DEF RxInv, TargetInRing
<1>4. ring.alloc \in 0 .. RingSize
  BY <1>1, SlotFits
<1>5. \A s \in ActiveSlots(ring) : ring.alloc > 0 /\ s \in Slots
  <2>1. \A j \in 0 .. ring.alloc-1 : Slot(ring, j) \in Slots /\ ring.alloc > 0
    BY <1>1, <1>4, SlotFits
  <2> QED
    BY <2>1 DEF ActiveSlots
<1> QED
  BY <1>1, <1>2, <1>3, <1>5, SlotFits DEF Fits

(* The state after a step that keeps the session, from its parts.          *)
LEMMA InvAfter ==
  ASSUME UNCHANGED <<session, epoch, incarnation>>, RxInv,
         queued' \in Seq(QueueType), taken' \in 0 .. Len(queued'),
         lost' \in Nat, lastSeq' = lastSeq,
         \A i, j \in 1 .. Len(queued') : i < j => Before(queued'[i], queued'[j]),
         Fits(ring'), ring'.k = ring.k, ring'.n = ring.n,
         Consecutive(ring'), UnsentBehindFront(ring'),
         pc' \in {"idle", "evict", "contiguous", "flush", "send"},
         cur' = cur, evicted' \in Seq(Slots), scan' \in 0 .. ring.k,
         TargetInRing', EvictedReset',
         BehindRing(queued', ring', FrontNext')
  PROVE  RxInv'
<1>1. RxTypeOK'
  BY DEF RxInv, RxTypeOK, QueueType
<1>2. QueueBehindRing'
  BY DEF QueueBehindRing, BehindRing, FrontItem
<1>3. InOrder' /\ OnlyFrontSent' /\ RingConsecutive'
  BY DEF InOrder, OnlyFrontSent, UnsentBehindFront, RingConsecutive
<1> QED
  BY <1>1, <1>2, <1>3 DEF RxInv

LEMMA InvFlushEvicted ==
  ASSUME RxInv, FlushEvicted
  PROVE  RxInv'
<1>1. /\ UNCHANGED <<session, epoch, incarnation, ring, pc, cur, taken, lastSeq>>
      /\ pc = "evict" /\ evicted # <<>>
  BY DEF FlushEvicted, sessionVars
<1>2. /\ evicted \in Seq(Slots)
      /\ Head(evicted) = evicted[1] /\ 1 \in 1 .. Len(evicted)
      /\ Head(evicted) \in Slots
      /\ Tail(evicted) \in Seq(Slots)
      /\ Len(Tail(evicted)) = Len(evicted) - 1
      /\ \A i \in 1 .. Len(evicted) - 1 : Tail(evicted)[i] = evicted[i + 1]
  BY SMTT(30), <1>1, InvFacts DEF RxTypeOK
<1>3. \A i \in 1 .. Len(evicted), f \in 0 .. ring.n-1 :
        ring.items[evicted[i]].frags[f] = Missing
  BY <1>1 DEF RxInv, EvictedReset
<1>4. UNCHANGED <<queued, lost>> /\ scan' \in 0 .. ring.k
  <2>1. CASE scan = ring.k /\ scan' = 0 /\ NoOutput
    BY <2>1, InvFacts DEF NoOutput
  <2>2. CASE FlushFragment(Head(evicted))
    <3>1. scan \in 0 .. ring.n-1 /\ scan' \in 0 .. ring.k
      BY <2>2, InvFacts DEF FlushFragment
    <3>2. ring.items[Head(evicted)].frags[scan] = Missing
      BY <1>2, <1>3, <3>1
    <3> QED
      BY <2>2, <3>1, <3>2 DEF FlushFragment, NoOutput
  <2> QED
    BY <2>1, <2>2 DEF FlushEvicted
<1>5. evicted' \in Seq(Slots) /\ EvictedReset'
  <2>1. evicted' = evicted \/ evicted' = Tail(evicted)
    BY DEF FlushEvicted
  <2>2. CASE evicted' = evicted
    BY <1>1, <1>2, <1>3, <2>2 DEF EvictedReset
  <2>3. CASE evicted' = Tail(evicted)
    <3>1. ASSUME NEW i \in 1 .. Len(evicted'), NEW f \in 0 .. ring.n-1
          PROVE  ring.items[evicted'[i]].frags[f] = Missing
      <4>1. i + 1 \in 1 .. Len(evicted) /\ evicted'[i] = evicted[i + 1]
        BY <1>2, <2>3
      <4> QED
        BY <1>3, <4>1
    <3> QED
      BY <1>1, <1>2, <2>3, <3>1 DEF EvictedReset
  <2> QED
    BY <2>1, <2>2, <2>3
<1>6. TargetInRing'
  BY <1>1 DEF RxInv, TargetInRing
<1>7. FrontNext' = FrontNext
  BY <1>1 DEF FrontNext, FrontItem
<1>8. \A i, j \in 1 .. Len(queued') : i < j => Before(queued'[i], queued'[j])
  BY <1>4, InvFacts DEF InOrder
<1> QED
  BY <1>1, <1>4, <1>5, <1>6, <1>7, <1>8, InvFacts, InvAfter DEF RxTypeOK

(* A step that changes one item of the ring, but not the block it holds.   *)
LEMMA ItemStep ==
  ASSUME RxInv, NEW s \in Slots, NEW it \in ItemType(ring.k, ring.n),
         it.blk = ring.items[s].blk,
         ring' = [ring EXCEPT !.items[s] = it],
         it.next = ring.items[s].next \/ s = ring.front
  PROVE  /\ Fits(ring') /\ ring'.k = ring.k /\ ring'.n = ring.n
         /\ Consecutive(ring') /\ UnsentBehindFront(ring')
         /\ ring'.alloc = ring.alloc /\ ring'.front = ring.front
         /\ ring'.lastKnown = ring.lastKnown
         /\ ActiveSlots(ring') = ActiveSlots(ring)
         /\ ring'.items[s] = it
         /\ \A x \in Slots : x # s => ring'.items[x] = ring.items[x]
         /\ FrontItem'.blk = FrontItem.blk
         /\ it.next = ring.items[s].next => FrontItem'.next = FrontItem.next
<1>1. /\ Fits(ring') /\ ring'.k = ring.k /\ ring'.n = ring.n
      /\ Consecutive(ring')
      /\ ring'.alloc = ring.alloc /\ ring'.front = ring.front
      /\ ring'.lastKnown = ring.lastKnown
      /\ ActiveSlots(ring') = ActiveSlots(ring)
      /\ ring'.items[s] = it
      /\ \A x \in Slots : x # s => ring'.items[x] = ring.items[x]
      /\ \A j : Slot(ring', j) = Slot(ring, j)
  BY SMTT(30), InvFacts, ItemChange
<1>2. ASSUME NEW j \in 1 .. ring.alloc-1
      PROVE  ring'.items[Slot(ring, j)].next = 0
  <2>1. /\ ring.alloc \in 0 .. RingSize /\ Slot(ring, 0) = ring.front
        /\ Slot(ring, j) \in Slots
    BY SMTT(30), InvFacts, SlotFits
  <2>2. Slot(ring, j) # ring.front
    <3>1. j \in 0 .. RingSize-1 /\ 0 \in 0 .. RingSize-1 /\ j # 0
      BY <2>1
    <3> QED
      BY <2>1, <3>1, InvFacts, SlotInjective
  <2>3. ring.items[Slot(ring, j)].next = 0
    BY InvFacts DEF UnsentBehindFront
  <2> QED
    BY <1>1, <2>1, <2>2, <2>3
<1>3. /\ FrontItem'.blk = FrontItem.blk
      /\ it.next = ring.items[s].next => FrontItem'.next = FrontItem.next
  BY <1>1, InvFacts DEF FrontItem
<1> QED
  BY <1>1, <1>2, <1>3 DEF UnsentBehindFront

LEMMA InvStoreFragment ==
  ASSUME RxInv, StoreFragment
  PROVE  RxInv'
<1>1. /\ UNCHANGED <<session, epoch, incarnation, queued, taken, lastSeq, lost,
                     cur, evicted>>
      /\ pc = "evict" /\ scan' = 0
  BY DEF StoreFragment, sessionVars, queueVars
<1>2. \A i, j \in 1 .. Len(queued') : i < j => Before(queued'[i], queued'[j])
  BY <1>1, InvFacts DEF InOrder
<1>3. /\ evicted' \in Seq(Slots) /\ cur.slot \in ActiveSlots(ring)
      /\ taken \in 0 .. Len(queued) /\ lost \in Nat
      /\ cur.slot \in Slots /\ cur.frag \in Nat /\ cur.body \in Bodies
  BY <1>1, InvFacts DEF RxTypeOK
<1>4. CASE HasRoom(ring, cur.slot, cur.frag)
  <2>1. /\ ring' = Store(ring, cur.slot, cur.frag, cur.body)
        /\ cur.frag < ring.n /\ Fits(ring)
    BY <1>4, InvFacts DEF StoreFragment, HasRoom
  <2> DEFINE it == StoredItem(ring, cur.slot, cur.frag, cur.body)
  <2>2. /\ it \in ItemType(ring.k, ring.n)
        /\ Store(ring, cur.slot, cur.frag, cur.body)
             = [ring EXCEPT !.items[cur.slot] = it]
        /\ it.blk = ring.items[cur.slot].blk
        /\ it.next = ring.items[cur.slot].next
    BY SMTT(30), <1>3, <2>1, StoreItem
  <2> HIDE DEF it
  <2>3. /\ Fits(ring') /\ ring'.k = ring.k /\ ring'.n = ring.n
        /\ Consecutive(ring') /\ UnsentBehindFront(ring')
        /\ ring'.alloc = ring.alloc /\ ring'.front = ring.front
        /\ ring'.lastKnown = ring.lastKnown
        /\ ActiveSlots(ring') = ActiveSlots(ring)
        /\ FrontItem'.blk = FrontItem.blk
        /\ FrontItem'.next = FrontItem.next
    BY <1>3, <2>1, <2>2, ItemStep
  <2>4. /\ pc' \in {"idle", "contiguous", "flush"}
        /\ pc' = "contiguous" => cur.slot = ring'.front
    BY <1>4, <2>1 DEF StoreFragment
  <2>5. TargetInRing' /\ EvictedReset'
    BY <1>1, <1>3, <2>3, <2>4 DEF TargetInRing, EvictedReset
  <2>6. FrontNext = FrontItem.next /\ FrontNext' = FrontItem.next
    <3>1. FrontItem.next \in Nat
      BY InvFacts DEF FrontItem, ItemType
    <3> QED
      BY <1>1, <2>3, <3>1 DEF FrontNext
  <2>7. BehindRing(queued', ring', FrontNext')
    BY <1>1, <2>3, <2>6, InvFacts DEF BehindRing, FrontItem
  <2> QED
    BY <1>1, <1>2, <1>3, <2>3, <2>4, <2>5, <2>7, InvFacts, InvAfter
<1>5. CASE ~HasRoom(ring, cur.slot, cur.frag)
  <2>1. ring' = ring /\ pc' = "idle"
    BY <1>5 DEF StoreFragment
  <2>2. TargetInRing' /\ EvictedReset'
    BY <1>1, <2>1 DEF TargetInRing, EvictedReset
  <2>3. FrontNext' = FrontNext
    BY <1>1, <2>1 DEF FrontNext, FrontItem
  <2> QED
    BY <1>1, <1>2, <1>3, <2>1, <2>2, <2>3, InvFacts, InvAfter
<1> QED
  BY <1>4, <1>5

(* A send of the front block's next fragment, if there is one.             *)
LEMMA SendNext ==
  ASSUME RxInv, pc \in {"contiguous", "send"}, cur.slot = ring.front,
         UNCHANGED <<session, epoch, incarnation, pc, cur, evicted, scan,
                     taken, lastSeq>>,
         FrontItem.next < ring.k,
         ring' = AdvanceFragmentToSend(ring, cur.slot),
         IF FrontItem.frags[FrontItem.next] # Missing
           THEN Output(cur.slot, FrontItem.next) ELSE NoOutput
  PROVE  RxInv'
<1>1. /\ ring.alloc > 0 /\ ring.front \in Slots /\ scan = 0
      /\ FrontNext = FrontItem.next /\ FrontItem.next \in 0 .. ring.k-1
      /\ FrontItem = ring.items[ring.front]
      /\ RxTypeOK /\ InOrder
      /\ taken \in 0 .. Len(queued) /\ lost \in Nat
      /\ evicted \in Seq(Slots)
  <2>1. FrontItem \in ItemType(ring.k, ring.n) /\ FrontItem = ring.items[ring.front]
    BY InvFacts DEF FrontItem
  <2>2. FrontItem.next \in 0 .. ring.k-1
    BY <2>1, InvFacts DEF ItemType
  <2> QED
    BY <2>1, <2>2, InvFacts DEF FrontNext, RxInv, TargetInRing, RxTypeOK
<1>2. AllBehind(queued, FrontItem.blk, FrontItem.next)
  BY <1>1, InvFacts DEF BehindRing, AllBehind
<1>3. /\ queued' \in Seq(QueueType)
      /\ \A i, j \in 1 .. Len(queued') : i < j => Before(queued'[i], queued'[j])
      /\ AllBehind(queued', FrontItem.blk, FrontItem.next + 1)
      /\ taken \in 0 .. Len(queued')
      /\ lost' \in Nat
  <2>1. CASE FrontItem.frags[FrontItem.next] # Missing
    BY <1>1, <1>2, <2>1, OutputStep
  <2>2. CASE FrontItem.frags[FrontItem.next] = Missing
    <3>1. UNCHANGED <<queued, lost>>
      BY <2>2 DEF NoOutput
    <3>2. AllBehind(queued, FrontItem.blk, FrontItem.next + 1)
      BY <1>1, <1>2, InvFacts, BehindLater
    <3> QED
      BY <1>1, <3>1, <3>2, InvFacts DEF InOrder
  <2> QED
    BY <2>1, <2>2
<1>4. PICK it \in ItemType(ring.k, ring.n) :
        /\ ring' = [ring EXCEPT !.items[ring.front] = it]
        /\ it.blk = ring.items[ring.front].blk
        /\ it.next = ring.items[ring.front].next + 1
  <2>1. /\ Fits(ring) /\ ring.front \in Slots
        /\ ring.items[ring.front].next < ring.k
        /\ ring' = AdvanceFragmentToSend(ring, ring.front)
    BY <1>1, InvFacts
  <2>2. \E it \in ItemType(ring.k, ring.n) :
          /\ AdvanceFragmentToSend(ring, ring.front)
               = [ring EXCEPT !.items[ring.front] = it]
          /\ it.blk = ring.items[ring.front].blk
          /\ it.next = ring.items[ring.front].next + 1
          /\ it.frags = ring.items[ring.front].frags
          /\ it.has = ring.items[ring.front].has
    BY ONLY <2>1, MarkSent, Zenon
  <2> QED
    BY <2>1, <2>2
<1>5. /\ Fits(ring') /\ ring'.k = ring.k /\ ring'.n = ring.n
      /\ Consecutive(ring') /\ UnsentBehindFront(ring')
      /\ ring'.alloc = ring.alloc /\ ring'.front = ring.front
      /\ ActiveSlots(ring') = ActiveSlots(ring)
      /\ ring'.items[ring.front] = it
  BY <1>1, <1>4, ItemStep
<1>6. FrontItem' = it /\ FrontNext' = it.next
  BY <1>5 DEF FrontItem, FrontNext
<1>7. AllBehind(queued', ring'.items[ring'.front].blk, FrontNext')
  BY <1>1, <1>3, <1>4, <1>5, <1>6
<1>8. BehindRing(queued', ring', FrontNext')
  BY <1>1, <1>3, <1>5, <1>7, BehindFront
<1>9. TargetInRing' /\ EvictedReset'
  BY <1>1, <1>5 DEF RxInv, TargetInRing, EvictedReset
<1> QED
  BY <1>1, <1>3, <1>5, <1>8, <1>9, InvFacts, InvAfter

LEMMA InvSendContiguous ==
  ASSUME RxInv, SendContiguous
  PROVE  RxInv'
<1>1. pc = "contiguous" /\ cur.slot = ring.front
  BY DEF SendContiguous, RxInv, TargetInRing
<1> QED
  BY <1>1, SendNext DEF SendContiguous, FrontItem, sessionVars, handlerVars

(* The end of a block's handling: the ring moves past it.                  *)
LEMMA EndBlock ==
  ASSUME RxInv, pc # "idle", pc' = "idle", scan = 0,
         UNCHANGED <<session, epoch, incarnation, queued, taken, lastSeq, lost,
                     cur, evicted, scan>>,
         ring' = Advance(ring)
  PROVE  RxInv'
<1>1. ring.alloc > 0
  BY InvFacts
<1>2. /\ Fits(ring') /\ ring'.k = ring.k /\ ring'.n = ring.n
      /\ Consecutive(ring') /\ UnsentBehindFront(ring')
      /\ BehindRing(queued, ring', FrontNext')
  BY <1>1, InvFacts, AdvancePastFront
<1>3. TargetInRing' /\ EvictedReset'
  BY DEF TargetInRing, EvictedReset
<1>4. /\ evicted' \in Seq(Slots) /\ taken \in 0 .. Len(queued) /\ lost \in Nat
      /\ \A i, j \in 1 .. Len(queued') : i < j => Before(queued'[i], queued'[j])
  BY InvFacts DEF RxTypeOK, InOrder
<1> QED
  BY <1>2, <1>3, <1>4, InvFacts, InvAfter

LEMMA InvEndContiguous ==
  ASSUME RxInv, EndContiguous
  PROVE  RxInv'
<1>1. /\ UNCHANGED <<session, epoch, incarnation, queued, taken, lastSeq, lost,
                     cur, evicted, scan>>
      /\ pc = "contiguous" /\ scan = 0 /\ cur.slot = ring.front
  BY DEF EndContiguous, sessionVars, queueVars, RxInv, TargetInRing
<1>2. CASE IsComplete(ring, cur.slot)
  BY <1>1, <1>2, EndBlock DEF EndContiguous
<1>3. CASE ~IsComplete(ring, cur.slot)
  <2>1. ring' = ring /\ pc' \in {"flush", "idle"}
    BY <1>3 DEF EndContiguous
  <2>2. FrontItem' = FrontItem /\ FrontItem.next \in Nat
    BY <2>1, InvFacts DEF FrontItem, ItemType
  <2>3. FrontNext' = FrontNext
    BY <1>1, <2>1, <2>2 DEF FrontNext
  <2>4. TargetInRing' /\ EvictedReset'
    BY <1>1, <2>1, InvFacts DEF TargetInRing, EvictedReset
  <2>5. /\ evicted' \in Seq(Slots) /\ taken \in 0 .. Len(queued) /\ lost \in Nat
        /\ \A i, j \in 1 .. Len(queued') : i < j => Before(queued'[i], queued'[j])
    BY <1>1, InvFacts DEF RxTypeOK, InOrder
  <2> QED
    BY <1>1, <2>1, <2>3, <2>4, <2>5, InvFacts, InvAfter
<1> QED
  BY <1>2, <1>3

LEMMA InvFlushOlder ==
  ASSUME RxInv, FlushOlder
  PROVE  RxInv'
<1>1. /\ UNCHANGED <<session, epoch, incarnation, pc, cur, evicted, taken, lastSeq>>
      /\ pc = "flush" /\ ring.front # cur.slot
  BY DEF FlushOlder, sessionVars
<1>2. /\ evicted' \in Seq(Slots) /\ taken \in 0 .. Len(queued) /\ lost \in Nat
      /\ RxTypeOK /\ InOrder /\ ring.alloc > 0 /\ ring.front \in Slots
      /\ cur.slot \in ActiveSlots(ring)
  BY <1>1, InvFacts DEF RxTypeOK
<1>3. EvictedReset'
  BY <1>1 DEF EvictedReset
<1>4. FrontItem = ring.items[ring.front] /\ FrontItem.next \in Nat
  BY <1>2, InvFacts DEF FrontItem, ItemType
<1>5. CASE scan = ring.k /\ scan' = 0 /\ ring' = Advance(ring) /\ NoOutput
  <2>1. UNCHANGED <<queued, lost>>
    BY <1>5 DEF NoOutput
  <2>2. /\ Fits(ring') /\ ring'.k = ring.k /\ ring'.n = ring.n
        /\ Consecutive(ring') /\ UnsentBehindFront(ring')
        /\ BehindRing(queued, ring', FrontNext')
        /\ cur.slot \in ActiveSlots(ring')
    BY <1>1, <1>2, <1>5, InvFacts, AdvancePastFront
  <2>3. TargetInRing'
    BY <1>1, <1>5, <2>2 DEF TargetInRing
  <2>4. \A i, j \in 1 .. Len(queued') : i < j => Before(queued'[i], queued'[j])
    BY <1>2, <2>1 DEF InOrder
  <2> QED
    BY <1>1, <1>2, <1>3, <1>5, <2>1, <2>2, <2>3, <2>4, InvFacts, InvAfter
<1>6. CASE FlushFragment(ring.front) /\ ring' = ring
  <2>1. scan \in 0 .. ring.k-1 /\ scan' = scan + 1
    BY <1>6, InvFacts DEF FlushFragment
  <2>2. AllBehind(queued, FrontItem.blk, FrontNext)
    BY <1>2, <1>4, InvFacts DEF BehindRing, AllBehind
  <2>3. /\ FrontNext \in Int /\ FrontNext' \in Int /\ FrontNext <= FrontNext'
        /\ scan >= FrontItem.next => FrontNext = scan /\ FrontNext' = scan + 1
    <3>1. FrontNext = IF scan > FrontItem.next THEN scan ELSE FrontItem.next
      BY <1>1 DEF FrontNext
    <3>2. FrontNext' = IF scan + 1 > FrontItem.next THEN scan + 1 ELSE FrontItem.next
      BY <1>1, <1>6, <2>1 DEF FrontNext, FrontItem
    <3> QED
      BY <1>4, <2>1, <3>1, <3>2
  <2>4. /\ queued' \in Seq(QueueType)
        /\ \A i, j \in 1 .. Len(queued') : i < j => Before(queued'[i], queued'[j])
        /\ AllBehind(queued', FrontItem.blk, FrontNext')
        /\ taken \in 0 .. Len(queued')
        /\ lost' \in Nat
    <3>1. CASE FrontItem.frags[scan] # Missing /\ scan >= FrontItem.next
      <4>1. Output(ring.front, scan)
        BY <1>4, <1>6, <2>1, <3>1 DEF FlushFragment, WasSent
      <4>2. AllBehind(queued, FrontItem.blk, scan)
        BY <2>2, <2>3, <3>1
      <4>3. /\ queued' \in Seq(QueueType)
            /\ \A i, j \in 1 .. Len(queued') : i < j => Before(queued'[i], queued'[j])
            /\ AllBehind(queued', FrontItem.blk, scan + 1)
            /\ taken \in 0 .. Len(queued')
            /\ lost' \in Nat
        BY <1>2, <1>4, <2>1, <3>1, <4>1, <4>2, OutputStep
      <4> QED
        BY <2>3, <3>1, <4>3
    <3>2. CASE ~(FrontItem.frags[scan] # Missing /\ scan >= FrontItem.next)
      <4>1. UNCHANGED <<queued, lost>>
        BY <1>4, <1>6, <2>1, <3>2 DEF FlushFragment, WasSent, NoOutput
      <4>2. AllBehind(queued, FrontItem.blk, FrontNext')
        BY <2>2, <2>3, InvFacts, BehindLater
      <4> QED
        BY <1>2, <4>1, <4>2, InvFacts DEF InOrder
    <3> QED
      BY <3>1, <3>2
  <2>5. BehindRing(queued', ring', FrontNext')
    <3>1. AllBehind(queued', ring.items[ring.front].blk, FrontNext')
      BY <1>4, <2>4
    <3>2. BehindRing(queued', ring, FrontNext')
      BY <1>2, <2>4, <3>1, InvFacts, BehindFront
    <3> QED
      BY <1>6, <3>2
  <2>6. TargetInRing'
    BY <1>1, <1>2, <1>6 DEF TargetInRing
  <2> QED
    BY <1>1, <1>2, <1>3, <1>6, <2>1, <2>4, <2>5, <2>6, InvFacts, InvAfter
<1> QED
  BY <1>5, <1>6 DEF FlushOlder

LEMMA InvCompleteBlock ==
  ASSUME RxInv, CompleteBlock
  PROVE  RxInv'
<1>1. /\ UNCHANGED <<session, epoch, incarnation, queued, taken, lastSeq, lost,
                     cur, evicted, scan>>
      /\ pc = "flush" /\ pc' = "send" /\ ring.front = cur.slot /\ scan = 0
  BY DEF CompleteBlock, sessionVars, queueVars, RxInv, TargetInRing
<1>2. /\ evicted' \in Seq(Slots) /\ taken \in 0 .. Len(queued) /\ lost \in Nat
      /\ \A i, j \in 1 .. Len(queued') : i < j => Before(queued'[i], queued'[j])
      /\ cur.slot \in ActiveSlots(ring) /\ cur.slot \in Slots
  BY <1>1, InvFacts DEF RxTypeOK, InOrder
<1>3. FrontItem.next \in Nat
  BY InvFacts DEF FrontItem, ItemType
<1>4. FrontNext = FrontItem.next
  BY <1>1, <1>3 DEF FrontNext
<1>5. /\ Fits(ring') /\ ring'.k = ring.k /\ ring'.n = ring.n
      /\ Consecutive(ring') /\ UnsentBehindFront(ring')
      /\ ring'.alloc = ring.alloc /\ ring'.front = ring.front
      /\ ring'.lastKnown = ring.lastKnown
      /\ ActiveSlots(ring') = ActiveSlots(ring)
      /\ FrontItem'.blk = FrontItem.blk
      /\ FrontItem'.next = FrontItem.next
  <2>1. CASE ring' = Recover(ring, cur.slot)
    <3>1. PICK it \in ItemType(ring.k, ring.n) :
            /\ Recover(ring, cur.slot) = [ring EXCEPT !.items[cur.slot] = it]
            /\ it.blk = ring.items[cur.slot].blk
            /\ it.next = ring.items[cur.slot].next
            /\ \A f \in 0 .. ring.k-1 : it.frags[f] # Missing
      BY <1>2, InvFacts, RecoverItem
    <3> QED
      BY <1>2, <2>1, <3>1, ItemStep
  <2>2. CASE ring' = ring
    BY <2>2, InvFacts DEF FrontItem
  <2> QED
    BY <2>1, <2>2 DEF CompleteBlock
<1>6. FrontNext' = FrontItem.next
  BY <1>1, <1>5 DEF FrontNext
<1>7. BehindRing(queued', ring', FrontNext')
  BY <1>1, <1>4, <1>5, <1>6, InvFacts DEF BehindRing, FrontItem
<1>8. TargetInRing' /\ EvictedReset'
  BY <1>1, <1>2, <1>5 DEF TargetInRing, EvictedReset
<1> QED
  BY <1>1, <1>2, <1>5, <1>7, <1>8, InvFacts, InvAfter

LEMMA InvSendAll ==
  ASSUME RxInv, SendAll
  PROVE  RxInv'
<1>1. /\ UNCHANGED <<session, epoch, incarnation, cur, evicted, scan, taken, lastSeq>>
      /\ pc = "send" /\ scan = 0 /\ cur.slot = ring.front
  BY DEF SendAll, sessionVars, RxInv, TargetInRing
<1>2. CASE pc' = "idle" /\ ring' = Advance(ring) /\ NoOutput
  BY <1>1, <1>2, EndBlock DEF NoOutput
<1>3. CASE pc' = pc
  BY <1>1, <1>3, SendNext DEF SendAll, FrontItem
<1> QED
  BY <1>2, <1>3 DEF SendAll
-----------------------------------------------------------------------------
LEMMA InvNext == RxInv /\ [RxNext]_rxVars => RxInv'
<1> SUFFICES ASSUME RxInv, [RxNext]_rxVars PROVE RxInv'
  OBVIOUS
<1>1. CASE \E a \in Announcements : ProcessSession(a) \/ RefuseSession(a)
  BY <1>1, InvProcessSession, InvUnchanged DEF RefuseSession
<1>2. CASE \E p \in DataPackets : StartData(p) \/ RefuseData(p)
  BY <1>2, InvStartData, InvUnchanged DEF RefuseData
<1>3. CASE HandlerStep
  BY <1>3, InvFlushEvicted, InvStoreFragment, InvSendContiguous,
     InvEndContiguous, InvFlushOlder, InvCompleteBlock, InvSendAll
     DEF HandlerStep
<1>4. CASE OutputProcessor
  BY <1>4, InvOutputProcessor
<1>5. CASE UNCHANGED rxVars
  BY <1>5, InvUnchanged
<1> QED
  BY <1>1, <1>2, <1>3, <1>4, <1>5 DEF RxNext, ProcessPacket

(* The frontier invariant holds throughout.                                *)
LEMMA Invariance == RxSpec => []RxInv
  BY InvInit, InvNext, PTL DEF RxSpec

(* The frontier invariant as a run checks it: everything output lies       *)
(* behind a frontier in the front block, the blocks beyond it have sent    *)
(* nothing, the block being handled is in the ring and evicted slots are   *)
(* empty when flushEvictedBlock looks at them.                             *)
THEOREM FrontierHolds == RxSpec => []RxInv
  BY Invariance

(* The aggregator's variables keep their types: no index leaves the ring,  *)
(* whatever block and fragment numbers packets carry.                      *)
THEOREM TypeCorrect == RxSpec => []RxTypeOK
<1>1. RxInv => RxTypeOK
  BY DEF RxInv
<1> QED
  BY <1>1, Invariance, PTL

(* The ring's blocks are consecutive and end at lastKnown (ring.go), so no *)
(* block is in two slots and none that could still be wanted is refused.   *)
THEOREM RingStaysConsecutive == RxSpec => []RingConsecutive
<1>1. RxInv => RingConsecutive
  BY DEF RxInv
<1> QED
  BY <1>1, Invariance, PTL

(* Packets are output in the order they were sent, each at most once per   *)
(* session, whatever the radio and the receivers' goroutines do.           *)
THEOREM OutputInOrder == RxSpec => []InOrder
<1>1. RxInv => InOrder
  BY DEF RxInv
<1> QED
  BY <1>1, Invariance, PTL
-----------------------------------------------------------------------------
(***************************************************************************)
(* No block is given up once it can be decoded.  The record of a block in  *)
(* the ring agrees with what was stored of it, every block but the one     *)
(* being handled waits for its k-th fragment, and a block that has left    *)
(* the ring was short of fragments or was passed to the output in full.    *)
(***************************************************************************)
Recorded(it, n, S) ==
  /\ it.has = Cardinality(Present(it.frags, 0 .. n-1))
  /\ \A f \in 0 .. n-1 : <<it.blk, f>> \in S <=> it.frags[f] # Missing

SentOffered(it, O) == \A f \in 0 .. it.next-1 : <<it.blk, f>> \in O

AllThere(it, k) == \A f \in 0 .. k-1 : it.frags[f] # Missing

OfferedInFull(b, k, O) == \A f \in 0 .. k-1 : <<b, f>> \in O

BlocksInRing ==
  \A s \in ActiveSlots(ring) :
    LET it == ring.items[s]
    IN  /\ SentOffered(it, offered)
        /\ pc # "send" \/ s # cur.slot => Recorded(it, ring.n, stored)
        /\ pc \notin {"contiguous", "flush", "send"} \/ s # cur.slot
             => it.has < ring.k
        /\ pc = "flush" /\ s = cur.slot => it.has >= ring.k
        /\ pc = "send" /\ s = cur.slot => AllThere(it, ring.k)

ShortOrOffered(b) ==
  Cardinality(StoredOf(b)) < ring.k \/ OfferedInFull(b, ring.k, offered)

BlocksGone ==
  \A e \in stored :
    /\ e \in Nat \X (0 .. ring.n-1)
    /\ e[1] <= ring.lastKnown
    /\ e[1] <= ring.lastKnown - ring.alloc => ShortOrOffered(e[1])

BlockInv == BlocksInRing /\ BlocksGone

(* The blocks in the ring are those from lastKnown-alloc+1 to lastKnown,   *)
(* each in one slot.                                                       *)
LEMMA BlocksHeld ==
  ASSUME NEW r, Fits(r), Consecutive(r)
  PROVE  /\ \A s \in ActiveSlots(r) :
              /\ s \in Slots /\ r.alloc > 0 /\ r.lastKnown \in Nat
              /\ r.items[s].blk \in Nat
              /\ r.lastKnown - r.alloc < r.items[s].blk
              /\ r.items[s].blk <= r.lastKnown
              /\ \A x \in ActiveSlots(r) :
                   r.items[x].blk = r.items[s].blk => x = s
         /\ \A b \in Int : r.lastKnown - r.alloc < b /\ b <= r.lastKnown =>
              Holders(r, b) # {}
<1>1. r.alloc \in Nat /\ r.lastKnown \in Int
  BY SlotFits DEF NoBlock
<1>2. ASSUME NEW j \in 0 .. r.alloc-1
      PROVE  /\ Slot(r, j) \in Slots /\ r.alloc > 0 /\ r.lastKnown \in Nat
             /\ r.items[Slot(r, j)].blk = r.lastKnown - (r.alloc-1 - j)
             /\ r.items[Slot(r, j)].blk \in Nat
  <2>1. Slot(r, j) \in Slots /\ r.alloc > 0
    BY SlotFits
  <2>2. r.items[Slot(r, j)] \in ItemType(r.k, r.n)
    BY <2>1, SlotFits
  <2> QED
    BY <2>1, <2>2, FrontIsOldest DEF Consecutive, ItemType
<1>3. ASSUME NEW s \in ActiveSlots(r)
      PROVE  /\ s \in Slots /\ r.alloc > 0 /\ r.lastKnown \in Nat
             /\ r.items[s].blk \in Nat
             /\ r.lastKnown - r.alloc < r.items[s].blk
             /\ r.items[s].blk <= r.lastKnown
             /\ \A x \in ActiveSlots(r) : r.items[x].blk = r.items[s].blk => x = s
  <2>1. PICK j \in 0 .. r.alloc-1 : s = Slot(r, j)
    BY DEF ActiveSlots
  <2>2. ASSUME NEW x \in ActiveSlots(r), r.items[x].blk = r.items[s].blk
        PROVE  x = s
    <3>1. PICK i \in 0 .. r.alloc-1 : x = Slot(r, i)
      BY DEF ActiveSlots
    <3>2. r.items[x].blk = r.lastKnown - (r.alloc-1 - i)
      BY <1>2, <3>1
    <3>3. r.items[s].blk = r.lastKnown - (r.alloc-1 - j)
      BY <1>2, <2>1
    <3>4. r.lastKnown - (r.alloc-1 - i) = r.lastKnown - (r.alloc-1 - j)
      BY <2>2, <3>2, <3>3
    <3>5. i = j
      BY <1>1, <3>4
    <3> QED
      BY <2>1, <3>1, <3>5
  <2> QED
    BY <1>1, <1>2, <2>1, <2>2
<1>4. ASSUME NEW b \in Int, r.lastKnown - r.alloc < b, b <= r.lastKnown
      PROVE  Holders(r, b) # {}
  <2> DEFINE j == b - r.lastKnown + r.alloc - 1
  <2>1. j \in 0 .. r.alloc-1 /\ r.items[Slot(r, j)].blk = b
    BY <1>1, <1>2, <1>4
  <2> QED
    BY <2>1 DEF Holders, ActiveSlots
<1> QED
  BY <1>3, <1>4

(* Counting fragments.                                                     *)
LEMMA PresentFinite ==
  ASSUME NEW n \in Int, NEW frags
  PROVE  /\ IsFiniteSet(Present(frags, 0 .. n-1))
         /\ Cardinality(Present(frags, 0 .. n-1)) \in Nat
<1>1. IsFiniteSet(0 .. n-1)
  BY FS_Interval
<1>2. Present(frags, 0 .. n-1) \in SUBSET (0 .. n-1)
  BY DEF Present
<1> QED
  BY <1>1, <1>2, FS_Subset, FS_CardinalityType

LEMMA NewItemRecorded ==
  ASSUME NEW b \in Nat, NEW n \in Nat, NEW S, \A f \in 0 .. n-1 : <<b, f>> \notin S,
         NEW O, NEW it, it = Item(b, n)
  PROVE  /\ Recorded(it, n, S)
         /\ SentOffered(it, O)
         /\ it.has = 0
<1>1. it.has = 0 /\ it.next = 0 /\ it.blk = b
      /\ \A f \in 0 .. n-1 : it.frags[f] = Missing
  BY DEF Item
<1>2. Present(it.frags, 0 .. n-1) = {}
  BY <1>1 DEF Present
<1> QED
  BY <1>1, <1>2, FS_EmptySet DEF Recorded, SentOffered

LEMMA StoredRecorded ==
  ASSUME Fits(ring), cur.slot \in Slots, cur.frag \in Nat, cur.body \in Bodies,
         HasRoom(ring, cur.slot, cur.frag),
         Recorded(ring.items[cur.slot], ring.n, stored),
         NEW it, it = StoredItem(ring, cur.slot, cur.frag, cur.body)
  PROVE  /\ Recorded(it, ring.n,
                      stored \cup {<<ring.items[cur.slot].blk, cur.frag>>})
         /\ it.has = ring.items[cur.slot].has + 1
<1> DEFINE old == ring.items[cur.slot]
           f == cur.frag
<1>1. old \in ItemType(ring.k, ring.n) /\ f \in 0 .. ring.n-1 /\ old.frags[f] = Missing
      /\ ring.n \in Nat
  BY SlotFits DEF HasRoom, Fits
<1>2. /\ it.has = old.has + 1 /\ it.blk = old.blk
      /\ it.frags = [old.frags EXCEPT ![f] = cur.body]
  BY <1>1 DEF StoredItem, ItemType
<1>3. /\ it.frags[f] = cur.body /\ cur.body # Missing
      /\ \A g \in 0 .. ring.n-1 : g # f => it.frags[g] = old.frags[g]
  BY <1>1, <1>2, BodiesAssumption DEF ItemType
<1>4. Present(it.frags, 0 .. ring.n-1) = Present(old.frags, 0 .. ring.n-1) \cup {f}
  BY <1>1, <1>3 DEF Present
<1>5. f \notin Present(old.frags, 0 .. ring.n-1)
  BY <1>1 DEF Present
<1>6. Cardinality(Present(it.frags, 0 .. ring.n-1)) = old.has + 1
  BY <1>1, <1>4, <1>5, PresentFinite, FS_AddElement DEF Recorded
<1>7. ASSUME NEW g \in 0 .. ring.n-1
      PROVE  <<it.blk, g>> \in stored \cup {<<old.blk, f>>} <=> it.frags[g] # Missing
  BY <1>2, <1>3 DEF Recorded
<1> QED
  BY <1>2, <1>6, <1>7 DEF Recorded

(* Steps that leave the ring and what is stored alone.                     *)
LEMMA BlocksKept ==
  ASSUME BlockInv, ring' = ring, stored' = stored, offered \subseteq offered',
         \/ pc' = pc /\ cur' = cur
         \/ pc = "idle" /\ pc' = "evict"
  PROVE  BlockInv'
<1>1. ASSUME NEW s \in ActiveSlots(ring)
      PROVE  LET it == ring.items[s]
             IN  /\ SentOffered(it, offered')
                 /\ pc' # "send" \/ s # cur'.slot => Recorded(it, ring.n, stored)
                 /\ pc' \notin {"contiguous", "flush", "send"} \/ s # cur'.slot
                      => it.has < ring.k
                 /\ pc' = "flush" /\ s = cur'.slot => it.has >= ring.k
                 /\ pc' = "send" /\ s = cur'.slot => AllThere(it, ring.k)
  BY DEF BlockInv, BlocksInRing, SentOffered
<1>2. BlocksInRing'
  BY <1>1 DEF BlocksInRing
<1>3. BlocksGone'
  BY DEF BlockInv, BlocksGone, ShortOrOffered, OfferedInFull, StoredOf
<1> QED
  BY <1>2, <1>3 DEF BlockInv

(* A send of one fragment of the block being handled, or its recovery: the *)
(* item changes in `next' or in its missing fragments.                     *)
LEMMA BlocksItem ==
  ASSUME RxInv, BlockInv, pc # "idle",
         NEW it \in ItemType(ring.k, ring.n),
         it.blk = ring.items[cur.slot].blk,
         ring' = [ring EXCEPT !.items[cur.slot] = it],
         cur' = cur, stored' = stored, offered \subseteq offered',
         SentOffered(it, offered'),
         pc' # "send" => Recorded(it, ring.n, stored),
         pc' \in {"contiguous", "flush", "send"},
         pc' = "flush" => it.has >= ring.k,
         pc' = "send" => AllThere(it, ring.k)
  PROVE  BlockInv'
<1>1. cur.slot \in Slots
  BY InvFacts
<1>2. /\ Fits(ring) /\ Consecutive(ring)
      /\ ring'.k = ring.k /\ ring'.n = ring.n
      /\ ring'.alloc = ring.alloc /\ ring'.lastKnown = ring.lastKnown
      /\ ActiveSlots(ring') = ActiveSlots(ring)
      /\ ring'.items[cur.slot] = it
      /\ \A x \in Slots : x # cur.slot => ring'.items[x] = ring.items[x]
  BY SMTT(30), <1>1, InvFacts, ItemChange
<1>3. ASSUME NEW s \in ActiveSlots(ring)
      PROVE  /\ SentOffered(ring'.items[s], offered')
             /\ pc' # "send" \/ s # cur.slot
                  => Recorded(ring'.items[s], ring.n, stored)
             /\ pc' \notin {"contiguous", "flush", "send"} \/ s # cur.slot
                  => ring'.items[s].has < ring.k
             /\ pc' = "flush" /\ s = cur.slot => ring'.items[s].has >= ring.k
             /\ pc' = "send" /\ s = cur.slot => AllThere(ring'.items[s], ring.k)
  <2>1. CASE s = cur.slot
    BY <1>2, <2>1
  <2>2. CASE s # cur.slot
    <3>1. ring'.items[s] = ring.items[s]
      BY <1>2, <2>2, BlocksHeld
    <3> QED
      BY <2>2, <3>1 DEF BlockInv, BlocksInRing, SentOffered
  <2> QED
    BY <2>1, <2>2
<1>4. BlocksInRing'
  BY <1>2, <1>3 DEF BlocksInRing
<1>5. BlocksGone'
  BY <1>2 DEF BlockInv, BlocksGone, ShortOrOffered, OfferedInFull, StoredOf
<1> QED
  BY <1>4, <1>5 DEF BlockInv

(* The front block leaves the ring.                                        *)
LEMMA BlocksAdvance ==
  ASSUME RxInv, BlockInv, pc # "idle", ring' = Advance(ring), stored' = stored,
         offered' = offered, cur' = cur,
         \/ pc' = "idle" /\ cur.slot = ring.front
         \/ pc' = pc /\ pc = "flush" /\ cur.slot # ring.front,
         ShortOrOffered(FrontItem.blk)
  PROVE  BlockInv'
<1>1. /\ Fits(ring) /\ Consecutive(ring) /\ ring.alloc > 0
      /\ ring.alloc \in Nat /\ ring.lastKnown \in Nat
      /\ FrontItem.blk = ring.lastKnown - (ring.alloc - 1)
  BY InvFacts, FrontIsOldest, SlotFits DEF FrontItem
<1>2. /\ ring'.k = ring.k /\ ring'.n = ring.n
      /\ ring'.lastKnown = ring.lastKnown
      /\ ring'.alloc = ring.alloc - 1
      /\ \A j \in 0 .. ring'.alloc-1 :
           /\ Slot(ring', j) = Slot(ring, j + 1)
           /\ ring'.items[Slot(ring', j)] = ring.items[Slot(ring, j + 1)]
  BY <1>1, AdvanceRing
<1>3. ASSUME NEW s \in ActiveSlots(ring')
      PROVE  /\ s \in ActiveSlots(ring) /\ s # ring.front
             /\ ring'.items[s] = ring.items[s]
  <2>1. PICK j \in 0 .. ring'.alloc-1 : s = Slot(ring', j)
    BY DEF ActiveSlots
  <2>2. j + 1 \in 0 .. ring.alloc-1 /\ s = Slot(ring, j + 1)
    BY <1>1, <1>2, <2>1
  <2>3. /\ j + 1 \in 0 .. RingSize-1 /\ 0 \in 0 .. RingSize-1 /\ j + 1 # 0
        /\ Slot(ring, 0) = ring.front /\ ring.front \in Slots
    BY <1>1, <2>1, <2>2, SlotFits
  <2>4. Slot(ring, j + 1) # Slot(ring, 0)
    BY <2>3, SlotInjective
  <2> QED
    BY <1>2, <2>1, <2>2, <2>3, <2>4 DEF ActiveSlots
<1>4. BlocksInRing'
  BY <1>2, <1>3 DEF BlocksInRing, BlockInv
<1>5. ASSUME NEW e \in stored
      PROVE  /\ e \in Nat \X (0 .. ring.n-1)
             /\ e[1] <= ring.lastKnown
             /\ e[1] <= ring.lastKnown - (ring.alloc - 1) => ShortOrOffered(e[1])
  <2>1. /\ e \in Nat \X (0 .. ring.n-1)
        /\ e[1] <= ring.lastKnown
        /\ e[1] <= ring.lastKnown - ring.alloc => ShortOrOffered(e[1])
    BY DEF BlockInv, BlocksGone
  <2>2. e[1] <= ring.lastKnown - (ring.alloc - 1) =>
          e[1] <= ring.lastKnown - ring.alloc \/ e[1] = FrontItem.blk
    BY <1>1, <2>1
  <2> QED
    BY <2>1, <2>2
<1>6. BlocksGone'
  BY <1>2, <1>5 DEF BlocksGone, ShortOrOffered, StoredOf
<1> QED
  BY <1>4, <1>6 DEF BlockInv

(* What was stored of a block in the ring is in its record.                *)
LEMMA StoredOfItem ==
  ASSUME NEW it, Recorded(it, ring.n, stored)
  PROVE  Cardinality(StoredOf(it.blk)) = it.has
<1>1. StoredOf(it.blk) = Present(it.frags, 0 .. ring.n-1)
  BY DEF StoredOf, Present, Recorded
<1> QED
  BY <1>1 DEF Recorded

LEMMA BlocksInit == RxInit => BlockInv
<1> SUFFICES ASSUME RxInit PROVE BlockInv
  OBVIOUS
<1>1. ActiveSlots(ring) = {} /\ stored = {}
  BY DEF RxInit, NewRing, ActiveSlots
<1> QED
  BY <1>1 DEF BlockInv, BlocksInRing, BlocksGone

LEMMA BlocksProcessSession ==
  ASSUME BlockInv, NEW a, ProcessSession(a)
  PROVE  BlockInv'
<1>1. ActiveSlots(ring') = {} /\ stored' = {}
  BY DEF ProcessSession, Reset, NewRing, ActiveSlots
<1> QED
  BY <1>1 DEF BlockInv, BlocksInRing, BlocksGone

(* Push: the new blocks are empty, those that leave were short.            *)
LEMMA BlocksStartData ==
  ASSUME RxInv, BlockInv, NEW p \in DataPackets, StartData(p)
  PROVE  BlockInv'
<1>1. /\ pc = "idle" /\ pc' = "evict" /\ Acceptable(p)
      /\ stored' = stored /\ offered' = offered
      /\ Fits(ring) /\ Consecutive(ring) /\ ring.n \in Nat
  BY InvFacts DEF StartData
<1>2. CASE Holders(ring, p.blk) # {}
  <2>1. ring' = ring
    BY <1>2 DEF StartData
  <2> QED
    BY <1>1, <2>1, BlocksKept
<1>3. CASE Holders(ring, p.blk) = {}
  <2> DEFINE m == NewBlocks(ring, p.blk)
             o == Overflow(ring, m)
  <2>1. ring' = Push(ring, p.blk, m)
    BY <1>3 DEF StartData
  <2>2. p.blk \in Nat /\ ring.lastKnown < p.blk
    BY <1>1, <1>3, PacketsAssumption, SlotFits DEF Acceptable, TooOld, NoBlock
  <2>3. /\ m \in 1 .. RingSize
        /\ m <= p.blk - ring.lastKnown
        /\ o \in 0 .. ring.alloc
        /\ ring'.k = ring.k /\ ring'.n = ring.n
        /\ ring'.lastKnown = p.blk
        /\ ring'.alloc = ring.alloc + m - o
        /\ \A j \in 0 .. ring'.alloc-1 :
             /\ Slot(ring', j) = Slot(ring, o + j)
             /\ ring'.items[Slot(ring', j)] =
                  IF o + j < ring.alloc THEN ring.items[Slot(ring, o + j)]
                  ELSE Item(p.blk + (o + j - ring.alloc) + 1 - m, ring.n)
    BY <1>1, <2>1, <2>2, PushRing
  <2> HIDE DEF m, o
  <2>4. /\ ring.alloc \in Nat /\ ring.lastKnown \in Int /\ ring.lastKnown >= -1
        /\ ring.alloc > 0 => ring.lastKnown \in Nat
    BY <1>1, SlotFits, FrontIsOldest DEF NoBlock
  <2>5. ASSUME NEW s \in ActiveSlots(ring')
        PROVE  /\ SentOffered(ring'.items[s], offered)
               /\ Recorded(ring'.items[s], ring.n, stored)
               /\ ring'.items[s].has < ring.k
    <3>1. PICK j \in 0 .. ring'.alloc-1 : s = Slot(ring', j)
      BY DEF ActiveSlots
    <3>2. CASE o + j < ring.alloc
      <4>1. o + j \in 0 .. ring.alloc-1
        BY <2>3, <2>4, <3>1, <3>2
      <4>2. Slot(ring, o + j) \in ActiveSlots(ring)
        BY <4>1 DEF ActiveSlots
      <4>3. ring'.items[s] = ring.items[Slot(ring, o + j)]
        BY <2>3, <3>1, <3>2
      <4> QED
        BY <1>1, <4>2, <4>3 DEF BlockInv, BlocksInRing
    <3>3. CASE ~(o + j < ring.alloc)
      <4> DEFINE b == p.blk + (o + j - ring.alloc) + 1 - m
      <4>1. ring'.items[s] = Item(b, ring.n)
        BY <2>3, <3>1, <3>3
      <4>2. b \in Nat /\ b > ring.lastKnown
        BY <2>2, <2>3, <2>4, <3>1, <3>3
      <4>3. \A f \in 0 .. ring.n-1 : <<b, f>> \notin stored
        BY <4>2, <2>4 DEF BlockInv, BlocksGone
      <4> HIDE DEF b
      <4>4. ring.k > 0
        BY <1>1 DEF Fits
      <4>5. /\ Recorded(Item(b, ring.n), ring.n, stored)
            /\ SentOffered(Item(b, ring.n), offered)
            /\ Item(b, ring.n).has = 0
        BY <1>1, <4>2, <4>3, NewItemRecorded
      <4> QED
        BY <1>1, <4>1, <4>4, <4>5
    <3> QED
      BY <3>2, <3>3
  <2>6. BlocksInRing'
    BY <1>1, <2>3, <2>5 DEF BlocksInRing
  <2>7. ASSUME NEW e \in stored
        PROVE  /\ e \in Nat \X (0 .. ring.n-1)
               /\ e[1] <= p.blk
               /\ ShortOrOffered(e[1])
    <3>1. /\ e \in Nat \X (0 .. ring.n-1)
          /\ e[1] <= ring.lastKnown
          /\ e[1] <= ring.lastKnown - ring.alloc => ShortOrOffered(e[1])
      BY DEF BlockInv, BlocksGone
    <3>2. CASE ring.lastKnown - ring.alloc < e[1]
      <4>1. PICK s \in Holders(ring, e[1]) : TRUE
        BY <1>1, <3>1, <3>2, BlocksHeld
      <4>2. /\ Recorded(ring.items[s], ring.n, stored)
            /\ ring.items[s].has < ring.k
            /\ ring.items[s].blk = e[1]
        BY <1>1, <4>1 DEF BlockInv, BlocksInRing, Holders
      <4>3. Cardinality(StoredOf(e[1])) = ring.items[s].has
        BY <4>2, StoredOfItem
      <4>4. ShortOrOffered(e[1])
        BY <4>2, <4>3 DEF ShortOrOffered
      <4> QED
        BY <2>2, <2>4, <3>1, <4>4
    <3> QED
      BY <2>2, <2>4, <3>1, <3>2
  <2>8. BlocksGone'
    BY <1>1, <2>3, <2>7 DEF BlocksGone, ShortOrOffered, StoredOf
  <2> QED
    BY <2>6, <2>8 DEF BlockInv
<1> QED
  BY <1>2, <1>3

(* What Store does to the ring and to the record of the block.             *)
LEMMA StoreEffect ==
  ASSUME RxInv, StoreFragment, HasRoom(ring, cur.slot, cur.frag),
         Recorded(ring.items[cur.slot], ring.n, stored)
  PROVE  LET old == ring.items[cur.slot]
             it  == ring'.items[cur.slot]
         IN  /\ ring'.k = ring.k /\ ring'.n = ring.n /\ ring'.front = ring.front
             /\ ring'.alloc = ring.alloc /\ ring'.lastKnown = ring.lastKnown
             /\ ActiveSlots(ring') = ActiveSlots(ring)
             /\ \A x \in Slots : x # cur.slot => ring'.items[x] = ring.items[x]
             /\ it.blk = old.blk
             /\ it.next = old.next
             /\ it.has = old.has + 1
             /\ Recorded(it, ring.n, stored \cup {<<old.blk, cur.frag>>})
<1>1. /\ Fits(ring) /\ cur.slot \in Slots /\ cur.frag \in Nat
      /\ cur.body \in Bodies /\ cur.frag < ring.n
      /\ ring' = Store(ring, cur.slot, cur.frag, cur.body)
  BY InvFacts DEF StoreFragment, HasRoom, RxTypeOK
<1>2. PICK it : it = StoredItem(ring, cur.slot, cur.frag, cur.body)
  OBVIOUS
<1>3. /\ ring' = [ring EXCEPT !.items[cur.slot] = it]
      /\ it.blk = ring.items[cur.slot].blk
      /\ it.next = ring.items[cur.slot].next
  BY <1>1, <1>2, StoreItem
<1>31. /\ it.has = ring.items[cur.slot].has + 1
       /\ Recorded(it, ring.n,
                    stored \cup {<<ring.items[cur.slot].blk, cur.frag>>})
  BY <1>1, <1>2, StoredRecorded
<1>4. /\ ring'.k = ring.k /\ ring'.n = ring.n /\ ring'.front = ring.front
      /\ ring'.alloc = ring.alloc /\ ring'.lastKnown = ring.lastKnown
      /\ ring'.items = [ring.items EXCEPT ![cur.slot] = it]
  BY <1>1, <1>3 DEF Fits, RingType
<1>5. /\ ring'.items[cur.slot] = it
      /\ \A x \in Slots : x # cur.slot => ring'.items[x] = ring.items[x]
  BY <1>1, <1>4 DEF Fits, RingType
<1>6. ActiveSlots(ring') = ActiveSlots(ring)
  BY <1>4 DEF ActiveSlots, Slot
<1> QED
  BY <1>3, <1>31, <1>4, <1>5, <1>6

(* A fragment stored: the block is still short, or it is handled next.     *)
LEMMA BlocksStoreFragment ==
  ASSUME RxInv, BlockInv, StoreFragment
  PROVE  BlockInv'
<1>1. /\ pc = "evict" /\ cur' = cur /\ offered' = offered
      /\ Fits(ring) /\ Consecutive(ring) /\ ring.n \in Nat /\ ring.k \in Nat
      /\ cur.slot \in Slots /\ cur.slot \in ActiveSlots(ring)
      /\ cur.frag \in Nat /\ cur.body \in Bodies
  BY InvFacts DEF StoreFragment, RxTypeOK
<1>2. CASE ~HasRoom(ring, cur.slot, cur.frag)
  <2>1. pc' = "idle" /\ UNCHANGED <<ring, stored>>
    BY <1>2 DEF StoreFragment
  <2>2. BlocksInRing'
    BY <1>1, <2>1 DEF BlockInv, BlocksInRing
  <2>3. BlocksGone'
    BY <1>1, <2>1 DEF BlockInv, BlocksGone, ShortOrOffered, StoredOf
  <2> QED
    BY <2>2, <2>3 DEF BlockInv
<1>3. CASE HasRoom(ring, cur.slot, cur.frag)
  <2> DEFINE old == ring.items[cur.slot]
  <2>1. /\ ring' = Store(ring, cur.slot, cur.frag, cur.body)
        /\ stored' = stored \cup {<<ring'.items[cur.slot].blk, cur.frag>>}
        /\ pc' = IF cur.slot = ring'.front THEN "contiguous"
                 ELSE IF Decodable(ring', cur.slot) THEN "flush" ELSE "idle"
        /\ cur.frag < ring.n
    BY <1>3 DEF StoreFragment, HasRoom
  <2>2. /\ Recorded(old, ring.n, stored) /\ SentOffered(old, offered)
        /\ old.has < ring.k /\ old.has \in Nat
    BY <1>1, SlotFits DEF BlockInv, BlocksInRing, ItemType
  <2> DEFINE it == ring'.items[cur.slot]
  <2>5. /\ ring'.k = ring.k /\ ring'.n = ring.n /\ ring'.front = ring.front
        /\ ring'.alloc = ring.alloc /\ ring'.lastKnown = ring.lastKnown
        /\ ActiveSlots(ring') = ActiveSlots(ring)
        /\ \A x \in Slots : x # cur.slot => ring'.items[x] = ring.items[x]
        /\ it.blk = old.blk
        /\ it.next = old.next
        /\ it.has = old.has + 1
        /\ Recorded(it, ring.n, stored \cup {<<old.blk, cur.frag>>})
    BY <1>3, <2>2, StoreEffect
  <2>6. stored' = stored \cup {<<old.blk, cur.frag>>}
    BY <2>1, <2>5
  <2>7. /\ pc' \in {"idle", "contiguous", "flush"}
        /\ pc' = "flush" => it.has >= ring.k
        /\ pc' = "idle" => it.has < ring.k
    <3>1. Decodable(ring', cur.slot) <=> it.has >= ring.k
      BY <2>5 DEF Decodable
    <3>2. it.has \in Nat
      BY <2>2, <2>5
    <3> QED
      BY <1>1, <2>1, <3>1, <3>2
  <2>8. ASSUME NEW s \in ActiveSlots(ring), s # cur.slot
        PROVE  /\ SentOffered(ring'.items[s], offered)
               /\ Recorded(ring'.items[s], ring.n, stored')
               /\ ring'.items[s].has < ring.k
    <3>1. /\ ring'.items[s] = ring.items[s]
          /\ ring.items[s].blk # old.blk
      BY <1>1, <2>5, <2>8, BlocksHeld
    <3>2. /\ SentOffered(ring.items[s], offered)
          /\ Recorded(ring.items[s], ring.n, stored)
          /\ ring.items[s].has < ring.k
      BY <1>1, <2>8 DEF BlockInv, BlocksInRing
    <3>3. Recorded(ring.items[s], ring.n, stored')
      BY <2>6, <3>1, <3>2 DEF Recorded
    <3> QED
      BY <3>1, <3>2, <3>3
  <2>9. SentOffered(it, offered)
    BY <2>2, <2>5 DEF SentOffered
  <2>10. BlocksInRing'
    BY <1>1, <2>5, <2>6, <2>7, <2>8, <2>9 DEF BlocksInRing
  <2>11. old.blk \in Nat /\ old.blk > ring.lastKnown - ring.alloc
         /\ old.blk <= ring.lastKnown
    BY <1>1, BlocksHeld
  <2>12. ASSUME NEW e \in stored'
         PROVE  /\ e \in Nat \X (0 .. ring.n-1)
                /\ e[1] <= ring.lastKnown
                /\ e[1] <= ring.lastKnown - ring.alloc => ShortOrOffered(e[1])'
    <3>1. CASE e = <<old.blk, cur.frag>>
      <4>1. ring.lastKnown \in Int /\ ring.alloc \in Int
        BY <1>1, SlotFits DEF NoBlock
      <4> QED
        BY <1>1, <2>1, <2>11, <3>1, <4>1
    <3>2. CASE e \in stored /\ e # <<old.blk, cur.frag>>
      <4>1. /\ e \in Nat \X (0 .. ring.n-1)
            /\ e[1] <= ring.lastKnown
            /\ e[1] <= ring.lastKnown - ring.alloc => ShortOrOffered(e[1])
        BY <3>2 DEF BlockInv, BlocksGone
      <4>2. ASSUME e[1] <= ring.lastKnown - ring.alloc
            PROVE  StoredOf(e[1])' = StoredOf(e[1])
        <5>1. e[1] # old.blk
          <6>1. ring.lastKnown \in Int /\ ring.alloc \in Int /\ e[1] \in Int
            BY <1>1, <4>1, SlotFits DEF NoBlock
          <6> QED
            BY <2>11, <4>2, <6>1
        <5> QED
          BY <2>5, <2>6, <5>1 DEF StoredOf
      <4>3. e[1] <= ring.lastKnown - ring.alloc => ShortOrOffered(e[1])'
        BY <1>1, <2>5, <4>1, <4>2 DEF ShortOrOffered
      <4> QED
        BY <4>1, <4>3
    <3> QED
      BY <2>6, <3>1, <3>2
  <2>13. BlocksGone'
    BY <2>5, <2>12 DEF BlocksGone
  <2> QED
    BY <2>10, <2>13 DEF BlockInv
<1> QED
  BY <1>2, <1>3

(* outputFragment only adds to what was offered.                           *)
LEMMA OutputOffers ==
  ASSUME NEW s, NEW f, Output(s, f)
  PROVE  offered' = offered \cup {<<ring.items[s].blk, f>>}
  BY DEF Output

LEMMA BlocksFlushEvicted ==
  ASSUME BlockInv, FlushEvicted
  PROVE  BlockInv'
<1>1. UNCHANGED <<ring, stored, pc, cur>>
  BY DEF FlushEvicted
<1>2. offered \subseteq offered'
  BY OutputOffers DEF FlushEvicted, FlushFragment, NoOutput
<1> QED
  BY <1>1, <1>2, BlocksKept

LEMMA BlocksOutputProcessor ==
  ASSUME BlockInv, OutputProcessor
  PROVE  BlockInv'
  BY BlocksKept DEF OutputProcessor, handlerVars

(* The next fragment of the front block is passed to outputFragment and    *)
(* marked as sent.                                                         *)
LEMMA BlocksMarkSent ==
  ASSUME RxInv, BlockInv, pc \in {"contiguous", "send"}, pc' = pc, cur' = cur,
         ring.items[cur.slot].next < ring.k,
         ring' = AdvanceFragmentToSend(ring, cur.slot),
         offered' = offered \cup
           {<<ring.items[cur.slot].blk, ring.items[cur.slot].next>>},
         stored' = stored
  PROVE  BlockInv'
<1> DEFINE old == ring.items[cur.slot]
<1>1. Fits(ring) /\ cur.slot \in Slots /\ cur.slot \in ActiveSlots(ring)
  BY InvFacts
<1>2. PICK it \in ItemType(ring.k, ring.n) :
        /\ ring' = [ring EXCEPT !.items[cur.slot] = it]
        /\ it.blk = old.blk
        /\ it.next = old.next + 1
        /\ it.frags = old.frags
        /\ it.has = old.has
  <2>1. /\ Fits(ring) /\ cur.slot \in Slots
        /\ ring.items[cur.slot].next < ring.k
        /\ ring' = AdvanceFragmentToSend(ring, cur.slot)
    BY <1>1
  <2>2. \E it \in ItemType(ring.k, ring.n) :
          /\ AdvanceFragmentToSend(ring, cur.slot)
               = [ring EXCEPT !.items[cur.slot] = it]
          /\ it.blk = ring.items[cur.slot].blk
          /\ it.next = ring.items[cur.slot].next + 1
          /\ it.frags = ring.items[cur.slot].frags
          /\ it.has = ring.items[cur.slot].has
    BY ONLY <2>1, MarkSent, Zenon
  <2> QED
    BY <2>1, <2>2
<1>3. old.next \in Nat
  BY <1>1, SlotFits DEF ItemType
<1>4. /\ SentOffered(old, offered)
      /\ pc # "send" => Recorded(old, ring.n, stored)
      /\ pc = "send" => AllThere(old, ring.k)
  BY <1>1 DEF BlockInv, BlocksInRing
<1>5. SentOffered(it, offered')
  BY <1>2, <1>3, <1>4 DEF SentOffered
<1>6. pc # "send" => Recorded(it, ring.n, stored)
  BY <1>2, <1>4 DEF Recorded
<1>7. pc = "send" => AllThere(it, ring.k)
  BY <1>2, <1>4 DEF AllThere
<1> QED
  BY <1>2, <1>5, <1>6, <1>7, BlocksItem

LEMMA BlocksSendContiguous ==
  ASSUME RxInv, BlockInv, SendContiguous
  PROVE  BlockInv'
<1>1. /\ pc = "contiguous" /\ UNCHANGED <<pc, cur, stored>>
      /\ ring.items[cur.slot].next < ring.k
      /\ ring' = AdvanceFragmentToSend(ring, cur.slot)
      /\ Output(cur.slot, ring.items[cur.slot].next)
  BY DEF SendContiguous, handlerVars
<1>2. offered' = offered \cup
        {<<ring.items[cur.slot].blk, ring.items[cur.slot].next>>}
  BY <1>1, OutputOffers
<1> QED
  BY <1>1, <1>2, BlocksMarkSent

(* A block every data fragment of which was sent was offered in full.      *)
LEMMA SentInFull ==
  ASSUME RxInv, BlockInv, cur.slot = ring.front, pc # "idle",
         ring.items[cur.slot].next >= ring.k
  PROVE  ShortOrOffered(FrontItem.blk)
<1>1. /\ FrontItem.next \in Nat /\ ring.k \in Nat
      /\ FrontItem.next >= ring.k
      /\ SentOffered(FrontItem, offered)
  <2>1. ring.items[ring.front] \in ItemType(ring.k, ring.n)
    BY InvFacts
  <2> QED
    BY <2>1, InvFacts DEF BlockInv, BlocksInRing, FrontItem, ItemType
<1> QED
  BY <1>1 DEF SentOffered, ShortOrOffered, OfferedInFull

LEMMA BlocksEndContiguous ==
  ASSUME RxInv, BlockInv, EndContiguous
  PROVE  BlockInv'
<1>1. /\ pc = "contiguous" /\ cur.slot = ring.front
      /\ UNCHANGED <<cur, stored, offered>>
      /\ ring.items[cur.slot] \in ItemType(ring.k, ring.n)
      /\ cur.slot \in ActiveSlots(ring) /\ ring.k \in Nat
  BY InvFacts DEF EndContiguous, RxInv, TargetInRing
<1>2. CASE IsComplete(ring, cur.slot)
  <2>1. ring' = Advance(ring) /\ pc' = "idle"
    BY <1>2 DEF EndContiguous
  <2> QED
    BY <1>1, <1>2, <2>1, SentInFull, BlocksAdvance DEF IsComplete
<1>3. CASE ~IsComplete(ring, cur.slot)
  <2>1. /\ ring' = ring
        /\ pc' = IF Decodable(ring, cur.slot) THEN "flush" ELSE "idle"
    BY <1>3 DEF EndContiguous
  <2>2. ring.items[cur.slot].has \in Nat
    BY <1>1 DEF ItemType
  <2>3. /\ pc' = "flush" => ring.items[cur.slot].has >= ring.k
        /\ pc' = "idle" => ring.items[cur.slot].has < ring.k
        /\ pc' \in {"flush", "idle"}
    BY <1>1, <2>1, <2>2 DEF Decodable
  <2>4. BlocksInRing'
    BY <1>1, <2>1, <2>3 DEF BlockInv, BlocksInRing
  <2>5. BlocksGone'
    BY <1>1, <2>1 DEF BlockInv, BlocksGone, ShortOrOffered, StoredOf
  <2> QED
    BY <2>4, <2>5 DEF BlockInv
<1> QED
  BY <1>2, <1>3

LEMMA BlocksFlushOlder ==
  ASSUME RxInv, BlockInv, FlushOlder
  PROVE  BlockInv'
<1>1. /\ pc = "flush" /\ cur.slot # ring.front /\ UNCHANGED <<pc, cur, stored>>
      /\ ring.front \in ActiveSlots(ring)
  BY InvFacts, SlotFits DEF FlushOlder
<1>2. CASE FlushFragment(ring.front) /\ ring' = ring
  <2>1. offered \subseteq offered'
    BY <1>2, OutputOffers DEF FlushFragment, NoOutput
  <2> QED
    BY <1>1, <1>2, <2>1, BlocksKept
<1>3. CASE ring' = Advance(ring) /\ NoOutput
  <2>1. Recorded(FrontItem, ring.n, stored) /\ FrontItem.has < ring.k
    BY <1>1 DEF BlockInv, BlocksInRing, FrontItem
  <2>2. ShortOrOffered(FrontItem.blk)
    BY <2>1, StoredOfItem DEF ShortOrOffered
  <2> QED
    BY <1>1, <1>3, <2>2, BlocksAdvance DEF NoOutput
<1> QED
  BY <1>2, <1>3 DEF FlushOlder

(* processCompleteBlock: all data fragments are there, received or         *)
(* recovered.                                                              *)
LEMMA BlocksCompleteBlock ==
  ASSUME RxInv, BlockInv, CompleteBlock
  PROVE  BlockInv'
<1> DEFINE old == ring.items[cur.slot]
<1>1. /\ pc = "flush" /\ pc' = "send" /\ UNCHANGED <<cur, stored, offered>>
      /\ Fits(ring) /\ cur.slot \in Slots /\ cur.slot \in ActiveSlots(ring)
      /\ old \in ItemType(ring.k, ring.n)
  BY InvFacts DEF CompleteBlock
<1>2. old.has >= ring.k /\ SentOffered(old, offered)
  BY <1>1 DEF BlockInv, BlocksInRing
<1>3. PICK it \in ItemType(ring.k, ring.n) :
        /\ ring' = [ring EXCEPT !.items[cur.slot] = it]
        /\ it.blk = old.blk
        /\ it.next = old.next
        /\ AllThere(it, ring.k)
  <2>1. CASE NeedsRecovery(ring, cur.slot)
    <3>1. ring' = Recover(ring, cur.slot)
      BY <2>1 DEF CompleteBlock
    <3> QED
      BY <1>1, <3>1, RecoverItem DEF AllThere
  <2>2. CASE ~NeedsRecovery(ring, cur.slot)
    <3>1. ring' = ring
      BY <2>2 DEF CompleteBlock
    <3>2. AllThere(old, ring.k)
      BY <1>2, <2>2 DEF NeedsRecovery, AllThere
    <3>3. ring = [ring EXCEPT !.items[cur.slot] = old]
      BY <1>1 DEF Fits, RingType
    <3> QED
      BY <1>1, <3>1, <3>2, <3>3
  <2> QED
    BY <2>1, <2>2
<1>4. SentOffered(it, offered')
  BY <1>1, <1>2, <1>3 DEF SentOffered
<1> QED
  BY <1>1, <1>3, <1>4, BlocksItem

LEMMA BlocksSendAll ==
  ASSUME RxInv, BlockInv, SendAll
  PROVE  BlockInv'
<1> DEFINE old == ring.items[cur.slot]
<1>1. /\ pc = "send" /\ cur.slot = ring.front /\ UNCHANGED <<cur, stored>>
      /\ cur.slot \in ActiveSlots(ring) /\ ring.k \in Nat
      /\ old \in ItemType(ring.k, ring.n)
  BY InvFacts DEF SendAll, RxInv, TargetInRing
<1>2. CASE /\ old.next < ring.k
           /\ ring' = AdvanceFragmentToSend(ring, cur.slot)
           /\ IF old.frags[old.next] # Missing THEN Output(cur.slot, old.next)
                                               ELSE NoOutput
           /\ pc' = pc
  <2>1. old.next \in 0 .. ring.k-1
    BY <1>1, <1>2 DEF ItemType
  <2>2. old.frags[old.next] # Missing
    BY <1>1, <2>1 DEF BlockInv, BlocksInRing, AllThere
  <2>3. offered' = offered \cup {<<old.blk, old.next>>}
    BY <1>2, <2>2, OutputOffers
  <2> QED
    BY <1>1, <1>2, <2>3, BlocksMarkSent
<1>3. CASE old.next = ring.k /\ ring' = Advance(ring) /\ pc' = "idle" /\ NoOutput
  BY <1>1, <1>3, SentInFull, BlocksAdvance DEF NoOutput
<1> QED
  BY <1>2, <1>3 DEF SendAll
-----------------------------------------------------------------------------
LEMMA BlocksNext == RxInv /\ BlockInv /\ [RxNext]_rxVars => BlockInv'
<1> SUFFICES ASSUME RxInv, BlockInv, [RxNext]_rxVars PROVE BlockInv'
  OBVIOUS
<1>1. CASE \E a \in Announcements : ProcessSession(a)
  BY <1>1, BlocksProcessSession
<1>2. CASE \E p \in DataPackets : StartData(p)
  BY <1>2, BlocksStartData
<1>3. CASE HandlerStep
  BY <1>3, BlocksFlushEvicted, BlocksStoreFragment, BlocksSendContiguous,
     BlocksEndContiguous, BlocksFlushOlder, BlocksCompleteBlock, BlocksSendAll
     DEF HandlerStep
<1>4. CASE OutputProcessor
  BY <1>4, BlocksOutputProcessor
<1>5. CASE UNCHANGED rxVars
  BY <1>5, BlocksKept DEF rxVars
<1> QED
  BY <1>1, <1>2, <1>3, <1>4, <1>5
     DEF RxNext, ProcessPacket, RefuseSession, RefuseData

LEMMA BlocksInvariance == RxSpec => []BlockInv
  BY Invariance, BlocksInit, BlocksNext, PTL DEF RxSpec

(* No block of the ring waits with enough fragments to be decoded: as soon *)
(* as the k-th is stored, processDataPacket outputs it and what is older.  *)
THEOREM DecodableBlocksLeave == RxSpec => []NoDecodableBlockWaits
<1>1. RxInv /\ BlockInv => NoDecodableBlockWaits
  <2> SUFFICES ASSUME RxInv, BlockInv, pc = "idle", NEW s \in ActiveSlots(ring)
               PROVE  LET frags == ring.items[s].frags
                      IN  Cardinality(Present(frags, DOMAIN frags)) < ring.k
    BY DEF NoDecodableBlockWaits
  <2>1. ring.items[s] \in ItemType(ring.k, ring.n)
    BY InvFacts, BlocksHeld
  <2>2. DOMAIN ring.items[s].frags = 0 .. ring.n-1
    BY <2>1 DEF ItemType
  <2> QED
    BY <2>2 DEF BlockInv, BlocksInRing, Recorded
<1> QED
  BY <1>1, Invariance, BlocksInvariance, PTL

(* A block of which k fragments were stored is passed to outputFragment in *)
(* full, whichever they were and wherever the block was in the ring.       *)
THEOREM CompletedBlocksAreOffered == RxSpec => []CompletedBlocksOffered
<1>1. RxInv /\ BlockInv => CompletedBlocksOffered
  <2> SUFFICES ASSUME RxInv, BlockInv, pc = "idle", NEW e \in stored,
                      Cardinality(StoredOf(e[1])) >= ring.k
               PROVE  OfferedInFull(e[1], ring.k, offered)
    BY DEF CompletedBlocksOffered, OfferedInFull
  <2>1. /\ e[1] \in Nat /\ e[1] <= ring.lastKnown
        /\ e[1] <= ring.lastKnown - ring.alloc => ShortOrOffered(e[1])
    BY DEF BlockInv, BlocksGone
  <2>2. /\ ring.k \in Nat /\ ring.n \in Nat /\ Fits(ring) /\ Consecutive(ring)
        /\ ring.lastKnown \in Int /\ ring.alloc \in Int
    BY InvFacts, SlotFits DEF NoBlock
  <2>3. Cardinality(StoredOf(e[1])) \in Nat
    <3>1. IsFiniteSet(0 .. ring.n-1)
      BY <2>2, FS_Interval
    <3> QED
      BY <3>1, FS_Subset, FS_CardinalityType DEF StoredOf
  <2>4. CASE e[1] <= ring.lastKnown - ring.alloc
    BY <2>1, <2>2, <2>3, <2>4 DEF ShortOrOffered
  <2>5. CASE ~(e[1] <= ring.lastKnown - ring.alloc)
    <3>1. PICK s \in Holders(ring, e[1]) : TRUE
      BY <2>1, <2>2, <2>5, BlocksHeld
    <3>2. /\ Recorded(ring.items[s], ring.n, stored)
          /\ ring.items[s].has < ring.k
          /\ ring.items[s].blk = e[1]
      BY <3>1 DEF BlockInv, BlocksInRing, Holders
    <3>3. Cardinality(StoredOf(e[1])) < ring.k
      BY <3>2, StoredOfItem
    <3> QED
      BY <2>2, <2>3, <3>3
  <2> QED
    BY <2>4, <2>5
<1> QED
  BY <1>1, Invariance, BlocksInvariance, PTL
-----------------------------------------------------------------------------
(***************************************************************************)
(* Nothing of an earlier session makes the receiver refuse blocks: the     *)
(* highest block known is one of which a fragment was stored in this       *)
(* session, or is about to be.  A packet that decrypts under the session's *)
(* key comes from the transmitter that announced it, which numbers the     *)
(* fragments below the announced n.                                        *)
(***************************************************************************)
FragmentsFit ==
  \A a \in Announcements, p \in DataPackets : p.sess = a.sess => p.frag < a.n

LastKnownStored ==
  ring.lastKnown # NoBlock =>
    \/ \E e \in stored : e[1] = ring.lastKnown
    \/ /\ pc = "evict"
       /\ ring.items[cur.slot].blk = ring.lastKnown
       /\ \A f \in 0 .. ring.n-1 : ring.items[cur.slot].frags[f] = Missing

LastKnownInv ==
  /\ session # NoSession =>
       \E a \in Announcements : a.sess = session /\ a.n = ring.n
  /\ pc = "evict" => cur.frag \in 0 .. ring.n-1
  /\ ring.lastKnown = NoBlock => stored = {}
  /\ LastKnownStored

(* The steps after the fragment is stored leave lastKnown alone.           *)
LEMMA LastKnownKept ==
  ASSUME LastKnownInv, pc # "evict", pc' # "evict",
         UNCHANGED <<session, stored>>,
         ring'.n = ring.n, ring'.lastKnown = ring.lastKnown
  PROVE  LastKnownInv'
  BY DEF LastKnownInv, LastKnownStored

LEMMA LastKnownStartData ==
  ASSUME FragmentsFit, RxInv, LastKnownInv, NEW p \in DataPackets, StartData(p)
  PROVE  LastKnownInv'
<1>1. /\ pc = "idle" /\ pc' = "evict" /\ Acceptable(p)
      /\ stored' = stored /\ session' = session
      /\ Fits(ring) /\ Consecutive(ring)
      /\ ring.k \in Nat \ {0} /\ ring.n \in Nat
      /\ p.blk \in Nat /\ p.frag \in Nat
  BY InvFacts, PacketsAssumption DEF StartData, sessionVars, Fits
<1>2. p.frag \in 0 .. ring.n-1
  BY <1>1 DEF FragmentsFit, LastKnownInv, Acceptable
<1>3. CASE Holders(ring, p.blk) # {}
  <2>1. ring' = ring /\ cur'.frag = p.frag
    BY <1>3 DEF StartData
  <2>2. ring.lastKnown # NoBlock
    BY <1>1, <1>3, BlocksHeld DEF Holders, NoBlock
  <2> QED
    BY <1>1, <1>2, <2>1, <2>2 DEF LastKnownInv, LastKnownStored
<1>4. CASE Holders(ring, p.blk) = {}
  <2> DEFINE m == NewBlocks(ring, p.blk)
             o == Overflow(ring, m)
  <2>1. /\ ring' = Push(ring, p.blk, m)
        /\ cur'.slot = Slot(ring, ring.alloc + m - 1)
        /\ cur'.frag = p.frag
    BY <1>4 DEF StartData
  <2>2. ring.lastKnown < p.blk
    BY <1>1, <1>4, SlotFits DEF Acceptable, TooOld, NoBlock
  <2>3. /\ m \in 1 .. RingSize
        /\ o \in 0 .. ring.alloc
        /\ ring'.n = ring.n
        /\ ring'.lastKnown = p.blk
        /\ ring'.alloc = ring.alloc + m - o
        /\ \A j \in 0 .. ring'.alloc-1 :
             /\ Slot(ring', j) = Slot(ring, o + j)
             /\ ring'.items[Slot(ring', j)] =
                  IF o + j < ring.alloc THEN ring.items[Slot(ring, o + j)]
                  ELSE Item(p.blk + (o + j - ring.alloc) + 1 - m, ring.n)
    BY <1>1, <2>1, <2>2, PushRing
  <2> HIDE DEF m, o
  <2>4. ring.alloc \in Nat
    BY <1>1, SlotFits
  <2> DEFINE j == ring'.alloc - 1
  <2>5. /\ j \in 0 .. ring'.alloc-1
        /\ o + j = ring.alloc + m - 1
        /\ ~(o + j < ring.alloc)
        /\ p.blk + (o + j - ring.alloc) + 1 - m = p.blk
    BY <1>1, <2>3, <2>4
  <2>6. ring'.items[cur'.slot] = Item(p.blk, ring.n)
    BY <2>1, <2>3, <2>5
  <2>7. /\ ring'.items[cur'.slot].blk = p.blk
        /\ \A f \in 0 .. ring.n-1 : ring'.items[cur'.slot].frags[f] = Missing
    BY <2>6 DEF Item
  <2>8. p.blk # NoBlock
    BY <1>1 DEF NoBlock
  <2> QED
    BY <1>1, <1>2, <2>1, <2>3, <2>7, <2>8 DEF LastKnownInv, LastKnownStored
<1> QED
  BY <1>3, <1>4

LEMMA LastKnownStoreFragment ==
  ASSUME RxInv, LastKnownInv, StoreFragment
  PROVE  LastKnownInv'
<1>1. /\ pc = "evict" /\ pc' # "evict" /\ session' = session
  BY DEF StoreFragment, sessionVars
<1>2. CASE ~HasRoom(ring, cur.slot, cur.frag)
  <2>1. UNCHANGED <<ring, stored>>
    BY <1>2 DEF StoreFragment
  <2>2. cur.frag \in 0 .. ring.n-1 /\ ring.items[cur.slot].frags[cur.frag] # Missing
    BY <1>1, <1>2, InvFacts DEF LastKnownInv, HasRoom
  <2> QED
    BY <1>1, <2>1, <2>2 DEF LastKnownInv, LastKnownStored
<1>3. CASE HasRoom(ring, cur.slot, cur.frag)
  <2>1. /\ Fits(ring) /\ cur.slot \in Slots /\ cur.frag \in Nat
        /\ cur.body \in Bodies /\ cur.frag < ring.n
        /\ ring' = Store(ring, cur.slot, cur.frag, cur.body)
        /\ stored' = stored \cup {<<ring'.items[cur.slot].blk, cur.frag>>}
        /\ ring.alloc > 0 /\ Consecutive(ring)
    BY <1>1, <1>3, InvFacts DEF StoreFragment, HasRoom, RxTypeOK
  <2>2. PICK it : it = StoredItem(ring, cur.slot, cur.frag, cur.body)
    OBVIOUS
  <2>3. /\ ring' = [ring EXCEPT !.items[cur.slot] = it]
        /\ it.blk = ring.items[cur.slot].blk
    BY <2>1, <2>2, StoreItem
  <2>4. /\ ring'.n = ring.n /\ ring'.lastKnown = ring.lastKnown
        /\ ring'.items[cur.slot].blk = ring.items[cur.slot].blk
    BY <2>1, <2>3 DEF Fits, RingType
  <2>5. ring.lastKnown # NoBlock
    BY <2>1, FrontIsOldest DEF NoBlock
  <2>6. \E e \in stored' : e[1] = ring.lastKnown
    <3>1. CASE \E e \in stored : e[1] = ring.lastKnown
      BY <2>1, <3>1
    <3>2. CASE ring.items[cur.slot].blk = ring.lastKnown
      <4> DEFINE e == <<ring'.items[cur.slot].blk, cur.frag>>
      <4>1. e \in stored' /\ e[1] = ring.lastKnown
        BY <2>1, <2>4, <3>2
      <4> QED
        BY <4>1
    <3> QED
      BY <2>5, <3>1, <3>2 DEF LastKnownInv, LastKnownStored
  <2> QED
    BY <1>1, <2>4, <2>5, <2>6 DEF LastKnownInv, LastKnownStored
<1> QED
  BY <1>2, <1>3

(* ... and so do the operations of the ring other than Push.               *)
LEMMA RingOpsKeepLastKnown ==
  ASSUME RxInv, pc # "idle",
         \/ ring' = ring
         \/ ring' = Advance(ring)
         \/ ring' = AdvanceFragmentToSend(ring, cur.slot)
         \/ ring' = Recover(ring, cur.slot)
  PROVE  ring'.n = ring.n /\ ring'.lastKnown = ring.lastKnown
  BY InvFacts DEF Advance, AdvanceFragmentToSend, Recover, Fits, RingType

LEMMA LastKnownNext ==
  FragmentsFit /\ RxInv /\ BlockInv /\ LastKnownInv /\ [RxNext]_rxVars
    => LastKnownInv'
<1> SUFFICES ASSUME FragmentsFit, RxInv, BlockInv, LastKnownInv, [RxNext]_rxVars
             PROVE  LastKnownInv'
  OBVIOUS
<1>1. ASSUME NEW a \in Announcements, ProcessSession(a) PROVE LastKnownInv'
  <2>1. /\ session' = a.sess /\ ring'.n = a.n /\ ring'.lastKnown = NoBlock
        /\ stored' = {} /\ pc' = "idle"
    BY <1>1 DEF ProcessSession, Reset, NewRing, handlerVars
  <2> QED
    BY <2>1 DEF LastKnownInv, LastKnownStored
<1>2. ASSUME NEW p \in DataPackets, StartData(p) PROVE LastKnownInv'
  BY <1>2, LastKnownStartData
<1>3. CASE FlushEvicted
  BY <1>3 DEF FlushEvicted, sessionVars, LastKnownInv, LastKnownStored
<1>4. CASE StoreFragment
  BY <1>4, LastKnownStoreFragment
<1>5. CASE SendContiguous \/ EndContiguous \/ FlushOlder \/ CompleteBlock \/ SendAll
  <2>1. /\ pc \notin {"idle", "evict"} /\ pc' # "evict"
        /\ session' = session /\ stored' = stored
    BY <1>5 DEF SendContiguous, EndContiguous, FlushOlder, CompleteBlock, SendAll,
                sessionVars, handlerVars
  <2>2. \/ ring' = ring
        \/ ring' = Advance(ring)
        \/ ring' = AdvanceFragmentToSend(ring, cur.slot)
        \/ ring' = Recover(ring, cur.slot)
    BY <1>5 DEF SendContiguous, EndContiguous, FlushOlder, CompleteBlock, SendAll
  <2> QED
    BY <2>1, <2>2, RingOpsKeepLastKnown, LastKnownKept
<1>6. CASE OutputProcessor \/ UNCHANGED rxVars
  BY <1>6 DEF OutputProcessor, sessionVars, handlerVars, rxVars,
              LastKnownInv, LastKnownStored
<1> QED
  BY <1>1, <1>2, <1>3, <1>4, <1>5, <1>6
     DEF RxNext, ProcessPacket, RefuseSession, RefuseData, HandlerStep

(* With transmitters that keep to the parameters they announce, the        *)
(* receiver's highest known block is always one of its own session, and    *)
(* no stored fragment is beyond it (aggregator.go:500).                    *)
THEOREM LastKnownOfSession ==
  FragmentsFit => (RxSpec => []LastKnownIsOfThisSession)
<1> SUFFICES ASSUME FragmentsFit PROVE RxSpec => []LastKnownIsOfThisSession
  OBVIOUS
<1>1. RxInit => LastKnownInv
  BY DEF RxInit, NewRing, LastKnownInv, LastKnownStored
<1>2. RxInv /\ BlockInv /\ LastKnownInv /\ [RxNext]_rxVars => LastKnownInv'
  BY LastKnownNext
<1>3. RxInv /\ BlockInv /\ LastKnownInv => LastKnownIsOfThisSession
  <2> SUFFICES ASSUME BlockInv, LastKnownInv, pc = "idle"
               PROVE  IF stored = {} THEN ring.lastKnown = NoBlock
                      ELSE /\ \E e \in stored : e[1] = ring.lastKnown
                           /\ \A e \in stored : e[1] <= ring.lastKnown
    BY DEF LastKnownIsOfThisSession
  <2> QED
    BY DEF LastKnownInv, LastKnownStored, BlockInv, BlocksGone
<1> QED
  BY <1>1, <1>2, <1>3, Invariance, BlocksInvariance, PTL DEF RxSpec
-----------------------------------------------------------------------------
(***************************************************************************)
(* What is output is what was sent.  The transmitter keeps to the code it  *)
(* announces and puts MCBody into each position; nothing is assumed of     *)
(* which fragments arrive, in which order or how often.                    *)
(***************************************************************************)
HonestTransmitter ==
  /\ DataPackets \subseteq MCDataPackets
  /\ \A a \in Announcements :
       a.sess \in MCSessions => a.k = MCk(a.sess) /\ a.n = MCn(a.sess)

IsSent(key, b, f, body) ==
  /\ key # NoSession
  /\ key \in MCSessions
  /\ body = MCBody(key, b, f)

ItemSent(it, n, key) ==
  \A f \in 0 .. n-1 : it.frags[f] # Missing => IsSent(key, it.blk, f, it.frags[f])

SessionSent ==
  session # NoSession /\ session \in MCSessions =>
    ring.k = MCk(session) /\ ring.n = MCn(session)

RingSent == \A s \in Slots : ItemSent(ring.items[s], ring.n, session)

(* The fragment about to be stored is of the block whose slot was found,   *)
(* and a block is decoded when it has its k-th fragment, never later: with *)
(* exactly as many parity fragments as there are gaps all of them are used.*)
HandledSent ==
  /\ pc = "evict" =>
       IsSent(session, ring.items[cur.slot].blk, cur.frag, cur.body)
  /\ pc \in {"contiguous", "flush"} => ring.items[cur.slot].has <= ring.k

SentInv == SessionSent /\ RingSent /\ HandledSent /\ OutputIsSent

LEMMA DisjointUnion ==
  ASSUME NEW S, NEW T, NEW U, U = S \cup T, IsFiniteSet(S), IsFiniteSet(T),
         S \cap T = {}
  PROVE  Cardinality(U) = Cardinality(S) + Cardinality(T)
<1>1. /\ Cardinality(U) = Cardinality(S) + Cardinality(T) - Cardinality({})
      /\ Cardinality({}) = 0
  BY FS_Union, FS_EmptySet
<1>2. Cardinality(S) \in Nat /\ Cardinality(T) \in Nat
  BY FS_CardinalityType
<1> QED
  BY <1>1, <1>2

(* Reconstruct, given exactly k fragments of one code word, returns it.    *)
EnoughOfWord(frags, k, n, word) ==
  /\ DOMAIN word = 0 .. k-1
  /\ \A f \in 0 .. k-1 : frags[f] # Missing => frags[f] = word[f]
  /\ \A f \in k .. n-1 : frags[f] # Missing => frags[f] = Parity(word)
  /\ Cardinality(Present(frags, 0 .. n-1)) = k

LEMMA ReconstructSent ==
  ASSUME NEW k \in Nat \ {0}, NEW n \in Nat, k <= n,
         NEW frags \in [0 .. n-1 -> Bodies \cup {Missing}],
         NEW word, EnoughOfWord(frags, k, n, word)
  PROVE  Reconstruct(frags, k, n)
           = [f \in 0 .. n-1 |-> IF f < k THEN word[f] ELSE frags[f]]
<1>0. /\ DOMAIN word = 0 .. k-1
      /\ \A f \in 0 .. k-1 : frags[f] # Missing => frags[f] = word[f]
      /\ \A f \in k .. n-1 : frags[f] # Missing => frags[f] = Parity(word)
      /\ Cardinality(Present(frags, 0 .. n-1)) = k
  BY DEF EnoughOfWord
<1> USE <1>0
<1> DEFINE P == Present(frags, 0 .. k-1)
           Q == Present(frags, k .. n-1)
           gaps == (0 .. k-1) \ P
<1>1. /\ IsFiniteSet(0 .. k-1) /\ Cardinality(0 .. k-1) = k
      /\ IsFiniteSet(0 .. n-1)
  BY FS_Interval
<1>2. /\ IsFiniteSet(P) /\ IsFiniteSet(Q) /\ IsFiniteSet(gaps)
      /\ Cardinality(P) \in Nat /\ Cardinality(Q) \in Nat
      /\ Cardinality(gaps) \in Nat
  <2>1. P \in SUBSET (0 .. n-1) /\ Q \in SUBSET (0 .. n-1)
        /\ gaps \in SUBSET (0 .. n-1)
    BY DEF Present
  <2>2. IsFiniteSet(P) /\ IsFiniteSet(Q) /\ IsFiniteSet(gaps)
    BY <1>1, <2>1, FS_Subset
  <2> QED
    BY <2>2, FS_CardinalityType
<1>3. Cardinality(gaps) = Cardinality(Q)
  <2>1. P \cup gaps = 0 .. k-1 /\ P \cap gaps = {}
    BY DEF Present
  <2>2. P \cup Q = Present(frags, 0 .. n-1) /\ P \cap Q = {}
    BY DEF Present
  <2> HIDE DEF P, Q, gaps
  <2>3. Cardinality(P) + Cardinality(gaps) = k
    BY <1>1, <1>2, <2>1, DisjointUnion
  <2>4. Cardinality(P) + Cardinality(Q) = k
    BY <1>2, <2>2, DisjointUnion
  <2> QED
    BY <1>2, <2>3, <2>4
<1>4. UsedParity(frags, k, n) = Q
  <2>1. ASSUME NEW f \in Q
        PROVE  Cardinality({g \in Q : g <= f}) <= Cardinality(gaps)
    <3>1. {g \in Q : g <= f} \in SUBSET Q
      OBVIOUS
    <3> HIDE DEF Q
    <3>2. Cardinality({g \in Q : g <= f}) <= Cardinality(Q)
      BY <1>2, <3>1, FS_Subset
    <3> QED
      BY <1>3, <3>2
  <2> QED
    BY <2>1 DEF UsedParity
<1> DEFINE words == {w \in WordsSeen(frags, k, n) : Consistent(frags, k, n, w)}
<1>5. ASSUME NEW g \in Q PROVE frags[g] = Parity(word)
  BY DEF Present
<1>6. ASSUME gaps # {} PROVE words = {word}
  <2>1. PICK g \in Q : TRUE
    <3>1. Cardinality(gaps) # 0
      BY <1>2, <1>6, FS_EmptySet
    <3>2. Q # {}
      BY <1>2, <1>3, <3>1, FS_EmptySet
    <3> QED
      BY <3>2
  <2>2. WordsSeen(frags, k, n) = {word}
    <3>1. \A h \in Q : frags[h].kind = "parity" /\ frags[h].word = word
      BY <1>5 DEF Parity
    <3> HIDE DEF Q
    <3> QED
      BY <1>4, <2>1, <3>1 DEF WordsSeen
  <2>3. Consistent(frags, k, n, word)
    <3>1. \A f \in Present(frags, 0 .. k-1) : frags[f] = word[f]
      BY DEF Present
    <3> QED
      BY <1>4, <1>5, <3>1 DEF Consistent
  <2> QED
    BY <2>2, <2>3
<1>7. Reconstruct(frags, k, n) =
        [f \in 0 .. n-1 |-> IF f >= k \/ frags[f] # Missing THEN frags[f]
                            ELSE IF words = {} THEN Garbage
                            ELSE (CHOOSE w \in words : TRUE)[f]]
  BY DEF Reconstruct
<1> HIDE DEF words
<1>8. ASSUME NEW f \in 0 .. k-1
      PROVE  Reconstruct(frags, k, n)[f] = word[f]
  <2>1. f \in 0 .. n-1 /\ ~(f >= k)
    OBVIOUS
  <2>2. CASE frags[f] # Missing
    BY <1>7, <2>1, <2>2
  <2>3. CASE frags[f] = Missing
    <3>1. gaps # {}
      BY <2>1, <2>3 DEF Present
    <3>2. words # {} /\ (CHOOSE w \in words : TRUE) = word
      BY <1>6, <3>1
    <3> QED
      BY <1>7, <2>1, <2>3, <3>2
  <2> QED
    BY <2>2, <2>3
<1>9. ASSUME NEW f \in k .. n-1
      PROVE  Reconstruct(frags, k, n)[f] = frags[f]
  <2>1. f \in 0 .. n-1 /\ f >= k
    OBVIOUS
  <2> QED
    BY <1>7, <2>1
<1>10. ASSUME NEW f \in 0 .. n-1
       PROVE  Reconstruct(frags, k, n)[f] = IF f < k THEN word[f] ELSE frags[f]
  <2>1. CASE f \in 0 .. k-1
    BY <1>8, <2>1
  <2>2. CASE f \in k .. n-1
    BY <1>9, <2>2
  <2> QED
    BY <2>1, <2>2
<1> QED
  BY <1>7, <1>10

(* The payload passed to the output queue is the one of its position.      *)
LEMMA SentOutput ==
  ASSUME RxInv, SentInv, NEW s \in Slots, NEW f \in 0 .. ring.k-1,
         ring.items[s].frags[f] # Missing, Output(s, f)
  PROVE  OutputIsSent'
<1> DEFINE it == ring.items[s]
           e == [inc |-> incarnation, sess |-> session, blk |-> it.blk,
                 frag |-> f, seq |-> Seqno(it.blk, f), body |-> it.frags[f]]
<1>1. /\ f \in 0 .. ring.n-1 /\ queued \in Seq(QueueType)
      /\ it \in ItemType(ring.k, ring.n)
  BY InvFacts
<1>2. it.frags[f] = MCBody(session, it.blk, f)
  BY <1>1 DEF SentInv, RingSent, ItemSent, IsSent
<1>3. queued' = queued \/ queued' = Append(queued, e)
  BY DEF Output
<1>4. CASE queued' = queued
  BY <1>4 DEF SentInv, OutputIsSent
<1>5. CASE queued' = Append(queued, e)
  <2>1. /\ e.sess = session /\ e.blk = it.blk /\ e.frag = f
        /\ e.body = it.frags[f]
    OBVIOUS
  <2> HIDE DEF e, it
  <2>2. /\ Len(queued') = Len(queued) + 1 /\ Len(queued) \in Nat
        /\ \A i \in 1 .. Len(queued) : queued'[i] = queued[i]
        /\ queued'[Len(queued) + 1] = e
    <3>1. PICK S : S = QueueType \cup {e}
      OBVIOUS
    <3>2. queued \in Seq(S) /\ e \in S
      BY <1>1, <3>1, SeqWiden
    <3> QED
      BY <1>5, <3>2, AppendSeq
  <2>3. ASSUME NEW i \in 1 .. Len(queued')
        PROVE  queued'[i].body
                 = MCBody(queued'[i].sess, queued'[i].blk, queued'[i].frag)
    <3>1. CASE i \in 1 .. Len(queued)
      BY <2>2, <3>1 DEF SentInv, OutputIsSent
    <3>2. CASE i = Len(queued) + 1
      BY <1>2, <2>1, <2>2, <3>2
    <3> QED
      BY <2>2, <3>1, <3>2
  <2> QED
    BY <2>3 DEF OutputIsSent
<1> QED
  BY <1>3, <1>4, <1>5

(* A step that changes one block, and perhaps outputs something.           *)
LEMMA SentItem ==
  ASSUME RxInv, SentInv, pc # "idle", UNCHANGED <<session, cur>>,
         NEW it \in ItemType(ring.k, ring.n),
         it.blk = ring.items[cur.slot].blk,
         ring' = [ring EXCEPT !.items[cur.slot] = it],
         ItemSent(it, ring.n, session), pc' # "evict",
         pc' \in {"contiguous", "flush"} => it.has <= ring.k,
         OutputIsSent'
  PROVE  SentInv'
<1>1. cur.slot \in Slots
  BY InvFacts
<1>2. /\ ring'.k = ring.k /\ ring'.n = ring.n
      /\ ring'.items[cur.slot] = it
      /\ \A x \in Slots : x # cur.slot => ring'.items[x] = ring.items[x]
  BY SMTT(30), <1>1, InvFacts, ItemChange
<1>3. SessionSent'
  BY <1>2 DEF SentInv, SessionSent
<1>4. ASSUME NEW s \in Slots PROVE ItemSent(ring'.items[s], ring.n, session)
  BY <1>2 DEF SentInv, RingSent
<1>5. RingSent'
  BY <1>2, <1>4 DEF RingSent
<1>6. HandledSent'
  BY <1>2 DEF HandledSent
<1> QED
  BY <1>3, <1>5, <1>6 DEF SentInv

(* A step that leaves the ring alone.                                      *)
LEMMA SentKept ==
  ASSUME SentInv, UNCHANGED <<session, ring>>, OutputIsSent',
         \/ UNCHANGED <<pc, cur>>
         \/ pc' \in {"idle", "send"}
         \/ cur' = cur /\ pc = "contiguous" /\ pc' = "flush"
  PROVE  SentInv'
  BY DEF SentInv, SessionSent, RingSent, HandledSent

(* The front block leaves the ring.                                        *)
LEMMA SentAdvance ==
  ASSUME RxInv, SentInv, UNCHANGED <<session, cur>>, ring' = Advance(ring),
         ring.alloc > 0, OutputIsSent',
         \/ pc' = "idle"
         \/ pc = "flush" /\ pc' = pc /\ cur.slot # ring.front
  PROVE  SentInv'
<1>1. /\ Fits(ring) /\ ring.front \in Slots /\ ring.alloc \in Nat /\ ring.n \in Nat
  BY InvFacts, SlotFits
<1>2. /\ ring'.k = ring.k /\ ring'.n = ring.n
      /\ ring'.items = [ring.items EXCEPT ![ring.front] = Item(0, ring.n)]
  BY <1>1 DEF Advance, Fits, RingType
<1>3. \A x \in Slots :
        ring'.items[x] = IF x = ring.front THEN Item(0, ring.n) ELSE ring.items[x]
  BY <1>1, <1>2 DEF Fits, RingType
<1>4. ASSUME NEW s \in Slots PROVE ItemSent(ring'.items[s], ring.n, session)
  <2>1. ItemSent(Item(0, ring.n), ring.n, session)
    BY DEF ItemSent, Item
  <2> QED
    BY <1>3, <2>1 DEF SentInv, RingSent
<1>5. RingSent' /\ SessionSent'
  BY <1>2, <1>4 DEF RingSent, SentInv, SessionSent
<1>6. HandledSent'
  <2>1. CASE pc' = "idle"
    BY <2>1 DEF HandledSent
  <2>2. CASE pc = "flush" /\ pc' = pc /\ cur.slot # ring.front
    <3>1. cur.slot \in Slots
      BY <2>2, InvFacts
    <3> QED
      BY <1>2, <1>3, <2>2, <3>1 DEF SentInv, HandledSent
  <2> QED
    BY <2>1, <2>2
<1> QED
  BY <1>5, <1>6 DEF SentInv

LEMMA SentInit == RxInit => SentInv
<1> SUFFICES ASSUME RxInit PROVE SentInv
  OBVIOUS
<1>1. session = NoSession /\ pc = "idle" /\ queued = <<>>
      /\ ring = NewRing(1, 1)
  BY DEF RxInit
<1>2. RingSent
  BY <1>1 DEF RingSent, ItemSent, NewRing, Item
<1> QED
  BY <1>1, <1>2 DEF SentInv, SessionSent, HandledSent, OutputIsSent

LEMMA SentProcessSession ==
  ASSUME HonestTransmitter, SentInv, NEW a \in Announcements, ProcessSession(a)
  PROVE  SentInv'
<1>1. /\ session' = a.sess /\ ring' = NewRing(a.k, a.n) /\ pc' = "idle"
      /\ queued' = queued
  BY DEF ProcessSession, Reset, handlerVars, queueVars
<1>2. /\ ring'.k = a.k /\ ring'.n = a.n
      /\ \A s \in Slots : ring'.items[s] = Item(0, a.n)
  BY <1>1 DEF NewRing
<1>3. SessionSent'
  BY <1>1, <1>2 DEF SessionSent, HonestTransmitter
<1>4. ASSUME NEW s \in Slots
      PROVE  ItemSent(ring'.items[s], ring'.n, session')
  <2>1. ItemSent(Item(0, a.n), a.n, session')
    BY DEF ItemSent, Item
  <2> QED
    BY <1>2, <2>1
<1>5. RingSent'
  BY <1>4 DEF RingSent
<1> QED
  BY <1>1, <1>3, <1>5 DEF SentInv, HandledSent, OutputIsSent

(* The slot found for the packet is its block's.                           *)
LEMMA SentStartData ==
  ASSUME HonestTransmitter, RxInv, SentInv, NEW p \in DataPackets, StartData(p)
  PROVE  SentInv'
<1>1. /\ pc' = "evict" /\ Acceptable(p) /\ session' = session
      /\ queued' = queued
      /\ Fits(ring) /\ Consecutive(ring)
      /\ ring.k \in Nat \ {0} /\ ring.n \in Nat
      /\ p.blk \in Nat /\ p.frag \in Nat
  BY InvFacts, PacketsAssumption DEF StartData, sessionVars, queueVars, Fits
<1>2. IsSent(session, p.blk, p.frag, p.body)
  <2>1. p \in MCDataPackets
    BY DEF HonestTransmitter
  <2>2. p.sess \in MCSessions /\ p.body = MCBody(p.sess, p.blk, p.frag)
    BY <2>1 DEF MCDataPackets
  <2> QED
    BY <1>1, <2>2 DEF IsSent, Acceptable
<1>3. OutputIsSent'
  BY <1>1 DEF SentInv, OutputIsSent
<1>4. CASE Holders(ring, p.blk) # {}
  <2>1. /\ ring' = ring /\ cur'.frag = p.frag /\ cur'.body = p.body
        /\ ring.items[cur'.slot].blk = p.blk
    BY <1>4 DEF StartData, Holders
  <2> QED
    BY <1>1, <1>2, <1>3, <2>1 DEF SentInv, SessionSent, RingSent, HandledSent
<1>5. CASE Holders(ring, p.blk) = {}
  <2> DEFINE m == NewBlocks(ring, p.blk)
             o == Overflow(ring, m)
  <2>1. /\ ring' = Push(ring, p.blk, m)
        /\ cur'.slot = Slot(ring, ring.alloc + m - 1)
        /\ cur'.frag = p.frag /\ cur'.body = p.body
    BY <1>5 DEF StartData
  <2>2. ring.lastKnown < p.blk
    BY <1>1, <1>5, SlotFits DEF Acceptable, TooOld, NoBlock
  <2>3. /\ m \in 1 .. RingSize
        /\ o \in 0 .. ring.alloc
        /\ ring'.k = ring.k
        /\ ring'.n = ring.n
        /\ ring'.alloc = ring.alloc + m - o
        /\ \A j \in 0 .. ring'.alloc-1 :
             /\ Slot(ring', j) = Slot(ring, o + j)
             /\ ring'.items[Slot(ring', j)] =
                  IF o + j < ring.alloc THEN ring.items[Slot(ring, o + j)]
                  ELSE Item(p.blk + (o + j - ring.alloc) + 1 - m, ring.n)
    BY <1>1, <2>1, <2>2, PushRing
  <2>4. \A s \in Slots : \/ ring'.items[s] = ring.items[s]
                         \/ \E b : ring'.items[s] = Item(b, ring.n)
    BY <1>1, <2>1 DEF Push, Fits, RingType
  <2> HIDE DEF m, o
  <2>5. ring.alloc \in Nat
    BY <1>1, SlotFits
  <2> DEFINE j == ring'.alloc - 1
  <2>6. /\ j \in 0 .. ring'.alloc-1
        /\ o + j = ring.alloc + m - 1
        /\ ~(o + j < ring.alloc)
        /\ p.blk + (o + j - ring.alloc) + 1 - m = p.blk
    BY <1>1, <2>3, <2>5
  <2>7. ring'.items[cur'.slot] = Item(p.blk, ring.n)
    BY <2>1, <2>3, <2>6
  <2>8. ring'.items[cur'.slot].blk = p.blk
    BY <2>7 DEF Item
  <2>9. ASSUME NEW s \in Slots PROVE ItemSent(ring'.items[s], ring.n, session)
    <3>1. \A b : ItemSent(Item(b, ring.n), ring.n, session)
      BY DEF ItemSent, Item
    <3> QED
      BY <2>4, <3>1 DEF SentInv, RingSent
  <2>10. RingSent' /\ SessionSent'
    BY <1>1, <2>3, <2>9 DEF RingSent, SentInv, SessionSent
  <2>11. HandledSent'
    BY <1>1, <1>2, <2>1, <2>8 DEF HandledSent
  <2> QED
    BY <1>3, <2>10, <2>11 DEF SentInv
<1> QED
  BY <1>4, <1>5

(* A fragment is stored in its place.                                      *)
LEMMA SentStoreFragment ==
  ASSUME RxInv, BlockInv, SentInv, StoreFragment
  PROVE  SentInv'
<1>1. /\ pc = "evict" /\ UNCHANGED <<session, cur, queued>>
      /\ Fits(ring) /\ cur.slot \in Slots /\ cur.slot \in ActiveSlots(ring)
      /\ cur.frag \in Nat /\ cur.body \in Bodies
      /\ ring.k \in Nat /\ ring.n \in Nat
  BY InvFacts DEF StoreFragment, RxTypeOK, sessionVars, queueVars
<1>2. OutputIsSent'
  BY <1>1 DEF SentInv, OutputIsSent
<1>3. CASE ~HasRoom(ring, cur.slot, cur.frag)
  <2>1. pc' = "idle" /\ ring' = ring
    BY <1>3 DEF StoreFragment
  <2> QED
    BY <1>1, <1>2, <2>1, SentKept
<1>4. CASE HasRoom(ring, cur.slot, cur.frag)
  <2> DEFINE old == ring.items[cur.slot]
  <2>1. /\ ring' = Store(ring, cur.slot, cur.frag, cur.body)
        /\ pc' \in {"contiguous", "flush", "idle"}
        /\ cur.frag < ring.n
    BY <1>4 DEF StoreFragment, HasRoom
  <2>2. PICK it : it = StoredItem(ring, cur.slot, cur.frag, cur.body)
    OBVIOUS
  <2>3. /\ it \in ItemType(ring.k, ring.n)
        /\ ring' = [ring EXCEPT !.items[cur.slot] = it]
        /\ it.blk = old.blk
    BY <1>1, <2>1, <2>2, StoreItem
  <2>4. /\ it.has = old.has + 1
        /\ it.frags = [old.frags EXCEPT ![cur.frag] = cur.body]
        /\ old.frags \in [0 .. ring.n-1 -> Bodies \cup {Missing}]
        /\ old.has \in Nat
    BY <1>1, <2>2, SlotFits DEF StoredItem, ItemType
  <2>5. old.has < ring.k
    BY <1>1 DEF BlockInv, BlocksInRing
  <2>6. ItemSent(it, ring.n, session)
    <3>1. ItemSent(old, ring.n, session)
      BY <1>1 DEF SentInv, RingSent
    <3>2. IsSent(session, old.blk, cur.frag, cur.body)
      BY <1>1 DEF SentInv, HandledSent
    <3>3. ASSUME NEW f \in 0 .. ring.n-1, it.frags[f] # Missing
          PROVE  IsSent(session, it.blk, f, it.frags[f])
      <4>1. CASE f = cur.frag
        BY <2>3, <2>4, <3>2, <4>1
      <4>2. CASE f # cur.frag
        BY <2>3, <2>4, <3>1, <3>3, <4>2 DEF ItemSent
      <4> QED
        BY <4>1, <4>2
    <3> QED
      BY <3>3 DEF ItemSent
  <2>7. it.has <= ring.k
    BY <1>1, <2>4, <2>5
  <2> QED
    BY <1>1, <1>2, <2>1, <2>3, <2>6, <2>7, SentItem
<1> QED
  BY <1>3, <1>4

(* The loops of the flushes output what is there.                          *)
LEMMA SentFlushFragment ==
  ASSUME RxInv, SentInv, NEW s \in Slots, FlushFragment(s)
  PROVE  OutputIsSent'
<1>1. scan \in 0 .. ring.k-1
  BY InvFacts DEF FlushFragment
<1>2. CASE ring.items[s].frags[scan] # Missing /\ Output(s, scan)
  BY <1>1, <1>2, SentOutput
<1>3. CASE NoOutput
  BY <1>3 DEF NoOutput, SentInv, OutputIsSent
<1> QED
  BY <1>2, <1>3 DEF FlushFragment

LEMMA SentFlushEvicted ==
  ASSUME RxInv, SentInv, FlushEvicted
  PROVE  SentInv'
<1>1. /\ UNCHANGED <<session, ring, pc, cur>>
      /\ evicted \in Seq(Slots) /\ evicted # <<>>
  BY InvFacts DEF FlushEvicted, sessionVars, RxTypeOK
<1>2. Head(evicted) \in Slots
  BY <1>1
<1>3. OutputIsSent'
  <2>1. CASE FlushFragment(Head(evicted))
    BY <1>2, <2>1, SentFlushFragment
  <2>2. CASE NoOutput
    BY <2>2 DEF NoOutput, SentInv, OutputIsSent
  <2> QED
    BY <2>1, <2>2 DEF FlushEvicted
<1> QED
  BY <1>1, <1>3, SentKept

LEMMA SentFlushOlder ==
  ASSUME RxInv, SentInv, FlushOlder
  PROVE  SentInv'
<1>1. /\ pc = "flush" /\ UNCHANGED <<session, pc, cur>>
      /\ ring.front # cur.slot /\ ring.front \in Slots
      /\ ring.alloc > 0
  BY InvFacts DEF FlushOlder, sessionVars
<1>2. CASE FlushFragment(ring.front) /\ ring' = ring
  <2>1. OutputIsSent'
    BY <1>1, <1>2, SentFlushFragment
  <2> QED
    BY <1>1, <1>2, <2>1, SentKept
<1>3. CASE ring' = Advance(ring) /\ NoOutput
  <2>1. OutputIsSent'
    BY <1>3 DEF NoOutput, SentInv, OutputIsSent
  <2> QED
    BY <1>1, <1>3, <2>1, SentAdvance
<1> QED
  BY <1>2, <1>3 DEF FlushOlder

(* One fragment of the front block is passed on and marked as sent.        *)
LEMMA SentMarkSent ==
  ASSUME RxInv, SentInv, pc \in {"contiguous", "send"},
         UNCHANGED <<session, pc, cur>>,
         ring.items[cur.slot].next < ring.k,
         ring' = AdvanceFragmentToSend(ring, cur.slot),
         \/ /\ ring.items[cur.slot].frags[ring.items[cur.slot].next] # Missing
            /\ Output(cur.slot, ring.items[cur.slot].next)
         \/ NoOutput
  PROVE  SentInv'
<1> DEFINE old == ring.items[cur.slot]
<1>1. /\ Fits(ring) /\ cur.slot \in Slots
      /\ old \in ItemType(ring.k, ring.n) /\ ring.k \in Nat
  BY InvFacts
<1>2. old.next \in 0 .. ring.k-1
  BY <1>1 DEF ItemType
<1>3. OutputIsSent'
  <2>1. CASE NoOutput
    BY <2>1 DEF NoOutput, SentInv, OutputIsSent
  <2>2. CASE old.frags[old.next] # Missing /\ Output(cur.slot, old.next)
    BY <1>1, <1>2, <2>2, SentOutput
  <2> QED
    BY <2>1, <2>2
<1>4. PICK it \in ItemType(ring.k, ring.n) :
        /\ ring' = [ring EXCEPT !.items[cur.slot] = it]
        /\ it.blk = old.blk
        /\ it.frags = old.frags
        /\ it.has = old.has
  <2>1. /\ Fits(ring) /\ cur.slot \in Slots
        /\ ring.items[cur.slot].next < ring.k
        /\ ring' = AdvanceFragmentToSend(ring, cur.slot)
    BY <1>1
  <2>2. \E it \in ItemType(ring.k, ring.n) :
          /\ AdvanceFragmentToSend(ring, cur.slot)
               = [ring EXCEPT !.items[cur.slot] = it]
          /\ it.blk = ring.items[cur.slot].blk
          /\ it.next = ring.items[cur.slot].next + 1
          /\ it.frags = ring.items[cur.slot].frags
          /\ it.has = ring.items[cur.slot].has
    BY ONLY <2>1, MarkSent, Zenon
  <2> QED
    BY <2>1, <2>2
<1>5. ItemSent(it, ring.n, session)
  BY <1>1, <1>4 DEF SentInv, RingSent, ItemSent
<1>6. pc' \in {"contiguous", "flush"} => it.has <= ring.k
  BY <1>4 DEF SentInv, HandledSent
<1>7. pc # "idle" /\ pc' # "evict"
  OBVIOUS
<1> QED
  BY <1>3, <1>4, <1>5, <1>6, <1>7, SentItem

LEMMA SentSendContiguous ==
  ASSUME RxInv, SentInv, SendContiguous
  PROVE  SentInv'
  BY SentMarkSent DEF SendContiguous, sessionVars, handlerVars

LEMMA SentEndContiguous ==
  ASSUME RxInv, SentInv, EndContiguous
  PROVE  SentInv'
<1>1. /\ pc = "contiguous" /\ UNCHANGED <<session, cur, queued>>
      /\ ring.alloc > 0
  BY InvFacts DEF EndContiguous, sessionVars, queueVars
<1>2. OutputIsSent'
  BY <1>1 DEF SentInv, OutputIsSent
<1>3. CASE ring' = Advance(ring) /\ pc' = "idle"
  BY <1>1, <1>2, <1>3, SentAdvance
<1>4. CASE ring' = ring /\ pc' \in {"flush", "idle"}
  BY <1>1, <1>2, <1>4, SentKept
<1> QED
  BY <1>3, <1>4 DEF EndContiguous

(* The block is decoded from exactly k fragments.                          *)
LEMMA SentCompleteBlock ==
  ASSUME RxInv, BlockInv, SentInv, CompleteBlock
  PROVE  SentInv'
<1> DEFINE old == ring.items[cur.slot]
<1>1. /\ pc = "flush" /\ pc' = "send" /\ UNCHANGED <<session, cur, queued>>
      /\ Fits(ring) /\ cur.slot \in Slots /\ cur.slot \in ActiveSlots(ring)
      /\ old \in ItemType(ring.k, ring.n)
      /\ ring.k \in Nat \ {0} /\ ring.n \in Nat /\ ring.k <= ring.n
  BY InvFacts DEF CompleteBlock, sessionVars, queueVars, Fits
<1>2. OutputIsSent'
  BY <1>1 DEF SentInv, OutputIsSent
<1>3. CASE ~NeedsRecovery(ring, cur.slot)
  <2>1. ring' = ring
    BY <1>3 DEF CompleteBlock
  <2> QED
    BY <1>1, <1>2, <2>1, SentKept
<1>4. CASE NeedsRecovery(ring, cur.slot)
  <2> DEFINE new == Reconstruct(old.frags, ring.k, ring.n)
  <2>1. old.frags \in [0 .. ring.n-1 -> Bodies \cup {Missing}] /\ old.has \in Nat
    BY <1>1 DEF ItemType
  <2>2. Cardinality(Present(old.frags, 0 .. ring.n-1)) = ring.k
    <3>1. old.has >= ring.k /\ Recorded(old, ring.n, stored)
      BY <1>1 DEF BlockInv, BlocksInRing
    <3>2. old.has <= ring.k
      BY <1>1 DEF SentInv, HandledSent
    <3>3. old.has = ring.k
      BY <1>1, <2>1, <3>1, <3>2
    <3> QED
      BY <3>1, <3>3 DEF Recorded
  <2>3. ItemSent(old, ring.n, session)
    BY <1>1 DEF SentInv, RingSent
  <2>4. /\ session # NoSession /\ session \in MCSessions
        /\ ring.k = MCk(session) /\ ring.n = MCn(session)
    <3>1. Present(old.frags, 0 .. ring.n-1) # {}
      BY <1>1, <2>2, FS_EmptySet
    <3>2. PICK f \in 0 .. ring.n-1 : old.frags[f] # Missing
      BY <3>1 DEF Present
    <3>3. session # NoSession /\ session \in MCSessions
      BY <2>3, <3>2 DEF ItemSent, IsSent
    <3> QED
      BY <3>3 DEF SentInv, SessionSent
  <2>5. PICK word : word = MCWord(session, old.blk)
    OBVIOUS
  <2>6. /\ DOMAIN word = 0 .. ring.k-1
        /\ \A f \in 0 .. ring.k-1 : MCBody(session, old.blk, f) = word[f]
        /\ \A f \in ring.k .. ring.n-1 : MCBody(session, old.blk, f) = Parity(word)
    <3>1. \A f \in 0 .. ring.k-1 : f < ring.k
      BY <1>1
    <3>2. \A f \in ring.k .. ring.n-1 : ~(f < ring.k)
      BY <1>1
    <3>3. DOMAIN word = 0 .. ring.k-1
      BY <2>4, <2>5 DEF MCWord
    <3> QED
      BY <2>4, <2>5, <3>1, <3>2, <3>3 DEF MCBody
  <2>7. /\ \A f \in 0 .. ring.k-1 : old.frags[f] # Missing => old.frags[f] = word[f]
        /\ \A f \in ring.k .. ring.n-1 :
             old.frags[f] # Missing => old.frags[f] = Parity(word)
    <3>1. \A f \in 0 .. ring.n-1 :
            old.frags[f] # Missing => old.frags[f] = MCBody(session, old.blk, f)
      BY <2>3 DEF ItemSent, IsSent
    <3>2. /\ \A f \in 0 .. ring.k-1 : f \in 0 .. ring.n-1
          /\ \A f \in ring.k .. ring.n-1 : f \in 0 .. ring.n-1
      BY <1>1
    <3> QED
      BY <2>6, <3>1, <3>2
  <2>8. /\ \A f \in 0 .. ring.k-1 : new[f] = word[f]
        /\ \A f \in ring.k .. ring.n-1 : new[f] = old.frags[f]
        /\ new \in [0 .. ring.n-1 -> Bodies \cup {Missing}]
    <3>1. EnoughOfWord(old.frags, ring.k, ring.n, word)
      BY <2>2, <2>6, <2>7 DEF EnoughOfWord
    <3>2. new = [f \in 0 .. ring.n-1 |-> IF f < ring.k THEN word[f]
                                                      ELSE old.frags[f]]
      <4>1. PICK frags, k, n : frags = old.frags /\ k = ring.k /\ n = ring.n
        OBVIOUS
      <4>2. /\ k \in Nat \ {0} /\ n \in Nat /\ k <= n
            /\ frags \in [0 .. n-1 -> Bodies \cup {Missing}]
            /\ EnoughOfWord(frags, k, n, word)
        BY <1>1, <2>1, <3>1, <4>1
      <4>3. Reconstruct(frags, k, n)
              = [f \in 0 .. n-1 |-> IF f < k THEN word[f] ELSE frags[f]]
        BY ONLY <4>2, ReconstructSent
      <4> QED
        BY <4>1, <4>3
    <3>3. new \in [0 .. ring.n-1 -> Bodies \cup {Missing}]
      BY <1>1, <2>1, ReconstructFits
    <3> HIDE DEF new, old
    <3> QED
      BY <1>1, <3>2, <3>3
  <2>9. PICK it : it = [old EXCEPT !.frags = new]
    OBVIOUS
  <2>10. /\ it \in ItemType(ring.k, ring.n) /\ it.blk = old.blk
         /\ it.frags = new
    <3> HIDE DEF old, new
    <3> QED
      BY <1>1, <2>8, <2>9 DEF ItemType
  <2>11. ring' = [ring EXCEPT !.items[cur.slot] = it]
    BY <1>4, <2>9 DEF CompleteBlock, Recover
  <2>12. ItemSent(it, ring.n, session)
    <3>1. ASSUME NEW f \in 0 .. ring.n-1, it.frags[f] # Missing
          PROVE  it.frags[f] = MCBody(session, old.blk, f)
      <4>1. CASE f < ring.k
        <5>1. f \in 0 .. ring.k-1
          BY <1>1, <4>1
        <5> QED
          BY <2>6, <2>8, <2>10, <5>1
      <4>2. CASE ~(f < ring.k)
        <5>1. f \in ring.k .. ring.n-1
          BY <1>1, <4>2
        <5>2. new[f] = old.frags[f]
          BY <2>8, <5>1
        <5> HIDE DEF new
        <5> QED
          BY <2>3, <2>10, <3>1, <5>2 DEF ItemSent, IsSent
      <4> QED
        BY <4>1, <4>2
    <3> QED
      BY <2>4, <2>10, <3>1 DEF ItemSent, IsSent
  <2> HIDE DEF new
  <2> QED
    BY <1>1, <1>2, <2>10, <2>11, <2>12, SentItem
<1> QED
  BY <1>3, <1>4

LEMMA SentSendAll ==
  ASSUME RxInv, SentInv, SendAll
  PROVE  SentInv'
<1>1. /\ pc = "send" /\ UNCHANGED <<session, cur>> /\ ring.alloc > 0
  BY InvFacts DEF SendAll, sessionVars
<1>2. CASE /\ ring.items[cur.slot].next < ring.k
           /\ ring' = AdvanceFragmentToSend(ring, cur.slot)
           /\ IF ring.items[cur.slot].frags[ring.items[cur.slot].next] # Missing
                THEN Output(cur.slot, ring.items[cur.slot].next)
                ELSE NoOutput
           /\ pc' = pc
  BY <1>1, <1>2, SentMarkSent
<1>3. CASE ring' = Advance(ring) /\ pc' = "idle" /\ NoOutput
  <2>1. OutputIsSent'
    BY <1>3 DEF NoOutput, SentInv, OutputIsSent
  <2> QED
    BY <1>1, <1>3, <2>1, SentAdvance
<1> QED
  BY <1>2, <1>3 DEF SendAll

LEMMA SentNext ==
  HonestTransmitter /\ RxInv /\ BlockInv /\ SentInv /\ [RxNext]_rxVars => SentInv'
<1> SUFFICES ASSUME HonestTransmitter, RxInv, BlockInv, SentInv, [RxNext]_rxVars
             PROVE  SentInv'
  OBVIOUS
<1>1. CASE \E a \in Announcements : ProcessSession(a)
  BY <1>1, SentProcessSession
<1>2. CASE \E p \in DataPackets : StartData(p)
  BY <1>2, SentStartData
<1>3. CASE HandlerStep
  BY <1>3, SentFlushEvicted, SentStoreFragment, SentSendContiguous,
     SentEndContiguous, SentFlushOlder, SentCompleteBlock, SentSendAll
     DEF HandlerStep
<1>4. CASE OutputProcessor \/ UNCHANGED rxVars
  <2>1. UNCHANGED <<session, ring, pc, cur, queued>>
    BY <1>4 DEF OutputProcessor, sessionVars, handlerVars, rxVars
  <2>2. OutputIsSent'
    BY <2>1 DEF SentInv, OutputIsSent
  <2> QED
    BY <2>1, <2>2, SentKept
<1> QED
  BY <1>1, <1>2, <1>3, <1>4
     DEF RxNext, ProcessPacket, RefuseSession, RefuseData

(* Whatever k fragments of a block arrive, and whatever had been output of *)
(* it before, each payload output is the one the transmitter put in that   *)
(* position: those that were received (sendContiguousFragments, the        *)
(* flushes) and those processCompleteBlock recovers.                       *)
THEOREM OutputIsWhatWasSent ==
  HonestTransmitter => (RxSpec => []OutputIsSent)
<1> SUFFICES ASSUME HonestTransmitter PROVE RxSpec => []OutputIsSent
  OBVIOUS
<1>1. RxInv /\ BlockInv /\ SentInv /\ [RxNext]_rxVars => SentInv'
  BY SentNext
<1>2. SentInv => OutputIsSent
  BY DEF SentInv
<1> QED
  BY <1>1, <1>2, SentInit, Invariance, BlocksInvariance, PTL DEF RxSpec
=============================================================================
