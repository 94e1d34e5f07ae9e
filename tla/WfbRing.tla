------------------------------ MODULE WfbRing ------------------------------
(***************************************************************************)
(* The receive ring of FEC blocks (pkg/rx/ring.go): a circular array of    *)
(* RingSize slots of which `alloc', starting at `front', are in use.       *)
(* The operations are operators from rings to rings; WfbAggregator calls   *)
(* them where Aggregator calls the methods.                                *)
(***************************************************************************)
EXTENDS WfbFragments, Sequences

CONSTANT RingSize        \* RingSize = 40 in the code

ASSUME RingSizeAssumption == RingSize \in Nat \ {0}

NoBlock == -1            \* noLastKnownBlock

Slots == 0 .. RingSize-1

Item(b, n) == [blk   |-> b,
               frags |-> [f \in 0 .. n-1 |-> Missing],
               next  |-> 0,      \* FragmentToSend
               has   |-> 0]      \* HasFragments

ItemType(k, n) == [blk   : Nat,
                   frags : [0 .. n-1 -> Bodies \cup {Missing}],
                   next  : 0 .. k,
                   has   : Nat]

RingType(k, n) == [k : {k}, n : {n}, front : Slots, alloc : 0 .. RingSize,
                   lastKnown : Nat \cup {NoBlock},
                   items : [Slots -> ItemType(k, n)]]

NewRing(k, n) == [k |-> k, n |-> n, front |-> 0, alloc |-> 0,
                  lastKnown |-> NoBlock,
                  items |-> [s \in Slots |-> Item(0, n)]]

(* Reset reuses a ring for a new session: nothing of the old one is left.  *)
ResetKeepsLastKnown(r, k, n) == [NewRing(k, n) EXCEPT !.lastKnown = r.lastKnown]
Reset(r, k, n) == NewRing(k, n)

Fits(r) ==
  /\ r.k \in Nat \ {0}
  /\ r.n \in Nat
  /\ r.k <= r.n
  /\ r \in RingType(r.k, r.n)

(* modN(x, RingSize): TLA+'s % is the positive modulo modN computes.       *)
modNForgotten(x) == x
modN(x) == x % RingSize

(* The slot of the j-th block of the ring.                                 *)
Slot(r, j) == modN(r.front + j)

(* The position of slot s counted from slot Slot(r, j).                    *)
Offset(r, j, s) == modN(s + 2 * RingSize - r.front - j)

ActiveSlots(r) == {Slot(r, j) : j \in 0 .. r.alloc-1}

Holders(r, b) == {s \in ActiveSlots(r) : r.items[s].blk = b}

(* The blocks in the ring are consecutive and end at lastKnown.            *)
Consecutive(r) ==
  \A j \in 0 .. r.alloc-1 :
    r.items[Slot(r, j)].blk = r.lastKnown - (r.alloc-1 - j)

(***************************************************************************)
(* GetBlockRingIdx.  A block already in the ring is found; one that is not *)
(* in the ring and not beyond lastKnown is refused; otherwise every block  *)
(* after lastKnown up to b gets a slot, at most RingSize of them, the      *)
(* oldest blocks being pushed out when the ring is full.                   *)
(***************************************************************************)
TooOld(r, b) == /\ Holders(r, b) = {}
                /\ r.lastKnown # NoBlock
                /\ b <= r.lastKnown

NewBlocks(r, b) ==
  IF r.lastKnown = NoBlock THEN 1
  ELSE IF b - r.lastKnown > RingSize THEN RingSize ELSE b - r.lastKnown

Overflow(r, m) == IF r.alloc + m > RingSize THEN r.alloc + m - RingSize ELSE 0

(* The slots ringPush takes from the front, in order.                      *)
EvictedSlots(r, m) == [i \in 1 .. Overflow(r, m) |-> Slot(r, i - 1)]

(* The m calls of ringPush, each followed by the reset of its slot: the    *)
(* evicted slots are among those that are reset.                           *)
Push(r, b, m) ==
  [r EXCEPT !.lastKnown = b,
            !.front = Slot(r, Overflow(r, m)),
            !.alloc = @ + m - Overflow(r, m),
            !.items = [s \in Slots |->
                         LET i == Offset(r, r.alloc, s)
                         IN  IF i < m THEN Item(b + i + 1 - m, r.n)
                                      ELSE r.items[s]]]

(* SetFragmentSize after the copy into GetFragmentBuffer's buffer.         *)
HasRoom(r, s, f) == f < r.n /\ r.items[s].frags[f] = Missing

Store(r, s, f, body) ==
  [r EXCEPT !.items[s].frags[f] = body,
            !.items[s].has = @ + 1]

NeedsRecoveryOffByOne(r, s) == r.items[s].has > r.k
NeedsRecovery(r, s) ==
  /\ r.items[s].has >= r.k
  /\ \E f \in 0 .. r.k-1 : r.items[s].frags[f] = Missing

Recover(r, s) ==
  [r EXCEPT !.items[s].frags = Reconstruct(@, r.k, r.n)]

AdvanceFragmentToSend(r, s) == [r EXCEPT !.items[s].next = @ + 1]

WasSentNever(r, s, f) == FALSE
WasSent(r, s, f) == f < r.items[s].next

IsComplete(r, s) == r.items[s].next >= r.k

AdvanceKeepsFront(r) ==
  IF r.alloc = 0 THEN r
  ELSE [r EXCEPT !.items[r.front] = Item(0, r.n), !.alloc = @ - 1]

Advance(r) ==
  IF r.alloc = 0 THEN r
  ELSE [r EXCEPT !.items[r.front] = Item(0, r.n),
                 !.front = Slot(r, 1),
                 !.alloc = @ - 1]
=============================================================================
