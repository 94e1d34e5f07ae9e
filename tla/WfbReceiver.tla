---------------------------- MODULE WfbReceiver ----------------------------
(***************************************************************************)
(* An Aggregator given any sequence of packets: announcements of any       *)
(* session, and data packets in any order, with any duplicates and losses, *)
(* as several receiver goroutines, one per wlan, hand them over.           *)
(***************************************************************************)
EXTENDS WfbAggregator

CONSTANTS
  Announcements,    \* decrypted contents of session packets
  DataPackets       \* contents of data packets

ASSUME PacketsAssumption ==
  /\ \A a \in Announcements : /\ a.sess \in Nat \ {NoSession}
                              /\ a.epoch \in Nat
                              /\ a.k \in Nat
                              /\ a.n \in Nat
  /\ \A p \in DataPackets : /\ p.sess \in Nat
                            /\ p.blk \in Nat
                            /\ p.frag \in Nat
                            /\ p.body \in Bodies

ProcessPacket ==
  \/ \E a \in Announcements : ProcessSession(a) \/ RefuseSession(a)
  \/ \E p \in DataPackets : StartData(p) \/ RefuseData(p)

RxNext ==
  \/ ProcessPacket
  \/ HandlerStep
  \/ OutputProcessor

RxSpec == RxInit /\ [][RxNext]_rxVars

(* A goroutine that is in ProcessPacket keeps running.                     *)
RxFairness == WF_rxVars(HandlerStep)

RxFairSpec == RxSpec /\ RxFairness
-----------------------------------------------------------------------------
(***************************************************************************)
(* The inductive invariant behind InOrder and RingConsecutive: everything  *)
(* output so far in this incarnation lies behind a frontier in the front   *)
(* block, and what will be output next lies at or beyond it.               *)
(***************************************************************************)
Behind(q, b, f) == q.blk < b \/ (q.blk = b /\ q.frag < f)

FrontItem == ring.items[ring.front]

FrontNext ==
  IF pc = "flush" /\ scan > FrontItem.next THEN scan ELSE FrontItem.next

QueueBehindRing ==
  \A i \in 1 .. Len(queued) :
    queued[i].inc = incarnation =>
      /\ queued[i].blk <= ring.lastKnown
      /\ ring.alloc > 0 => Behind(queued[i], FrontItem.blk, FrontNext)

(* Only the front block is sent from before it is complete.                *)
OnlyFrontSent ==
  \A j \in 1 .. ring.alloc-1 : ring.items[Slot(ring, j)].next = 0

(* The block being handled is in the ring: flushOlderBlocks ends at it.    *)
TargetInRing ==
  /\ pc # "idle" => cur.slot \in ActiveSlots(ring)
  /\ pc \in {"contiguous", "send"} => cur.slot = ring.front
  /\ pc \in {"idle", "contiguous", "send"} => scan = 0
  /\ pc = "flush" /\ ring.front = cur.slot => scan = 0

(* The evicted slots have been reset before they are flushed.              *)
EvictedReset ==
  pc = "evict" =>
    \A i \in 1 .. Len(evicted) :
      \A f \in 0 .. ring.n-1 : ring.items[evicted[i]].frags[f] = Missing

RxInv ==
  /\ RxTypeOK
  /\ RingConsecutive
  /\ OnlyFrontSent
  /\ TargetInRing
  /\ EvictedReset
  /\ QueueBehindRing
  /\ InOrder
=============================================================================
