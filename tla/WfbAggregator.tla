--------------------------- MODULE WfbAggregator ---------------------------
(***************************************************************************)
(* The receiver's Aggregator (pkg/rx/aggregator.go): sessions, reassembly  *)
(* of FEC blocks in the ring, output, and the loss counter.                *)
(*                                                                         *)
(* Two goroutines touch this state.  Receivers call ProcessPacket, which   *)
(* holds a.mu for the whole packet; runOutputProcessor drains outputChan   *)
(* without any lock.  outputFragment sends to that channel without         *)
(* blocking and drops the packet when it is full, so the processor's       *)
(* progress between two sends of one ProcessPacket call matters: a packet  *)
(* is therefore processed in steps, one per fragment looked at, and `pc'   *)
(* says where in processDataPacket the holder of a.mu is.                  *)
(*                                                                         *)
(* A data packet decrypts under the key of one session only, so a session  *)
(* key is a number and decryption is the test that the numbers are equal.  *)
(***************************************************************************)
EXTENDS WfbRing

CONSTANTS
  MaxBlockIdx,      \* protocol.MAX_BLOCK_IDX
  OutCap,           \* capacity of outputChan (256)
  SeqMod,           \* packet sequence numbers are uint32: 2^32
  MinEpoch,         \* AggregatorConfig.Epoch
  MaxIncarnations   \* bound: accepted session changes

ASSUME AggregatorAssumption ==
  /\ MaxBlockIdx \in Nat
  /\ OutCap \in Nat \ {0}
  /\ SeqMod \in Nat \ {0}
  /\ MinEpoch \in Nat
  /\ MaxIncarnations \in Nat

VARIABLES
  session,    \* the session key in use, NoSession before the first
  epoch,      \* a.epoch: lower bound for announcements
  ring,       \* a.ring; fecK and fecN are its k and n
  pc,         \* where processDataPacket is; "idle" when a.mu is free
  cur,        \* its locals: ring slot, fragment index, plaintext
  evicted,    \* slots still to be passed to flushEvictedBlock
  scan,       \* fragIdx of the loop in flushEvictedBlock, flushSingleBlock
  queued,     \* everything ever sent to outputChan, in order (history)
  taken,      \* how many of them runOutputProcessor has received
  lastSeq,    \* the processor's local lastSeq
  lost,       \* stats.packetsLost
  incarnation, \* how often the session key changed (history)
  stored,     \* fragments stored in this incarnation (history)
  offered     \* fragments passed to outputFragment (history)

NoSession == 0

sessionVars == <<session, epoch, incarnation>>
handlerVars == <<pc, cur, evicted, scan>>
queueVars   == <<queued, taken, lastSeq>>
rxVars == <<session, epoch, ring, pc, cur, evicted, scan, queued, taken,
            lastSeq, lost, incarnation, stored, offered>>

Idle == [slot |-> 0, frag |-> 0, body |-> Empty]

RxInit ==
  /\ session = NoSession
  /\ epoch = MinEpoch
  /\ ring = NewRing(1, 1)       \* no ring before the first session
  /\ pc = "idle"
  /\ cur = Idle
  /\ evicted = <<>>
  /\ scan = 0
  /\ queued = <<>>
  /\ taken = 0
  /\ lastSeq = 0
  /\ lost = 0
  /\ incarnation = 0
  /\ stored = {}
  /\ offered = {}
-----------------------------------------------------------------------------
(***************************************************************************)
(* processSessionPacket.  An announcement seen before is only counted, and *)
(* so is one for the key in use.  The new key takes effect with an empty   *)
(* ring and the announcement's FEC parameters, whatever was in the ring.   *)
(***************************************************************************)
ValidAnnouncement(a) ==
  /\ a.epoch >= epoch
  /\ 1 <= a.k
  /\ a.k <= a.n

ProcessSession(a) ==
  /\ pc = "idle"
  /\ incarnation < MaxIncarnations
  /\ ValidAnnouncement(a)
  /\ a.sess # session
  /\ session' = a.sess
  /\ epoch' = a.epoch
  /\ ring' = Reset(ring, a.k, a.n)
  /\ incarnation' = incarnation + 1
  /\ stored' = {}
  /\ offered' = {}
  /\ UNCHANGED <<handlerVars, queueVars, lost>>

(* The early returns, and the announcement of the session in use: only     *)
(* packet counters change.                                                 *)
RefuseSession(a) ==
  /\ pc = "idle"
  /\ ~ValidAnnouncement(a) \/ a.sess = session
  /\ UNCHANGED rxVars

(***************************************************************************)
(* processDataPacket up to GetBlockRingIdx: decryption, the bound on the   *)
(* block index, and the slot of the block.                                 *)
(***************************************************************************)
Acceptable(p) ==
  /\ session # NoSession
  /\ p.sess = session
  /\ p.blk <= MaxBlockIdx
  /\ ~TooOld(ring, p.blk)

StartData(p) ==
  /\ pc = "idle"
  /\ Acceptable(p)
  /\ IF Holders(ring, p.blk) # {}
       THEN /\ \E s \in Holders(ring, p.blk) :
                 cur' = [slot |-> s, frag |-> p.frag, body |-> p.body]
            /\ evicted' = <<>>
            /\ UNCHANGED ring
       ELSE LET m == NewBlocks(ring, p.blk)
            IN  /\ cur' = [slot |-> Slot(ring, ring.alloc + m - 1),
                           frag |-> p.frag, body |-> p.body]
                /\ evicted' = EvictedSlots(ring, m)
                /\ ring' = Push(ring, p.blk, m)
  /\ pc' = "evict"
  /\ scan' = 0
  /\ UNCHANGED <<sessionVars, queueVars, lost, stored, offered>>

RefuseData(p) ==
  /\ pc = "idle"
  /\ ~Acceptable(p)
  /\ UNCHANGED rxVars

(***************************************************************************)
(* outputFragment: padding and empty packets end here; a payload goes to   *)
(* outputChan if there is room and is counted as lost if there is none.    *)
(***************************************************************************)
Seqno(b, f) == ((b % SeqMod) * ring.k + f) % SeqMod

Output(s, f) ==
  LET item == ring.items[s]
      body == item.frags[f]
  IN  /\ offered' = offered \cup {<<item.blk, f>>}
      /\ \/ /\ MayBeDropped(body)
            /\ UNCHANGED <<queued, lost>>
         \/ /\ CarriesPayload(body)
            /\ IF Len(queued) - taken < OutCap
                 THEN /\ queued' = Append(queued,
                             [inc |-> incarnation, sess |-> session,
                              blk |-> item.blk, frag |-> f,
                              seq |-> Seqno(item.blk, f), body |-> body])
                      /\ UNCHANGED lost
                 ELSE /\ lost' = lost + 1
                      /\ UNCHANGED queued

NoOutput == UNCHANGED <<queued, lost, offered>>

(* The body of the loops of flushEvictedBlock and flushSingleBlock: send   *)
(* what is there and was not sent (WasSent) before.                        *)
FlushFragment(s) ==
  /\ scan < ring.k
  /\ scan' = scan + 1
  /\ IF ring.items[s].frags[scan] # Missing /\ ~WasSent(ring, s, scan)
       THEN Output(s, scan)
       ELSE NoOutput

(* flushEvictedBlock, called after GetBlockRingIdx has reset the slots.    *)
FlushEvicted ==
  /\ pc = "evict"
  /\ evicted # <<>>
  /\ \/ /\ FlushFragment(Head(evicted))
        /\ UNCHANGED evicted
     \/ /\ scan = ring.k
        /\ scan' = 0
        /\ evicted' = Tail(evicted)
        /\ NoOutput
  /\ UNCHANGED <<sessionVars, ring, pc, cur, taken, lastSeq, stored>>

(* Enough fragments to output the block, decoding it if need be.           *)
DecodableLate(r, s) == r.items[s].has > r.k
Decodable(r, s) == r.items[s].has >= r.k

(* GetFragmentBuffer, SetFragmentSize and the choice of what comes next.   *)
StoreFragment ==
  /\ pc = "evict"
  /\ evicted = <<>>
  /\ IF HasRoom(ring, cur.slot, cur.frag)
       THEN LET r == Store(ring, cur.slot, cur.frag, cur.body)
            IN  /\ ring' = r
                /\ stored' = stored \cup {<<r.items[cur.slot].blk, cur.frag>>}
                /\ pc' = IF cur.slot = r.front THEN "contiguous"
                         ELSE IF Decodable(r, cur.slot) THEN "flush"
                         ELSE "idle"
       ELSE /\ pc' = "idle"
            /\ UNCHANGED <<ring, stored>>
  /\ scan' = 0
  /\ UNCHANGED <<sessionVars, queueVars, lost, cur, evicted, offered>>

(* sendContiguousFragments: one fragment of the front block.               *)
SendContiguous ==
  LET item == ring.items[cur.slot]
  IN  /\ pc = "contiguous"
      /\ item.next < ring.k
      /\ item.frags[item.next] # Missing
      /\ Output(cur.slot, item.next)
      /\ ring' = AdvanceFragmentToSend(ring, cur.slot)
      /\ UNCHANGED <<sessionVars, handlerVars, taken, lastSeq, stored>>

(* ... and the end of its loop: the block is done, complete, or waits.     *)
EndContiguous ==
  LET item == ring.items[cur.slot]
  IN  /\ pc = "contiguous"
      /\ item.next < ring.k => item.frags[item.next] = Missing
      /\ IF IsComplete(ring, cur.slot)
           THEN /\ ring' = Advance(ring)
                /\ pc' = "idle"
           ELSE /\ pc' = IF Decodable(ring, cur.slot) THEN "flush" ELSE "idle"
                /\ UNCHANGED ring
      /\ UNCHANGED <<sessionVars, queueVars, lost, cur, evicted, scan,
                     stored, offered>>

(* flushOlderBlocks: flushSingleBlock on the front block until the target  *)
(* block is the front.                                                     *)
FlushOlder ==
  /\ pc = "flush"
  /\ ring.front # cur.slot
  /\ \/ /\ FlushFragment(ring.front)
        /\ UNCHANGED ring
     \/ /\ scan = ring.k
        /\ scan' = 0
        /\ ring' = Advance(ring)
        /\ NoOutput
  /\ UNCHANGED <<sessionVars, pc, cur, evicted, taken, lastSeq, stored>>

(* processCompleteBlock, once the target block is the front.               *)
CompleteBlock ==
  /\ pc = "flush"
  /\ ring.front = cur.slot
  /\ ring' = IF NeedsRecovery(ring, cur.slot) THEN Recover(ring, cur.slot)
                                              ELSE ring
  /\ pc' = "send"
  /\ UNCHANGED <<sessionVars, queueVars, lost, cur, evicted, scan,
                 stored, offered>>

(* sendAllFragments, one fragment; then the ring moves past the block.     *)
SendAll ==
  LET item == ring.items[cur.slot]
  IN  /\ pc = "send"
      /\ \/ /\ item.next < ring.k
            /\ ring' = AdvanceFragmentToSend(ring, cur.slot)
            /\ IF item.frags[item.next] # Missing
                 THEN Output(cur.slot, item.next)
                 ELSE NoOutput
            /\ UNCHANGED pc
         \/ /\ item.next = ring.k
            /\ ring' = Advance(ring)
            /\ pc' = "idle"
            /\ NoOutput
      /\ UNCHANGED <<sessionVars, cur, evicted, scan, taken, lastSeq, stored>>

(***************************************************************************)
(* runOutputProcessor: a gap in the sequence numbers is a loss, and the    *)
(* packet goes to outputFn.  The first packet starts the count.            *)
(***************************************************************************)
OutputProcessor ==
  /\ taken < Len(queued)
  /\ LET pkt == queued[taken + 1]
     IN  /\ lost' = IF pkt.seq > (lastSeq + 1) % SeqMod /\ lastSeq > 0
                      THEN lost + ((pkt.seq - lastSeq - 1) % SeqMod)
                      ELSE lost
         /\ lastSeq' = pkt.seq
  /\ taken' = taken + 1
  /\ UNCHANGED <<sessionVars, handlerVars, ring, queued, stored, offered>>

HandlerStep ==
  \/ FlushEvicted
  \/ StoreFragment
  \/ SendContiguous
  \/ EndContiguous
  \/ FlushOlder
  \/ CompleteBlock
  \/ SendAll

-----------------------------------------------------------------------------
(***************************************************************************)
(* Properties of the aggregator, whatever packets it is given.             *)
(***************************************************************************)
QueueType == [inc : 0 .. incarnation, sess : Nat, blk : Nat, frag : Nat,
              seq : 0 .. SeqMod-1, body : Bodies]

(* The types of the aggregator's variables.                                *)
RxTypeOK ==
  /\ session \in Nat
  /\ epoch \in Nat
  /\ Fits(ring)
  /\ pc \in {"idle", "evict", "contiguous", "flush", "send"}
  /\ cur \in [slot : Slots, frag : Nat, body : Bodies]
  /\ evicted \in Seq(Slots)
  /\ scan \in 0 .. ring.k
  /\ queued \in Seq(QueueType)
  /\ taken \in 0 .. Len(queued)
  /\ lastSeq \in 0 .. SeqMod-1
  /\ lost \in Nat
  /\ incarnation \in 0 .. MaxIncarnations

(* Positions in the stream, in the order the transmitter filled them.      *)
Before(p, q) ==
  \/ p.inc < q.inc
  \/ p.inc = q.inc /\ p.blk < q.blk
  \/ p.inc = q.inc /\ p.blk = q.blk /\ p.frag < q.frag

(* Packets reach the output in the order they were sent in and at most     *)
(* once per session, whatever order, duplicates and losses the radio and   *)
(* the receivers' goroutines produce: the early sends of the front block,  *)
(* the flushes of incomplete blocks and the recovered blocks interleave    *)
(* without overtaking each other (processDataPacket, flushOlderBlocks,     *)
(* sendContiguousFragments, WasSent).                                      *)
InOrder ==
  \A i, j \in 1 .. Len(queued) : i < j => Before(queued[i], queued[j])

(* The blocks in the ring are consecutive and end at lastKnown.  The       *)
(* lookup relies on it: a block that is neither in the ring nor beyond     *)
(* lastKnown is refused as already processed (ring.go:129), and a block    *)
(* must not occupy two slots.                                              *)
RingConsecutive == Consecutive(ring)

(* No block waits in the ring with enough fragments to be decoded: as soon *)
(* as the k-th arrives the block, and everything older, is output.         *)
NoDecodableBlockWaits ==
  pc = "idle" =>
    \A s \in ActiveSlots(ring) :
      Cardinality(Present(ring.items[s].frags, DOMAIN ring.items[s].frags))
        < ring.k

StoredOf(b) == {f \in 0 .. ring.n-1 : <<b, f>> \in stored}

(* A block of which k fragments were accepted is output in full, wherever  *)
(* it was in the ring, whichever fragments they were and whatever had been *)
(* sent of it before.                                                      *)
CompletedBlocksOffered ==
  pc = "idle" =>
    \A e \in stored :
      Cardinality(StoredOf(e[1])) >= ring.k =>
        \A f \in 0 .. ring.k-1 : <<e[1], f>> \in offered

(* The highest block known is one a fragment of which was accepted in this *)
(* session: nothing remembered from an earlier session makes the receiver  *)
(* refuse blocks as too old ("This clears lastKnown so new blocks aren't   *)
(* rejected", aggregator.go:500).                                          *)
LastKnownIsOfThisSession ==
  pc = "idle" =>
    IF stored = {} THEN ring.lastKnown = NoBlock
    ELSE /\ \E e \in stored : e[1] = ring.lastKnown
         /\ \A e \in stored : e[1] <= ring.lastKnown

(* flushEvictedBlock "sends remaining fragments from a block being         *)
(* evicted" (aggregator.go:707): every data fragment stored in a block     *)
(* that is no longer in the ring was output.                               *)
EvictedFragmentsOffered ==
  pc = "idle" =>
    \A e \in stored :
      e[2] < ring.k /\ Holders(ring, e[1]) = {} => e \in offered

(* ProcessPacket returns: none of its loops, flushOlderBlocks' unbounded   *)
(* one included, spins while it holds a.mu.                                *)
HandlerReturns == pc # "idle" ~> pc = "idle"
=============================================================================
