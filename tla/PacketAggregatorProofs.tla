----------------------- MODULE PacketAggregatorProofs -----------------------
(***************************************************************************)
(* Proofs about PacketAggregator: whatever the sizes of the packets and of *)
(* the frames, the buffer fits a frame, no accepted packet is lost or      *)
(* overtaken on its way to the flush function, one that waits has a timer, *)
(* and the whole stream implements OrderedDelivery.                        *)
(***************************************************************************)
EXTENDS PacketAggregator, TLAPS

(* The inductive invariant: the size, the list and the timer are cleared   *)
(* together, an expired timer's callback is still to come, and a stopped   *)
(* aggregator is empty.                                                    *)
Cleared ==
  /\ agg.size = 0 <=> agg.packets = <<>>
  /\ agg.size = 0 <=> agg.timer = "nil"

AggInv ==
  /\ AggTypeOK
  /\ FlushedInOrder
  /\ Cleared
  /\ agg.timer = "expired" => callbacks > 0
  /\ agg.stopped => agg.size = 0

-----------------------------------------------------------------------------
(* The type of the aggregator by itself.                                   *)
Aggregator == [packets : Seq(Packet), size : 0 .. MaxSize,
               timer : {"nil", "running", "expired"}, stopped : BOOLEAN]

(* A frame given to sendToTX.                                              *)
Frame == [packets : Seq(Packet), size : Nat, framed : BOOLEAN]

(* A packet takes some room, so a buffer that holds one is not of size 0.  *)
LEMMA PacketSize == \A p \in Packet : p.size \in Nat \ {0}
  <1> TAKE p \in Packet
  <1>1. Sizes \subseteq Nat \ {0}
    BY AggregatorConfig
  <1>2. p.size \in Sizes
    BY DEF Packet
  <1> QED
    BY <1>1, <1>2

LEMMA CostPositive == \A p \in Packet : Cost(p) \in Nat \ {0}
  <1>1. HeaderSize \in Nat
    BY AggregatorConfig
  <1> QED
    BY <1>1, PacketSize DEF Cost

(* flushLocked empties the aggregator and leaves stopped alone.            *)
LEMMA FlushClears ==
  ASSUME AggTypeOK, Cleared
  PROVE  /\ Flush(agg) \in Aggregator
         /\ Flush(agg).packets = <<>> /\ Flush(agg).size = 0
         /\ Flush(agg).timer = "nil" /\ Flush(agg).stopped = agg.stopped
  <1>1. agg \in Aggregator
    BY DEF AggTypeOK, Aggregator
  <1>2. CASE agg.size = 0
    BY <1>1, <1>2 DEF Cleared, Flush
  <1>3. CASE agg.size # 0
    <2>1. Flush(agg) = [packets |-> <<>>, size |-> 0, timer |-> "nil",
                        stopped |-> agg.stopped]
      BY <1>1, <1>3 DEF Flush, Aggregator
    <2>2. <<>> \in Seq(Packet) /\ 0 \in 0 .. MaxSize /\ agg.stopped \in BOOLEAN
      BY <1>1, AggregatorConfig DEF Aggregator
    <2> QED
      BY <2>1, <2>2 DEF Aggregator
  <1> QED
    BY <1>2, <1>3

(* Add's second half, for an aggregator with room for the packet.          *)
LEMMA PutFills ==
  ASSUME NEW a \in Aggregator, NEW p \in Packet, a.size + Cost(p) <= MaxSize
  PROVE  /\ Put(a, p) \in Aggregator
         /\ Put(a, p).packets = Append(a.packets, p)
         /\ Put(a, p).packets # <<>> /\ Put(a, p).size > 0
         /\ Put(a, p).timer = IF a.timer = "nil" THEN "running" ELSE a.timer
         /\ Put(a, p).stopped = a.stopped
  <1>1. Cost(p) \in Nat /\ Cost(p) > 0
    BY CostPositive
  <1>2. a.size + Cost(p) \in 0 .. MaxSize
    BY <1>1, AggregatorConfig DEF Aggregator
  <1>3. Append(a.packets, p) \in Seq(Packet) /\ Append(a.packets, p) # <<>>
    BY DEF Aggregator
  <1>4. /\ a.timer \in {"nil", "running", "expired"} /\ a.size \in Nat
        /\ a = [packets |-> a.packets, size |-> a.size, timer |-> a.timer,
                stopped |-> a.stopped]
    BY AggregatorConfig DEF Aggregator
  <1> DEFINE tm == IF a.timer = "nil" THEN "running" ELSE a.timer
  <1>5. /\ Put(a, p).packets = Append(a.packets, p)
        /\ Put(a, p).size = a.size + Cost(p)
        /\ Put(a, p).timer = tm
        /\ Put(a, p).stopped = a.stopped
    BY <1>4 DEF Put
  <1>6. tm \in {"nil", "running", "expired"}
    BY <1>4
  <1> HIDE DEF tm
  <1>7. Put(a, p) = [a EXCEPT !.packets = Append(a.packets, p),
                              !.size = a.size + Cost(p), !.timer = tm]
    BY DEF Put, tm
  <1>8. Put(a, p) \in Aggregator
    BY <1>2, <1>3, <1>6, <1>7 DEF Aggregator
  <1> QED
    BY <1>1, <1>3, <1>4, <1>5, <1>8 DEF tm

(* What SendBuffer leaves: with the buffer flushed, everything added.      *)
LEMMA SendBufferKeepsTypes ==
  ASSUME AggTypeOK, Cleared, SendBuffer
  PROVE  /\ sent' \in Seq(Frame)
         /\ flushed' \in Seq(Packet)
         /\ flushed' = flushed \o agg.packets
  <1> DEFINE f == [packets |-> agg.packets, size |-> agg.size,
                   framed |-> Framed]
  <1>1. f \in Frame
    <2>1. agg.packets \in Seq(Packet) /\ agg.size \in Nat /\ Framed \in BOOLEAN
      BY AggregatorConfig DEF AggTypeOK
    <2> QED
      BY <2>1 DEF Frame
  <1>2. sent \in Seq(Frame) /\ (sent' = sent \/ sent' = Append(sent, f))
    BY DEF AggTypeOK, SendBuffer, Frame
  <1> HIDE DEF f
  <1>3. sent' \in Seq(Frame)
    BY <1>1, <1>2
  <1> QED
    BY <1>3 DEF AggTypeOK, SendBuffer, Frame

-----------------------------------------------------------------------------
LEMMA AggInvInit == Init => AggInv
  BY AggregatorConfig
     DEF Init, AggInv, AggTypeOK, FlushedInOrder, Cleared, Packet

(* sendPacket, when Add takes the packet.                                  *)
LEMMA AddPacketKeeps ==
  ASSUME AggInv, NEW p \in Packet, AddPacket(p)
  PROVE  AggInv'
  <1> USE DEF AggInv
  <1>1. /\ p \in Packet /\ Cost(p) \in Nat /\ Cost(p) <= MaxSize
        /\ ~ agg.stopped /\ agg \in Aggregator
    BY CostPositive DEF AddPacket, AggTypeOK, Aggregator
  <1>2. /\ added' \in Seq(Packet) /\ added' = Append(added, p)
        /\ read' \in Nat
        /\ UNCHANGED <<callbacks, direct, frame, unpacked, delivered>>
    BY <1>1 DEF AddPacket, Read, AggTypeOK
  <1>3. CASE Overflows(p) /\ agg' = Put(Flush(agg), p) /\ SendBuffer
    <2>1. Flush(agg) \in Aggregator /\ Flush(agg).size + Cost(p) <= MaxSize
      BY <1>1, FlushClears
    <2>2. /\ agg' \in Aggregator /\ agg'.packets = Append(<<>>, p)
          /\ agg'.packets # <<>> /\ agg'.size > 0
          /\ agg'.timer = "running" /\ ~ agg'.stopped
      BY <1>1, <1>3, <2>1, PutFills, FlushClears
    <2>3. FlushedInOrder'
      <3>1. flushed' = added
        BY <1>3 DEF SendBuffer, FlushedInOrder
      <3>2. Append(added, p) = added \o Append(<<>>, p)
        BY <1>1 DEF AggTypeOK
      <3> QED
        BY <1>2, <2>2, <3>1, <3>2 DEF FlushedInOrder
    <2>4. AggTypeOK'
      BY <1>2, <1>3, <2>2, SendBufferKeepsTypes DEF AggTypeOK, Aggregator, Frame
    <2> QED
      BY <2>2, <2>3, <2>4 DEF Cleared
  <1>4. CASE ~ Overflows(p) /\ agg' = Put(agg, p) /\ UNCHANGED <<sent, flushed>>
    <2>1. agg.size + Cost(p) <= MaxSize
      <3>1. agg.size \in Nat /\ MaxSize \in Nat
        BY AggregatorConfig DEF AggInv, AggTypeOK
      <3> QED
        BY <1>1, <1>4, <3>1 DEF Overflows
    <2>2. /\ agg' \in Aggregator /\ agg'.packets = Append(agg.packets, p)
          /\ agg'.packets # <<>> /\ agg'.size > 0
          /\ agg'.timer = IF agg.timer = "nil" THEN "running" ELSE agg.timer
          /\ ~ agg'.stopped
      BY <1>1, <1>4, <2>1, PutFills
    <2>3. FlushedInOrder'
      <3> DEFINE ps == agg.packets
      <3>1. ps \in Seq(Packet) /\ flushed \in Seq(Packet)
        BY DEF AggTypeOK
      <3> HIDE DEF ps
      <3>2. Append(flushed \o ps, p) = flushed \o Append(ps, p)
        BY <1>1, <3>1
      <3> QED
        BY <1>2, <1>4, <2>2, <3>2 DEF FlushedInOrder, ps
    <2>4. AggTypeOK'
      BY <1>2, <1>4, <2>2 DEF AggTypeOK, Aggregator
    <2>5. agg'.timer = "expired" => callbacks' > 0
      BY <1>2, <2>2
    <2> QED
      BY <2>2, <2>3, <2>4, <2>5 DEF Cleared, Aggregator
  <1> QED
    BY <1>3, <1>4 DEF AddPacket

(* A flush by itself: the timer's callback, or Stop.                       *)
LEMMA FlushKeeps ==
  ASSUME AggInv, SendBuffer, callbacks' \in Nat, NEW stopped \in BOOLEAN,
         agg' = [Flush(agg) EXCEPT !.stopped = stopped],
         UNCHANGED <<direct, frame, unpacked, delivered, read, added>>
  PROVE  AggInv'
  <1> USE DEF AggInv
  <1>1. /\ agg' \in Aggregator /\ agg'.packets = <<>> /\ agg'.size = 0
        /\ agg'.timer = "nil"
    BY FlushClears DEF Aggregator
  <1>2. AggTypeOK'
    BY <1>1, SendBufferKeepsTypes DEF AggTypeOK, Aggregator, Frame
  <1>3. FlushedInOrder'
    <2>1. flushed' = added
      BY DEF SendBuffer, FlushedInOrder
    <2>2. added = added \o <<>>
      BY DEF AggTypeOK
    <2> QED
      BY <1>1, <2>1, <2>2 DEF FlushedInOrder
  <1> QED
    BY <1>1, <1>2, <1>3 DEF Cleared

LEMMA AggInvStep == AggInv /\ [Next]_vars => AggInv'
  <1> SUFFICES ASSUME AggInv, [Next]_vars
               PROVE  AggInv'
    OBVIOUS
  <1>1. ASSUME NEW p \in [id : {read + 1}, size : Sizes], AddPacket(p)
        PROVE  AggInv'
    <2>1. p \in Packet
      BY DEF AggInv, AggTypeOK, Packet
    <2> QED
      BY <1>1, <2>1, AddPacketKeeps
  <1>2. ASSUME NEW p \in [id : {read + 1}, size : Sizes], RefusePacket(p)
        PROVE  AggInv'
    <2>1. p \in Packet
      BY DEF AggInv, AggTypeOK, Packet
    <2> QED
      BY <1>2, <2>1
         DEF RefusePacket, Read, AggInv, AggTypeOK, FlushedInOrder, Cleared
  <1>3. CASE SendDirect
    <2>1. direct \in Seq(Packet) /\ direct # <<>>
      BY <1>3 DEF SendDirect, AggInv, AggTypeOK
    <2>2. direct[1] \in Packet
      BY <2>1
    <2>3. direct[1].size \in Nat
      BY <2>2, PacketSize
    <2> DEFINE f == [packets |-> direct, size |-> direct[1].size,
                     framed |-> FALSE]
    <2>4. f \in Frame
      BY <2>1, <2>3 DEF Frame
    <2>5. sent \in Seq(Frame) /\ sent' = Append(sent, f)
      BY <1>3 DEF SendDirect, AggInv, AggTypeOK, Frame
    <2> HIDE DEF f
    <2>6. sent' \in Seq(Frame)
      BY <2>4, <2>5
    <2> QED
      BY <1>3, <2>6
         DEF SendDirect, AggInv, AggTypeOK, FlushedInOrder, Cleared, Frame
  <1>4. CASE TimerFires
    <2>1. agg \in Aggregator
      BY DEF AggInv, AggTypeOK, Aggregator
    <2>2. /\ agg' \in Aggregator /\ agg'.packets = agg.packets
          /\ agg'.size = agg.size /\ agg'.stopped = agg.stopped
          /\ agg'.timer = "expired" /\ agg.timer = "running"
      BY <1>4, <2>1 DEF TimerFires, Aggregator
    <2>3. callbacks' \in Nat /\ callbacks' > 0
      BY <1>4 DEF TimerFires, AggInv, AggTypeOK
    <2>4. AggTypeOK'
      BY <1>4, <2>2, <2>3 DEF TimerFires, AggInv, AggTypeOK, Aggregator
    <2> QED
      BY <1>4, <2>2, <2>3, <2>4 DEF TimerFires, AggInv, FlushedInOrder, Cleared
  <1>5. CASE TimerCallback
    <2>1. callbacks' \in Nat
      BY <1>5 DEF TimerCallback, AggInv, AggTypeOK
    <2>2. CASE agg.stopped /\ UNCHANGED <<agg, sent, flushed>>
      <3>1. agg.timer # "expired"
        BY <2>2 DEF AggInv, Cleared
      <3> QED
        BY <1>5, <2>1, <2>2, <3>1
           DEF TimerCallback, AggInv, AggTypeOK, FlushedInOrder, Cleared
    <2>3. CASE ~ agg.stopped /\ agg' = Flush(agg) /\ SendBuffer
      <3>1. Flush(agg) = [Flush(agg) EXCEPT !.stopped = FALSE]
        BY <2>3, FlushClears DEF AggInv, Aggregator
      <3> QED
        BY <1>5, <2>1, <2>3, <3>1, FlushKeeps DEF TimerCallback
    <2> QED
      BY <1>5, <2>2, <2>3 DEF TimerCallback
  <1>6. CASE Stop
    BY <1>6, FlushKeeps DEF Stop, AggInv, AggTypeOK
  <1>7. CASE WritePacket
    <2> DEFINE ps == Understood(sent[frame])
    <2>1. sent \in Seq(Frame) /\ frame \in 1 .. Len(sent)
      BY <1>7 DEF WritePacket, AggInv, AggTypeOK, Frame
    <2>2. sent[frame] \in Frame
      BY <2>1
    <2>3. ps \in Seq(Packet)
      BY <2>2 DEF Understood, Frame
    <2>4. unpacked + 1 \in 1 .. Len(ps)
      BY <1>7, <2>3 DEF WritePacket, AggInv, AggTypeOK
    <2>5. ps[unpacked + 1] \in Packet
      BY <2>3, <2>4
    <2>6. delivered' \in Seq(Packet)
      BY <1>7, <2>5 DEF WritePacket, AggInv, AggTypeOK
    <2> QED
      BY <1>7, <2>6
         DEF WritePacket, AggInv, AggTypeOK, FlushedInOrder, Cleared
  <1>8. CASE LeaveFrame
    BY <1>8 DEF LeaveFrame, AggInv, AggTypeOK, FlushedInOrder, Cleared
  <1>9. CASE UNCHANGED vars
    BY <1>9 DEF vars, AggInv, AggTypeOK, FlushedInOrder, Cleared
  <1> QED
    BY <1>1, <1>2, <1>3, <1>4, <1>5, <1>6, <1>7, <1>8, <1>9 DEF Next

(* The invariant holds in every state.                                     *)
LEMMA AggInvariant == SafeSpec => []AggInv
  <1>1. Init => AggInv
    BY AggInvInit
  <1>2. AggInv /\ [Next]_vars => AggInv'
    BY AggInvStep
  <1> QED
    BY <1>1, <1>2, PTL DEF SafeSpec

(* The variables keep their types and the buffer never outgrows a frame.   *)
THEOREM BufferFits == Spec => []AggTypeOK
  <1>1. AggInv => AggTypeOK
    BY DEF AggInv
  <1> QED
    BY <1>1, AggInvariant, PTL DEF Spec

(* Every packet Add accepted was flushed, once and in order, or is in the  *)
(* buffer.                                                                 *)
THEOREM NothingLostOrOvertaken == Spec => []FlushedInOrder
  <1>1. AggInv => FlushedInOrder
    BY DEF AggInv
  <1> QED
    BY <1>1, AggInvariant, PTL DEF Spec

(* A buffer that holds something has a timer, or a callback to come.       *)
THEOREM WaitingHasTimer == Spec => []TimerCovers
  <1>1. AggInv => TimerCovers
    BY DEF AggInv, AggTypeOK, Cleared, TimerCovers
  <1> QED
    BY <1>1, AggInvariant, PTL DEF Spec

-----------------------------------------------------------------------------
(***************************************************************************)
(* The packets the reading peer is written are those the other peer wrote, *)
(* in order and once: PacketAggregator implements OrderedDelivery.  A      *)
(* packet sent past the aggregator overtakes those in the buffer, so the   *)
(* reader must not understand it (a framed stream), or there must be none  *)
(* but the packets refused after Stop, when the buffer is empty.           *)
(***************************************************************************)
NothingOvertakes == Framed \/ \A s \in Sizes : s <= MaxSize

(* The packets the i-th of the frames S carries for the reader, those of   *)
(* all of them below n, and all of them in the order of reading.           *)
Written(S, i) == Understood(S[i])

SentBelow(S, n) ==
  \A i \in 1 .. Len(S) : \A j \in 1 .. Len(Written(S, i)) :
    Written(S, i)[j].id > 0 /\ Written(S, i)[j].id < n

SentInOrder(S) ==
  /\ \A i \in 1 .. Len(S) : \A j, l \in 1 .. Len(Written(S, i)) :
       j < l => Written(S, i)[j].id < Written(S, i)[l].id
  /\ \A i, k \in 1 .. Len(S) :
       i < k => \A j \in 1 .. Len(Written(S, i)), l \in 1 .. Len(Written(S, k)) :
                  Written(S, i)[j].id < Written(S, k)[l].id

(* The packets ps follow those in the frames S and were read before n.     *)
Follows(ps, S, n) ==
  /\ \A j, l \in 1 .. Len(ps) : j < l => ps[j].id < ps[l].id
  /\ \A j \in 1 .. Len(ps) : ps[j].id < n /\ ps[j].id > 0 /\ SentBelow(S, ps[j].id)

(* A packet about to be sent by itself.                                    *)
DirectIsLast ==
  direct # <<>> => /\ Follows(direct, <<>>, read + 1)
                   /\ Framed \/ (agg.packets = <<>> /\ Follows(direct, sent, read + 1))

(* Everything in D was in a place of S that a reader who has written un    *)
(* packets of frame fr has passed.                                         *)
PassedBy(i, j, fr, un) == i < fr \/ (i = fr /\ j <= un)

CameFrom(D, S, fr, un) ==
  \A d \in 1 .. Len(D) :
    \E i \in 1 .. Len(S) : \E j \in 1 .. Len(Written(S, i)) :
      PassedBy(i, j, fr, un) /\ D[d] = Written(S, i)[j]

DeliveryInv ==
  /\ SentInOrder(sent)
  /\ SentBelow(sent, read + 1)
  /\ Follows(agg.packets, sent, read + 1)
  /\ DirectIsLast
  /\ CameFrom(delivered, sent, frame, unpacked)

(* A place in a frame holds a packet.                                      *)
LEMMA WrittenPackets ==
  ASSUME NEW S \in Seq(Frame), NEW i \in 1 .. Len(S)
  PROVE  /\ Written(S, i) \in Seq(Packet)
         /\ \A j \in 1 .. Len(Written(S, i)) : /\ Written(S, i)[j] \in Packet
                                               /\ Written(S, i)[j].id \in Nat
  <1>1. S[i] \in Frame
    OBVIOUS
  <1>2. Written(S, i) \in Seq(Packet)
    BY <1>1 DEF Written, Understood, Frame
  <1>3. \A j \in 1 .. Len(Written(S, i)) : Written(S, i)[j] \in Packet
    BY <1>2
  <1>4. \A p \in Packet : p.id \in Nat
    BY DEF Packet
  <1> QED
    BY <1>2, <1>3, <1>4

(* A larger bound is a bound.                                              *)
LEMMA BelowMore ==
  ASSUME NEW S \in Seq(Frame), NEW m \in Nat, NEW n \in Nat, m <= n, SentBelow(S, m)
  PROVE  SentBelow(S, n)
  <1>1. ASSUME NEW i \in 1 .. Len(S), NEW j \in 1 .. Len(Written(S, i))
        PROVE  Written(S, i)[j].id < n
    <2>1. Written(S, i)[j].id \in Nat
      BY WrittenPackets
    <2>2. Written(S, i)[j].id < m
      BY DEF SentBelow
    <2> QED
      BY <2>1, <2>2
  <1> QED
    BY <1>1 DEF SentBelow

LEMMA FollowsMore ==
  ASSUME NEW ps \in Seq(Packet), NEW S, NEW m \in Nat, NEW n \in Nat, m <= n,
         Follows(ps, S, m)
  PROVE  Follows(ps, S, n)
  <1>1. \A j \in 1 .. Len(ps) : ps[j] \in Packet
    OBVIOUS
  <1>2. \A j \in 1 .. Len(ps) : ps[j].id \in Nat
    BY <1>1 DEF Packet
  <1> QED
    BY <1>2 DEF Follows

(* Sending a frame of packets that follow those sent so far.               *)
LEMMA FrameSent ==
  ASSUME NEW S \in Seq(Frame), NEW f \in Frame, SentInOrder(S),
         NEW T, T = Append(S, f),
         NEW n \in Nat, SentBelow(S, n), Follows(Understood(f), S, n)
  PROVE  /\ SentInOrder(T) /\ SentBelow(T, n)
         /\ \A i \in 1 .. Len(S) : i \in 1 .. Len(T) /\ Written(T, i) = Written(S, i)
  <1> DEFINE ps == Understood(f)
             m == Len(S) + 1
  <1>1. /\ Len(S) \in Nat /\ Len(T) = m
        /\ \A i \in 1 .. Len(S) : T[i] = S[i]
        /\ T[m] = f
    OBVIOUS
  <1>2. /\ \A i \in 1 .. Len(S) : Written(T, i) = Written(S, i)
        /\ Written(T, m) = ps
    BY <1>1 DEF Written
  <1>3. /\ \A i \in 1 .. Len(T) : i \in 1 .. Len(S) \/ i = m
        /\ \A i \in 1 .. Len(S) : i < m /\ i \in 1 .. Len(T)
    BY <1>1
  <1> HIDE DEF ps, m
  <1>4. SentBelow(T, n)
    BY <1>2, <1>3 DEF SentBelow, Follows, ps
  <1>5. ASSUME NEW i \in 1 .. Len(T),
               NEW j \in 1 .. Len(Written(T, i)), NEW l \in 1 .. Len(Written(T, i)), j < l
        PROVE  Written(T, i)[j].id < Written(T, i)[l].id
    <2>1. CASE i \in 1 .. Len(S)
      BY <1>2, <1>5, <2>1 DEF SentInOrder
    <2>2. CASE i = m
      BY <1>2, <1>5, <2>2 DEF Follows, ps
    <2> QED
      BY <1>3, <2>1, <2>2
  <1>6. ASSUME NEW i \in 1 .. Len(T), NEW k \in 1 .. Len(T), i < k,
               NEW j \in 1 .. Len(Written(T, i)), NEW l \in 1 .. Len(Written(T, k))
        PROVE  Written(T, i)[j].id < Written(T, k)[l].id
    <2>1. i \in 1 .. Len(S)
      BY <1>1, <1>3, <1>6 DEF m
    <2>2. CASE k \in 1 .. Len(S)
      BY <1>2, <1>6, <2>1, <2>2 DEF SentInOrder
    <2>3. CASE k = m
      <3>1. l \in 1 .. Len(ps) /\ Written(T, k)[l] = ps[l]
        BY <1>2, <2>3
      <3>2. SentBelow(S, ps[l].id)
        BY <3>1 DEF Follows, ps
      <3>3. Written(S, i)[j].id < ps[l].id
        BY <1>2, <2>1, <3>2 DEF SentBelow
      <3> QED
        BY <1>2, <2>1, <3>1, <3>3
    <2> QED
      BY <1>3, <2>2, <2>3
  <1> QED
    BY <1>2, <1>3, <1>4, <1>5, <1>6 DEF SentInOrder

(* A frame the reader makes nothing of is no obstacle.                     *)
LEMMA UnreadSent ==
  ASSUME NEW S \in Seq(Frame), NEW f \in Frame, Understood(f) = <<>>,
         NEW T, T = Append(S, f), NEW ps, NEW n, Follows(ps, S, n)
  PROVE  Follows(ps, T, n)
  <1>1. /\ Len(S) \in Nat /\ Len(T) = Len(S) + 1
        /\ \A i \in 1 .. Len(S) : T[i] = S[i]
        /\ T[Len(S) + 1] = f
    OBVIOUS
  <1>2. \A i \in 1 .. Len(T) : \/ i \in 1 .. Len(S) /\ Written(T, i) = Written(S, i)
                              \/ Written(T, i) = <<>>
    BY <1>1 DEF Written
  <1>3. \A m : SentBelow(S, m) => SentBelow(T, m)
    BY <1>2 DEF SentBelow
  <1> QED
    BY <1>3 DEF Follows

LEMMA DeliveryFacts ==
  ASSUME AggInv, DeliveryInv
  PROVE  /\ sent \in Seq(Frame) /\ read \in Nat
         /\ agg.packets \in Seq(Packet) /\ direct \in Seq(Packet)
         /\ frame \in Nat \ {0} /\ unpacked \in Nat /\ delivered \in Seq(Packet)
         /\ SentInOrder(sent) /\ SentBelow(sent, read + 1)
         /\ Follows(agg.packets, sent, read + 1)
         /\ DirectIsLast /\ CameFrom(delivered, sent, frame, unpacked)
  BY DEF AggInv, AggTypeOK, DeliveryInv, Frame

(* sendToTX: the reader's place is as far from what is sent as before.     *)
LEMMA SendKeepsOrder ==
  ASSUME AggInv, DeliveryInv, NEW f \in Frame,
         sent' = Append(sent, f), Follows(Understood(f), sent, read + 1),
         UNCHANGED <<frame, unpacked, delivered>>
  PROVE  SentInOrder(sent') /\ SentBelow(sent', read + 1) /\ CameFrom(delivered', sent', frame', unpacked')
  <1>1. /\ SentInOrder(sent') /\ SentBelow(sent', read + 1)
        /\ \A i \in 1 .. Len(sent) : /\ i \in 1 .. Len(sent')
                                     /\ Written(sent', i) = Written(sent, i)
    <2>1. /\ sent \in Seq(Frame) /\ SentInOrder(sent) /\ SentBelow(sent, read + 1)
          /\ read + 1 \in Nat
      BY DeliveryFacts
    <2> QED
      BY <2>1, FrameSent
  <1>2. CameFrom(delivered', sent', frame', unpacked')
    <2>1. CameFrom(delivered, sent, frame, unpacked)
      BY DeliveryFacts
    <2>2. CameFrom(delivered, sent', frame, unpacked)
      BY <1>1, <2>1 DEF CameFrom
    <2> QED
      BY <2>2
  <1> QED
    BY <1>1, <1>2

(* flushLocked.                                                            *)
LEMMA SendBufferKeepsOrder ==
  ASSUME AggInv, DeliveryInv, SendBuffer, UNCHANGED <<frame, unpacked, delivered>>
  PROVE  /\ SentInOrder(sent') /\ SentBelow(sent', read + 1) /\ CameFrom(delivered', sent', frame', unpacked')
         /\ agg.packets = <<>> => sent' = sent
  <1>1. CASE agg.size = 0
    <2>1. sent' = sent
      BY <1>1 DEF SendBuffer
    <2>2. CameFrom(delivered', sent', frame', unpacked')
      BY <2>1, DeliveryFacts 
    <2> QED
      BY <2>1, <2>2, DeliveryFacts
  <1>2. CASE agg.size # 0
    <2> DEFINE f == [packets |-> agg.packets, size |-> agg.size, framed |-> Framed]
    <2>1. agg.size \in Nat /\ Framed \in BOOLEAN /\ agg.packets # <<>>
      BY <1>2, AggregatorConfig DEF AggInv, AggTypeOK, Cleared
    <2>2. f \in Frame /\ Understood(f) = agg.packets
      BY <2>1, DeliveryFacts DEF Frame, Understood
    <2>3. sent' = Append(sent, f)
      BY <1>2 DEF SendBuffer
    <2> HIDE DEF f
    <2> QED
      BY <2>1, <2>2, <2>3, DeliveryFacts, SendKeepsOrder
  <1> QED
    BY <1>1, <1>2

LEMMA EmptyFollows ==
  ASSUME NEW S, NEW n
  PROVE  Follows(<<>>, S, n)
  BY DEF Follows

(* The packet just read follows everything.                                *)
LEMMA NewestFollows ==
  ASSUME NEW ps \in Seq(Packet), NEW S \in Seq(Frame), NEW n \in Nat \ {0},
         Follows(ps, S, n), SentBelow(S, n),
         NEW p \in Packet, p.id = n
  PROVE  Follows(Append(ps, p), S, n + 1)
  <1> DEFINE qs == Append(ps, p)
             m  == Len(ps) + 1
  <1>1. /\ Len(ps) \in Nat /\ Len(qs) = m
        /\ \A j \in 1 .. Len(ps) : qs[j] = ps[j] /\ ps[j] \in Packet
        /\ qs[m] = p
    OBVIOUS
  <1>2. /\ \A j \in 1 .. Len(qs) : j \in 1 .. Len(ps) \/ j = m
        /\ \A j \in 1 .. Len(ps) : j < m
    BY <1>1
  <1> HIDE DEF qs, m
  <1>3. \A j \in 1 .. Len(ps) : ps[j].id \in Nat
    BY <1>1 DEF Packet
  <1>4. ASSUME NEW j \in 1 .. Len(qs)
        PROVE  qs[j].id < n + 1 /\ qs[j].id > 0 /\ SentBelow(S, qs[j].id)
    BY <1>1, <1>2, <1>3 DEF Follows
  <1>5. ASSUME NEW j \in 1 .. Len(qs), NEW l \in 1 .. Len(qs), j < l
        PROVE  qs[j].id < qs[l].id
    <2>1. j \in 1 .. Len(ps)
      BY <1>1, <1>2, <1>5 DEF m
    <2>2. CASE l \in 1 .. Len(ps)
      BY <1>1, <1>5, <2>1, <2>2 DEF Follows
    <2>3. CASE l = m
      BY <1>1, <2>1, <2>3 DEF Follows
    <2> QED
      BY <1>2, <2>2, <2>3
  <1> QED
    BY <1>4, <1>5 DEF Follows, qs

LEMMA DeliveryInit == Init => DeliveryInv
  BY DEF Init, DeliveryInv, SentInOrder, SentBelow, Follows, DirectIsLast,
         CameFrom

LEMMA DeliveryAddPacket ==
  ASSUME AggInv, DeliveryInv, NEW p \in Packet, AddPacket(p)
  PROVE  DeliveryInv'
  <1>1. /\ read' = read + 1 /\ p.id = read + 1 /\ direct = <<>> /\ direct' = direct
        /\ UNCHANGED <<frame, unpacked, delivered>>
        /\ agg \in Aggregator
    BY DEF AddPacket, Read, AggInv, AggTypeOK, Aggregator
  <1>2. read \in Nat /\ read + 1 \in Nat \ {0} /\ sent \in Seq(Frame) /\ sent' \in Seq(Frame)
        /\ (read + 1) + 1 = read + 2
    <2>1. AggInv'
      BY AddPacketKeeps
    <2>2. sent' \in Seq(Frame)
      BY <2>1 DEF AggInv, AggTypeOK, Frame
    <2>3. read \in Nat /\ sent \in Seq(Frame)
      BY DeliveryFacts
    <2> QED
      BY <2>2, <2>3
  <1>3. DirectIsLast'
    BY <1>1 DEF DirectIsLast
  <1>4. CASE Overflows(p) /\ agg' = Put(Flush(agg), p) /\ SendBuffer
    <2>1. SentInOrder(sent') /\ SentBelow(sent', read + 1) /\ CameFrom(delivered', sent', frame', unpacked')
      BY <1>1, <1>4, SendBufferKeepsOrder
    <2>2. agg'.packets = Append(<<>>, p)
      BY <1>4, FlushClears DEF Put, AggInv, Aggregator
    <2>3. Follows(agg'.packets, sent', read + 2)
      <3>1. <<>> \in Seq(Packet) /\ Follows(<<>>, sent', read + 1)
        BY EmptyFollows
      <3> QED
        BY <1>1, <1>2, <2>1, <2>2, <3>1, NewestFollows
    <2>4. SentBelow(sent', read + 2)
      BY <1>2, <2>1, BelowMore
    <2> QED
      BY <1>1, <1>2, <1>3, <2>1, <2>3, <2>4 DEF DeliveryInv
  <1>5. CASE ~ Overflows(p) /\ agg' = Put(agg, p) /\ UNCHANGED <<sent, flushed>>
    <2>1. CameFrom(delivered', sent', frame', unpacked')
      BY <1>1, <1>5, DeliveryFacts 
    <2>2. agg'.packets = Append(agg.packets, p)
      BY <1>1, <1>5 DEF Put, Aggregator
    <2>3. Follows(agg'.packets, sent', read + 2)
      <3>1. /\ agg.packets \in Seq(Packet) /\ Follows(agg.packets, sent, read + 1)
            /\ SentBelow(sent, read + 1)
        BY DeliveryFacts
      <3> QED
        BY <1>1, <1>2, <1>5, <2>2, <3>1, NewestFollows
    <2>4. SentBelow(sent', read + 2)
      BY <1>2, <1>5, DeliveryFacts, BelowMore
    <2> QED
      BY <1>1, <1>2, <1>3, <1>5, <2>1, <2>3, <2>4, DeliveryFacts DEF DeliveryInv
  <1> QED
    BY <1>4, <1>5 DEF AddPacket

LEMMA DeliveryRefusePacket ==
  ASSUME NothingOvertakes, AggInv, DeliveryInv, NEW p \in Packet, RefusePacket(p)
  PROVE  DeliveryInv'
  <1>1. /\ read' = read + 1 /\ p.id = read + 1 /\ direct' = <<p>>
        /\ UNCHANGED <<agg, sent, frame, unpacked, delivered>>
        /\ read \in Nat
    BY DeliveryFacts DEF RefusePacket, Read
  <1>2. SentBelow(sent, read + 2) /\ Follows(agg.packets, sent, read + 2)
    BY DeliveryFacts, BelowMore, FollowsMore
  <1>3. Follows(<<p>>, sent, read + 2) /\ Follows(<<p>>, <<>>, read + 2)
    BY <1>1, DeliveryFacts DEF Follows, SentBelow
  <1>4. Framed \/ agg.packets = <<>>
    <2> SUFFICES ASSUME ~Framed PROVE agg.packets = <<>>
      OBVIOUS
    <2>1. Cost(p) <= MaxSize
      BY DEF NothingOvertakes, Cost, Packet
    <2>2. agg.stopped
      <3>1. Cost(p) \in Nat /\ MaxSize \in Nat
        BY CostPositive, AggregatorConfig
      <3> QED
        BY <2>1, <3>1 DEF RefusePacket
    <2> QED
      BY <2>2 DEF AggInv, Cleared
  <1>5. DirectIsLast'
    BY <1>1, <1>3, <1>4 DEF DirectIsLast
  <1>6. CameFrom(delivered', sent', frame', unpacked')
    BY <1>1, DeliveryFacts 
  <1> QED
    BY <1>1, <1>2, <1>5, <1>6, DeliveryFacts DEF DeliveryInv

(* "Packet too large for aggregation, send directly".                      *)
LEMMA DeliverySendDirect ==
  ASSUME AggInv, DeliveryInv, SendDirect
  PROVE  DeliveryInv'
  <1> DEFINE f == [packets |-> direct, size |-> direct[1].size, framed |-> FALSE]
  <1>1. /\ direct # <<>> /\ direct' = <<>> /\ sent' = Append(sent, f)
        /\ UNCHANGED <<agg, frame, unpacked, delivered, read>>
    BY DEF SendDirect
  <1>2. f \in Frame
    <2>1. direct \in Seq(Packet) /\ Len(direct) \in Nat /\ Len(direct) # 0
      BY <1>1, DeliveryFacts
    <2>2. direct[1] \in Packet
      BY <2>1
    <2>3. direct[1].size \in Nat
      BY <2>2, PacketSize
    <2> QED
      BY <2>1, <2>3 DEF Frame
  <1>3. CASE Framed
    <2>1. Understood(f) = <<>>
      BY <1>3 DEF Understood
    <2>2. Follows(Understood(f), sent, read + 1)
      BY <2>1, EmptyFollows
    <2>3. /\ SentInOrder(sent') /\ SentBelow(sent', read + 1)
          /\ CameFrom(delivered', sent', frame', unpacked')
      BY <1>1, <1>2, <2>2, SendKeepsOrder
    <2>4. Follows(agg.packets, sent', read + 1)
      BY <1>1, <1>2, <2>1, DeliveryFacts, UnreadSent
    <2>5. DirectIsLast'
      BY <1>1 DEF DirectIsLast
    <2> QED
      BY <1>1, <2>3, <2>4, <2>5 DEF DeliveryInv
  <1>4. CASE ~ Framed
    <2>1. Understood(f) = direct
      BY <1>4, AggregatorConfig DEF Understood
    <2>2. agg.packets = <<>> /\ Follows(direct, sent, read + 1)
      BY <1>1, <1>4, DeliveryFacts DEF DirectIsLast
    <2>3. /\ SentInOrder(sent') /\ SentBelow(sent', read + 1)
          /\ CameFrom(delivered', sent', frame', unpacked')
      BY <1>1, <1>2, <2>1, <2>2, SendKeepsOrder
    <2>4. Follows(agg'.packets, sent', read + 1)
      BY <1>1, <2>2, EmptyFollows
    <2>5. DirectIsLast'
      BY <1>1 DEF DirectIsLast
    <2> QED
      BY <1>1, <2>3, <2>4, <2>5 DEF DeliveryInv
  <1> QED
    BY <1>3, <1>4

(* flushLocked, by the timer's callback or by Stop.                        *)
LEMMA DeliveryFlush ==
  ASSUME AggInv, DeliveryInv, SendBuffer, agg'.packets = <<>>,
         UNCHANGED <<direct, frame, unpacked, delivered, read>>
  PROVE  DeliveryInv'
  <1>1. /\ SentInOrder(sent') /\ SentBelow(sent', read + 1)
        /\ CameFrom(delivered', sent', frame', unpacked')
        /\ agg.packets = <<>> => sent' = sent
    BY SendBufferKeepsOrder
  <1>2. Follows(agg'.packets, sent', read + 1)
    BY EmptyFollows
  <1>3. DirectIsLast'
    BY <1>1, DeliveryFacts DEF DirectIsLast
  <1> QED
    BY <1>1, <1>2, <1>3 DEF DeliveryInv

(* The reader writes the next packet of the frame.                         *)
LEMMA DeliveryWritePacket ==
  ASSUME AggInv, DeliveryInv, WritePacket
  PROVE  DeliveryInv'
  <1>1. /\ UNCHANGED <<agg, direct, sent, frame, read>>
        /\ unpacked' = unpacked + 1 /\ unpacked \in Nat /\ frame \in Nat \ {0}
        /\ frame \in 1 .. Len(sent) /\ sent \in Seq(Frame)
        /\ unpacked < Len(Written(sent, frame))
        /\ delivered' = Append(delivered, Written(sent, frame)[unpacked + 1])
        /\ delivered \in Seq(Packet)
    BY DeliveryFacts DEF WritePacket, Written
  <1>2. CameFrom(delivered', sent', frame', unpacked')
    <2> SUFFICES ASSUME NEW d \in 1 .. Len(delivered')
                 PROVE  \E i \in 1 .. Len(sent) : \E j \in 1 .. Len(Written(sent, i)) :
                          /\ PassedBy(i, j, frame, unpacked + 1)
                          /\ delivered'[d] = Written(sent, i)[j]
      BY <1>1 DEF CameFrom
    <2>1. CASE d \in 1 .. Len(delivered)
      <3>1. delivered'[d] = delivered[d]
        BY <1>1, <2>1
      <3>2. PICK i \in 1 .. Len(sent) : \E j \in 1 .. Len(Written(sent, i)) :
              PassedBy(i, j, frame, unpacked) /\ delivered[d] = Written(sent, i)[j]
        BY <2>1, DeliveryFacts DEF CameFrom
      <3>3. PICK j \in 1 .. Len(Written(sent, i)) :
              PassedBy(i, j, frame, unpacked) /\ delivered[d] = Written(sent, i)[j]
        BY <3>2
      <3>4. Written(sent, i) \in Seq(Packet)
        BY <1>1, WrittenPackets
      <3>5. j \in Nat
        BY <3>4
      <3>6. PassedBy(i, j, frame, unpacked + 1)
        BY <1>1, <3>3, <3>5 DEF PassedBy
      <3> QED
        BY <3>1, <3>6, <3>3
    <2>2. CASE d \notin 1 .. Len(delivered)
      <3>1. delivered'[d] = Written(sent, frame)[unpacked + 1]
        BY <1>1, <2>2
      <3>2. Written(sent, frame) \in Seq(Packet)
        BY <1>1, WrittenPackets
      <3>3. unpacked + 1 \in 1 .. Len(Written(sent, frame))
        BY <1>1, <3>2
      <3>4. PassedBy(frame, unpacked + 1, frame, unpacked + 1)
        BY <1>1 DEF PassedBy
      <3> QED
        BY <1>1, <3>1, <3>3, <3>4
    <2> QED
      BY <2>1, <2>2
  <1>3. DirectIsLast'
    BY <1>1, DeliveryFacts DEF DirectIsLast
  <1> QED
    BY <1>1, <1>2, <1>3, DeliveryFacts DEF DeliveryInv

(* and leaves it.                                                          *)
LEMMA DeliveryLeaveFrame ==
  ASSUME AggInv, DeliveryInv, LeaveFrame
  PROVE  DeliveryInv'
  <1>1. /\ UNCHANGED <<agg, direct, sent, read, delivered>>
        /\ frame' = frame + 1 /\ frame \in Nat
    BY DeliveryFacts DEF LeaveFrame
  <1>2. CameFrom(delivered', sent', frame', unpacked')
    <2>1. \A i \in 1 .. Len(sent) : \A j : 
           PassedBy(i, j, frame, unpacked) => PassedBy(i, j, frame + 1, unpacked')
      <3>1. \A i \in 1 .. Len(sent) : i \in Nat
        BY DeliveryFacts
      <3> QED
        BY <1>1, <3>1 DEF PassedBy
    <2> QED
      BY <1>1, <2>1, DeliveryFacts DEF CameFrom
  <1>3. DirectIsLast'
    BY <1>1, DeliveryFacts DEF DirectIsLast
  <1> QED
    BY <1>1, <1>2, <1>3, DeliveryFacts DEF DeliveryInv

(* What the invariant does not mention.                                    *)
LEMMA DeliveryUntouched ==
  ASSUME DeliveryInv, agg'.packets = agg.packets,
         UNCHANGED <<direct, sent, frame, unpacked, delivered, read>>
  PROVE  DeliveryInv'
  BY DEF DeliveryInv, DirectIsLast

LEMMA DeliveryStep ==
  ASSUME NothingOvertakes, AggInv, DeliveryInv, [Next]_vars
  PROVE  DeliveryInv'
  <1>1. ASSUME NEW p \in [id : {read + 1}, size : Sizes], AddPacket(p) \/ RefusePacket(p)
        PROVE  DeliveryInv'
    <2>1. p \in Packet
      BY DeliveryFacts DEF Packet
    <2> QED
      BY <1>1, <2>1, DeliveryAddPacket, DeliveryRefusePacket
  <1>2. CASE SendDirect
    BY <1>2, DeliverySendDirect
  <1>3. CASE TimerFires
    <2>1. /\ agg'.packets = agg.packets
          /\ UNCHANGED <<direct, sent, frame, unpacked, delivered, read>>
      BY <1>3 DEF TimerFires, AggInv, AggTypeOK
    <2> QED
      BY <2>1, DeliveryUntouched
  <1>4. CASE TimerCallback
    <2>1. UNCHANGED <<direct, frame, unpacked, delivered, read>>
      BY <1>4 DEF TimerCallback
    <2>2. CASE UNCHANGED <<agg, sent, flushed>>
      BY <2>1, <2>2, DeliveryUntouched
    <2>3. CASE agg' = Flush(agg) /\ SendBuffer
      <3>1. agg'.packets = <<>>
        BY <2>3, FlushClears DEF AggInv
      <3> QED
        BY <2>1, <2>3, <3>1, DeliveryFlush
    <2> QED
      BY <1>4, <2>2, <2>3 DEF TimerCallback
  <1>5. CASE Stop
    <2>1. /\ UNCHANGED <<direct, frame, unpacked, delivered, read>>
          /\ SendBuffer /\ agg' = [Flush(agg) EXCEPT !.stopped = TRUE]
      BY <1>5 DEF Stop
    <2>2. agg'.packets = <<>>
      BY <2>1, FlushClears DEF AggInv, Aggregator
    <2> QED
      BY <2>1, <2>2, DeliveryFlush
  <1>6. CASE WritePacket
    BY <1>6, DeliveryWritePacket
  <1>7. CASE LeaveFrame
    BY <1>7, DeliveryLeaveFrame
  <1>8. CASE UNCHANGED vars
    BY <1>8, DeliveryUntouched DEF vars
  <1> QED
    BY <1>1, <1>2, <1>3, <1>4, <1>5, <1>6, <1>7, <1>8 DEF Next

-----------------------------------------------------------------------------
(* The refinement mapping's log.                                           *)
LogOf(D) == [i \in 1 .. Len(D) |-> [era |-> 0, pkt |-> D[i].id]]

(* Reading a packet is Offer, ...                                          *)
LEMMA ReadOffers ==
  ASSUME NEW p, Read(p), UNCHANGED delivered
  PROVE  Stream!Offer
  BY DEF Read, Stream!Offer

(* ... writing one is Deliver: it was read, and comes after those written  *)
(* before.                                                                 *)
LEMMA WritePacketDelivers ==
  ASSUME AggInv, DeliveryInv, WritePacket
  PROVE  Stream!Deliver
  <1> DEFINE w == Written(sent, frame)[unpacked + 1]
             e == [era |-> 0, pkt |-> w.id]
             n == Len(delivered)
  <1>1. /\ read' = read /\ unpacked \in Nat /\ frame \in 1 .. Len(sent)
        /\ sent \in Seq(Frame) /\ unpacked < Len(Written(sent, frame))
        /\ delivered' = Append(delivered, w) /\ delivered \in Seq(Packet)
        /\ read \in Nat
    BY DeliveryFacts DEF WritePacket, Written
  <1>2. unpacked + 1 \in 1 .. Len(Written(sent, frame)) /\ w \in Packet /\ w.id \in Nat
    <2>1. Written(sent, frame) \in Seq(Packet)
      BY <1>1, WrittenPackets
    <2>2. unpacked + 1 \in 1 .. Len(Written(sent, frame))
      BY <1>1, <2>1
    <2>3. w \in Packet
      BY <2>1, <2>2
    <2> QED
      BY <2>2, <2>3 DEF Packet
  <1>3. w.id \in 1 .. read
    <2>1. w.id > 0 /\ w.id < read + 1
      BY <1>1, <1>2, DeliveryFacts DEF SentBelow
    <2> QED
      BY <1>1, <1>2, <2>1
  <1>4. e \in [era : 0 .. 0, pkt : 1 .. read]
    BY <1>3
  <1>5. LogOf(delivered') = Append(LogOf(delivered), e)
    <2> HIDE DEF w
    <2>1. /\ Len(delivered') = n + 1 /\ n \in Nat /\ delivered'[n + 1] = w
          /\ \A i \in 1 .. n : delivered'[i] = delivered[i]
      BY <1>1, <1>2
    <2>2. LogOf(delivered) \in Seq([era : {0}, pkt : Nat]) /\ Len(LogOf(delivered)) = n
      <3>1. \A i \in 1 .. n : delivered[i] \in Packet
        BY <1>1
      <3>2. \A i \in 1 .. n : delivered[i].id \in Nat
        BY <3>1 DEF Packet
      <3> QED
        BY <2>1, <3>2 DEF LogOf
    <2> QED
      BY <2>1, <2>2 DEF LogOf
  <1>6. ASSUME LogOf(delivered) # <<>>
        PROVE  Stream!Later(LogOf(delivered)[Len(LogOf(delivered))], e)
    <2>1. n \in Nat /\ n # 0
      BY <1>1, <1>6 DEF LogOf
    <2>2. Len(LogOf(delivered)) = n /\ LogOf(delivered)[n] = [era |-> 0, pkt |-> delivered[n].id]
      BY <2>1 DEF LogOf
    <2>3. PICK i \in 1 .. Len(sent) : \E j \in 1 .. Len(Written(sent, i)) :
            PassedBy(i, j, frame, unpacked) /\ delivered[n] = Written(sent, i)[j]
      BY <2>1, DeliveryFacts DEF CameFrom
    <2>4. PICK j \in 1 .. Len(Written(sent, i)) :
            PassedBy(i, j, frame, unpacked) /\ delivered[n] = Written(sent, i)[j]
      BY <2>3
    <2>5. delivered[n].id < w.id
      <3>1. CASE i < frame
        BY <1>1, <1>2, <2>4, <3>1, DeliveryFacts DEF SentInOrder
      <3>2. CASE i = frame /\ j <= unpacked
        <4>1. j < unpacked + 1
          BY <1>1, <1>2, <3>2
        <4> QED
          BY <1>1, <1>2, <2>4, <3>2, <4>1, DeliveryFacts DEF SentInOrder
      <3> QED
        BY <2>4, <3>1, <3>2 DEF PassedBy
    <2> QED
      BY <2>2, <2>5 DEF Stream!Later
  <1> HIDE DEF e
  <1> QED
    BY <1>1, <1>4, <1>5, <1>6 DEF Stream!Deliver, LogOf

(* Every step is one of OrderedDelivery, or leaves its variables alone.    *)
LEMMA StepMaps ==
  ASSUME AggInv, DeliveryInv, [Next]_vars
  PROVE  [Stream!Next]_Stream!vars
  <1>1. ASSUME NEW p \in [id : {read + 1}, size : Sizes], AddPacket(p) \/ RefusePacket(p)
        PROVE  Stream!Offer
    BY <1>1, ReadOffers DEF AddPacket, RefusePacket
  <1>2. CASE SendDirect \/ TimerFires \/ TimerCallback \/ Stop \/ LeaveFrame
             \/ UNCHANGED vars
    <2>1. UNCHANGED <<delivered, read>>
      BY <1>2 DEF SendDirect, TimerFires, TimerCallback, Stop, LeaveFrame, vars
    <2> QED
      BY <2>1 DEF Stream!vars
  <1>3. CASE WritePacket
    BY <1>3, WritePacketDelivers DEF Stream!Next
  <1> QED
    BY <1>1, <1>2, <1>3 DEF Next, Stream!Next

LEMMA DeliveryInvariant == NothingOvertakes => (SafeSpec => []DeliveryInv)
  <1> SUFFICES ASSUME NothingOvertakes PROVE SafeSpec => []DeliveryInv
    OBVIOUS
  <1>1. Init => DeliveryInv
    BY DeliveryInit
  <1>2. NothingOvertakes /\ AggInv /\ DeliveryInv /\ [Next]_vars => DeliveryInv'
    BY DeliveryStep
  <1> QED
    BY <1>1, <1>2, AggInvariant, PTL DEF SafeSpec

LEMMA SafelyImplements == NothingOvertakes => (SafeSpec => ImplementsOrderedDelivery)
  <1>1. Init => Stream!Init
    BY DEF Init, Stream!Init
  <1>2. AggInv /\ DeliveryInv /\ [Next]_vars => [Stream!Next]_Stream!vars
    BY StepMaps
  <1> QED
    BY <1>1, <1>2, AggInvariant, DeliveryInvariant, PTL
       DEF SafeSpec, ImplementsOrderedDelivery, Stream!Spec

(* The reading peer is written packets the other peer wrote, in order and  *)
(* none twice, whatever is flushed, lost, refused or sent past the buffer  *)
(* on the way: if the stream is framed, or no packet is too large for the  *)
(* buffer.                                                                 *)
THEOREM ImplementsStream == NothingOvertakes => (Spec => ImplementsOrderedDelivery)
  BY SafelyImplements, PTL DEF Spec
=============================================================================
