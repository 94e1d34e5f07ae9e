-------------------------- MODULE PacketAggregator --------------------------
(***************************************************************************)
(* A mavlink or tunnel stream from the peer that writes it to the peer     *)
(* that reads it: the packet aggregator with its timer                     *)
(* (src/pkg/server/util/aggregator.go), the input loop and sendPacket in   *)
(* front of it (service_stream_tx.go), and the unpacking at the other end  *)
(* (service_stream_rx.go).  What lies between, transmitter, radio and      *)
(* receiver, keeps the order of frames and may lose any (WfbLink).         *)
(***************************************************************************)
EXTENDS Naturals, Sequences

CONSTANTS
  Framed,      \* useFrames: a tunnel's packets get a length header
  HeaderSize,  \* of that header: 2 in the code
  MaxSize,     \* maxSize: Common.RadioMTU
  Sizes,       \* lengths of the packets the peer may write
  MaxReads     \* bound: packets read from the peer

ASSUME AggregatorConfig ==
  /\ Framed \in BOOLEAN
  /\ HeaderSize \in Nat
  /\ MaxSize \in Nat
  /\ Sizes \subseteq Nat \ {0}
  /\ MaxReads \in Nat

VARIABLES
  agg,        \* the aggregator: packets, size, timer, stopped
  callbacks,  \* timers that fired and whose callback still has to take a.mu
  direct,     \* a packet Add refused, about to be sent by itself
  sent,       \* what was given to sendToTX: frames [packets, size, framed]
  frame,      \* the receiver's place: the frame it unpacks
  unpacked,   \*   and how many of its packets it has written
  delivered,  \* what the reading peer was written
  read,       \* history: number of packets read from the writing peer
  added,      \* history: the packets Add accepted
  flushed     \* history: the packets that were flushed

vars == <<agg, callbacks, direct, sent, frame, unpacked, delivered, read, added,
          flushed>>

Packet == [id : Nat, size : Sizes]

(* "nil" is a.timer = nil; a timer that expired stays in a.timer until the *)
(* next flush.                                                             *)
Init ==
  /\ agg = [packets |-> <<>>, size |-> 0, timer |-> "nil", stopped |-> FALSE]
  /\ callbacks = 0 /\ direct = <<>>
  /\ sent = <<>> /\ frame = 1 /\ unpacked = 0 /\ delivered = <<>>
  /\ read = 0 /\ added = <<>> /\ flushed = <<>>

-----------------------------------------------------------------------------
(* The room a packet takes.                                                *)
Cost(p) == IF Framed THEN p.size + HeaderSize ELSE p.size

(* A slip: the packets are kept.                                           *)
FlushKeepsPackets(a) == IF a.size = 0 THEN a ELSE [a EXCEPT !.size = 0, !.timer = "nil"]

(* A slip: the timer is not reset.                                         *)
FlushKeepsTimer(a) == IF a.size = 0 THEN a ELSE [a EXCEPT !.packets = <<>>, !.size = 0]

(* flushLocked: the aggregator after it.  Stopping a timer that has        *)
(* expired does not stop its callback.                                     *)
Flush(a) ==
  IF a.size = 0 THEN a
  ELSE [a EXCEPT !.packets = <<>>, !.size = 0, !.timer = "nil"]

(* and what it sends, holding a.mu.                                        *)
SendBuffer ==
  /\ sent' = IF agg.size = 0 THEN sent
             ELSE Append(sent, [packets |-> agg.packets, size |-> agg.size,
                                framed |-> Framed])
  /\ flushed' = flushed \o agg.packets

(* A slip: the packet that overflows the buffer still goes into it.        *)
OverflowsLate(p) == agg.size >= MaxSize

Overflows(p) == agg.size + Cost(p) > MaxSize

(* A slip: the newest packet in front.                                     *)
PutInFront(a, p) ==
  [a EXCEPT !.packets = <<p>> \o @, !.size = @ + Cost(p),
            !.timer = IF @ = "nil" THEN "running" ELSE @]

(* The second half of Add: buffer the packet, start the timer if there is  *)
(* none.                                                                   *)
Put(a, p) ==
  [a EXCEPT !.packets = Append(@, p), !.size = @ + Cost(p),
            !.timer = IF @ = "nil" THEN "running" ELSE @]

-----------------------------------------------------------------------------
(* The input loop reads a packet once sendPacket has returned.             *)
Read(p) ==
  /\ direct = <<>> /\ read < MaxReads
  /\ p.id = read + 1
  /\ read' = read + 1

(* sendPacket: Add takes the packet; if need be the buffer is flushed.     *)
AddPacket(p) ==
  /\ Read(p)
  /\ ~ agg.stopped /\ Cost(p) <= MaxSize
  /\ added' = Append(added, p)
  /\ \/ /\ Overflows(p)
        /\ agg' = Put(Flush(agg), p)
        /\ SendBuffer
     \/ /\ ~ Overflows(p)
        /\ agg' = Put(agg, p)
        /\ UNCHANGED <<sent, flushed>>
  /\ UNCHANGED <<callbacks, direct, frame, unpacked, delivered>>

(* sendPacket: Add refuses it; the lock is released.                       *)
RefusePacket(p) ==
  /\ Read(p)
  /\ agg.stopped \/ Cost(p) > MaxSize
  /\ direct' = <<p>>
  /\ UNCHANGED <<agg, callbacks, sent, frame, unpacked, delivered, added, flushed>>

(* "Packet too large for aggregation, send directly": without a header.    *)
SendDirect ==
  /\ direct # <<>>
  /\ direct' = <<>>
  /\ sent' = Append(sent, [packets |-> direct, size |-> direct[1].size,
                           framed |-> FALSE])
  /\ UNCHANGED <<agg, callbacks, frame, unpacked, delivered, read, added, flushed>>

(* The runtime starts the callback in a goroutine of its own ...           *)
TimerFires ==
  /\ agg.timer = "running"
  /\ agg' = [agg EXCEPT !.timer = "expired"]
  /\ callbacks' = callbacks + 1
  /\ UNCHANGED <<direct, sent, frame, unpacked, delivered, read, added, flushed>>

(* ... which flushes whatever is in the buffer by the time it runs.        *)
TimerCallback ==
  /\ callbacks > 0
  /\ callbacks' = callbacks - 1
  /\ \/ /\ agg.stopped
        /\ UNCHANGED <<agg, sent, flushed>>
     \/ /\ ~ agg.stopped
        /\ agg' = Flush(agg)
        /\ SendBuffer
  /\ UNCHANGED <<direct, frame, unpacked, delivered, read, added>>

(* PacketAggregator.Stop, from StreamService.Stop; the input loop may      *)
(* still read a packet after it.                                           *)
Stop ==
  /\ ~ agg.stopped
  /\ agg' = [Flush(agg) EXCEPT !.stopped = TRUE]
  /\ SendBuffer
  /\ UNCHANGED <<callbacks, direct, frame, unpacked, delivered, read, added>>

-----------------------------------------------------------------------------
(* What the receiver makes of a frame.  A packet without a header on a     *)
(* stream that has them starts with the first bytes of an IP header, a     *)
(* length no frame has.                                                    *)
Understood(f) == IF f.framed = Framed THEN f.packets ELSE <<>>

(* unpackFramedPackets, or unpackMavlinkPackets, writes the next packet.   *)
WritePacket ==
  /\ frame <= Len(sent) /\ unpacked < Len(Understood(sent[frame]))
  /\ unpacked' = unpacked + 1
  /\ delivered' = Append(delivered, Understood(sent[frame])[unpacked + 1])
  /\ UNCHANGED <<agg, callbacks, direct, sent, frame, read, added, flushed>>

(* The frame is done, or lost, or writing a packet to the peer failed.     *)
LeaveFrame ==
  /\ frame <= Len(sent)
  /\ frame' = frame + 1
  /\ unpacked' = 0
  /\ UNCHANGED <<agg, callbacks, direct, sent, delivered, read, added, flushed>>

-----------------------------------------------------------------------------
Next ==
  \/ \E p \in [id : {read + 1}, size : Sizes] : AddPacket(p) \/ RefusePacket(p)
  \/ SendDirect
  \/ TimerFires
  \/ TimerCallback
  \/ Stop
  \/ WritePacket
  \/ LeaveFrame

SafeSpec == Init /\ [][Next]_vars

(* Timers fire and their callbacks get the lock.                           *)
Spec == SafeSpec /\ WF_vars(TimerFires) /\ WF_vars(TimerCallback)

-----------------------------------------------------------------------------
(***************************************************************************)
(* Properties.                                                             *)
(***************************************************************************)
(* Types, and that the buffer fits a radio packet.                         *)
AggTypeOK ==
  /\ agg \in [packets : Seq(Packet), size : 0 .. MaxSize,
              timer : {"nil", "running", "expired"}, stopped : BOOLEAN]
  /\ callbacks \in Nat /\ direct \in Seq(Packet) /\ Len(direct) <= 1
  /\ sent \in Seq([packets : Seq(Packet), size : Nat, framed : BOOLEAN])
  /\ frame \in Nat \ {0} /\ unpacked \in Nat
  /\ delivered \in Seq(Packet) /\ read \in Nat
  /\ added \in Seq(Packet) /\ flushed \in Seq(Packet)

(* Every packet Add accepted was flushed or is in the buffer, in the order *)
(* of arrival, once: whichever of a full buffer, a timer, a callback that  *)
(* comes late and Stop flushes it.                                         *)
FlushedInOrder == added = flushed \o agg.packets

(* A buffer that holds something has a timer that will fire or a callback  *)
(* that waits for the lock; nothing waits for the next packet.             *)
TimerCovers == agg.size > 0 => agg.timer = "running" \/ callbacks > 0

(* What is in the buffer is sent, also if nothing follows it.              *)
BufferedIsSent ==
  \A n \in 1 .. MaxReads :
    (\E i \in 1 .. Len(agg.packets) : agg.packets[i].id = n)
      ~> (\E i \in 1 .. Len(flushed) : flushed[i].id = n)

(* The reading peer is written packets the other peer wrote, in order and  *)
(* once, although some are sent past the aggregator.                       *)
Stream == INSTANCE OrderedDelivery WITH
  offered  <- read,
  restarts <- 0,
  log      <- [i \in 1 .. Len(delivered) |-> [era |-> 0, pkt |-> delivered[i].id]]

ImplementsOrderedDelivery == Stream!Spec
=============================================================================
