--------------------------- MODULE WfbStreamProofs ---------------------------
(***************************************************************************)
(* Proofs about WfbStream: the keepalive loop's counters, the antenna, the *)
(* TCP clients and the packets, for any number of wlans and clients, and   *)
(* any traffic.                                                            *)
(***************************************************************************)
EXTENDS WfbStream, PacketAggregatorProofs, TLAPS

Loop == {"wait", "loaded", "mirror", "broadcast", "restore", "decrement", "done"}
Conn == {"outside", "accepted", "served", "closed", "ended"}

(* Between the loading of the counters and their decrement.                *)
Busy == keepalive.pc \in {"loaded", "mirror", "broadcast", "restore", "decrement"}

LoopTypes ==
  /\ keepalive \in [pc : Loop, in : 0 .. 2, out : 0 .. 1, wlan : Wlans \union {All}]
  /\ sem \in [in : 0 .. 2, out : 0 .. 1]
  /\ age \in [rx : 0 .. 3, tx : 0 .. 3, load : 0 .. 3]
  /\ open \in BOOLEAN
  /\ wlan \in Wlans \union {All}

(* What was loaded is still there to be decremented: packets only set the  *)
(* counters higher.                                                        *)
Decrementable == Busy => keepalive.in <= sem.in /\ keepalive.out <= sem.out

(* A counter that is set, and is not about to be decremented, is set by a  *)
(* packet of this interval; ...                                            *)
SentLately ==
  open =>
    /\ ~Busy /\ sem.out > 0 => age.tx = 0
    /\ Busy /\ sem.out > 0 /\ keepalive.out = 0 => age.tx = 0
    /\ keepalive.pc = "loaded" /\ keepalive.out > 0 => age.tx <= 1
    /\ keepalive.pc = "restore" => age.tx = 0

(* ... the one of received packets counts two intervals, or the rest of    *)
(* one and the next.                                                       *)
HeardLately ==
  /\ ~Busy => /\ sem.in = 0 => age.rx >= 1
              /\ sem.in > 0 => sem.in + age.rx <= 2
  /\ Busy => /\ sem.in = 0 => age.rx >= 1
             /\ sem.in = 1 /\ keepalive.in > 0 => age.rx >= 1
             /\ sem.in > 0 /\ keepalive.in = 0 => sem.in + age.rx <= 2
             /\ sem.in > 0 /\ keepalive.in > 0 => sem.in + age.rx <= 3
  /\ keepalive.pc = "loaded" /\ keepalive.in = 0 => age.load >= 2

LoopInv ==
  /\ LoopTypes /\ Decrementable /\ SentLately /\ HeardLately
  /\ NeverSilent /\ BroadcastWhenDeaf

-----------------------------------------------------------------------------
(* The injector, as long as it is open, reaches a wlan.                    *)
LEMMA Reaches == open /\ wlan \in Wlans \union {All} => Reached # {}
  BY StreamAssumption DEF Reached

LEMMA InitLoop == StreamInit => LoopInv
  <1> SUFFICES ASSUME StreamInit PROVE LoopInv
    OBVIOUS
  <1>1. /\ keepalive = [pc |-> IF left.ticks > 0 THEN "wait" ELSE "done", in |-> 0, out |-> 0, wlan |-> 0]
        /\ sem = [in |-> 0, out |-> 0] /\ open = TRUE
        /\ wlan = (IF left.mirror THEN All ELSE 0)
        /\ age = [rx |-> 3, tx |-> 0, load |-> 3]
    BY DEF StreamInit
  <1>2. keepalive.pc \in {"wait", "done"} /\ keepalive.in = 0 /\ keepalive.out = 0 /\ keepalive.wlan = 0
    BY <1>1
  <1>3. LoopTypes
    BY <1>1, StreamAssumption DEF LoopTypes, Loop
  <1> QED
    BY <1>1, <1>2, <1>3 DEF LoopInv, Decrementable, SentLately, HeardLately, Busy, NeverSilent,
       BroadcastWhenDeaf, Broadcasting

(* A packet is sent: by the input loop, the aggregator, a client, Stop.    *)
LEMMA SendingKeepsLoop ==
  ASSUME LoopInv, SendToTX, UNCHANGED <<keepalive, open, wlan>>
  PROVE  LoopInv'
  <1>1. /\ sem' = [sem EXCEPT !.out = 1]
        /\ age' = age \/ age' = [age EXCEPT !.tx = 0]
        /\ open => age' = [age EXCEPT !.tx = 0]
    BY Reaches DEF SendToTX, LoopInv, LoopTypes
  <1>2. LoopTypes'
    BY <1>1 DEF LoopInv, LoopTypes
  <1>3. /\ sem'.in = sem.in /\ sem'.out = 1 /\ age'.rx = age.rx /\ age'.load = age.load
        /\ open => age'.tx = 0
    BY <1>1 DEF LoopInv, LoopTypes
  <1> QED
    BY <1>2, <1>3 DEF LoopInv, LoopTypes, Decrementable, SentLately, HeardLately, Busy, NeverSilent,
       BroadcastWhenDeaf, Broadcasting

(* Nothing the loop looks at changes, but the injector may be closed.      *)
LEMMA OthersKeepLoop ==
  ASSUME LoopInv, UNCHANGED <<keepalive, sem, age>>, wlan' \in Wlans \union {All},
         open' \in BOOLEAN, open' => open
  PROVE  LoopInv'
  <1>1. LoopTypes'
    BY DEF LoopInv, LoopTypes
  <1>2. Decrementable' /\ HeardLately' /\ BroadcastWhenDeaf'
    BY DEF LoopInv, Decrementable, HeardLately, Busy, BroadcastWhenDeaf, Broadcasting
  <1>3. SentLately' /\ NeverSilent'
    BY <1>1 DEF LoopInv, SentLately, Busy, NeverSilent
  <1> QED
    BY <1>1, <1>2, <1>3 DEF LoopInv

LEMMA HearKeepsLoop ==
  ASSUME LoopInv, Hear
  PROVE  LoopInv'
  <1>1. /\ sem' = [sem EXCEPT !.in = 2] /\ age' = [age EXCEPT !.rx = 0]
        /\ UNCHANGED <<keepalive, open, wlan>>
    BY DEF Hear
  <1>2. LoopTypes'
    BY <1>1 DEF LoopInv, LoopTypes
  <1>3. /\ sem'.in = 2 /\ sem'.out = sem.out /\ age'.rx = 0 /\ age'.tx = age.tx
        /\ age'.load = age.load
    BY <1>1 DEF LoopInv, LoopTypes
  <1> QED
    BY <1>1, <1>2, <1>3 DEF LoopInv, LoopTypes, Decrementable, SentLately, HeardLately, Busy,
       NeverSilent, BroadcastWhenDeaf, Broadcasting

LEMMA TickKeepsLoop ==
  ASSUME LoopInv, Tick
  PROVE  LoopInv'
  <1>1. /\ keepalive.pc = "wait"
        /\ keepalive' = [keepalive EXCEPT !.pc = "loaded", !.in = sem.in, !.out = sem.out]
        /\ age' = [rx |-> Older(age.rx), tx |-> Older(age.tx), load |-> Older(age.rx)]
        /\ UNCHANGED <<sem, wlan, open>>
    BY DEF Tick
  <1>2. \A n \in 0 .. 3 : Older(n) \in 1 .. 3 /\ (n < 3 => Older(n) = n + 1)
                                            /\ (n = 3 => Older(n) = 3)
    BY DEF Older
  <1>3. LoopTypes'
    <2>1. Older(age.rx) \in 0 .. 3 /\ Older(age.tx) \in 0 .. 3
      BY <1>2 DEF LoopInv, LoopTypes
    <2>2. keepalive' \in [pc : Loop, in : 0 .. 2, out : 0 .. 1, wlan : Wlans \union {All}]
      BY <1>1 DEF LoopInv, LoopTypes, Loop
    <2> QED
      BY <1>1, <2>1, <2>2 DEF LoopInv, LoopTypes
  <1>4. /\ keepalive'.pc = "loaded" /\ keepalive'.in = sem.in /\ keepalive'.out = sem.out
        /\ age'.rx = Older(age.rx) /\ age'.tx = Older(age.tx) /\ age'.load = Older(age.rx)
        /\ age.rx \in 0 .. 3 /\ age.tx \in 0 .. 3 /\ sem.in \in 0 .. 2 /\ sem.out \in 0 .. 1
    BY <1>1 DEF LoopInv, LoopTypes
  <1>5. ~Busy /\ Busy'
    BY <1>1, <1>4 DEF Busy
  <1>6. Decrementable' /\ NeverSilent'
    BY <1>1, <1>4 DEF Decrementable, NeverSilent
  <1>7. SentLately'
    BY <1>1, <1>2, <1>4, <1>5 DEF LoopInv, SentLately
  <1>8. HeardLately' /\ BroadcastWhenDeaf'
    BY <1>1, <1>2, <1>4, <1>5 DEF LoopInv, HeardLately, BroadcastWhenDeaf, Broadcasting
  <1> QED
    BY <1>3, <1>6, <1>7, <1>8 DEF LoopInv

(* The loop's own steps up to the decrement.                               *)
LEMMA ActingKeepsLoop ==
  ASSUME LoopInv, NothingToSend \/ SendKeepalive \/ ReadCurrent \/ SelectAll \/ Broadcast \/ Restore
                  \/ KeepaliveEnds
  PROVE  LoopInv'
  <1> USE DEF LoopInv, Decrementable, SentLately, HeardLately, Busy, NeverSilent,
              BroadcastWhenDeaf, Broadcasting
  <1>1. /\ open' = open /\ LoopTypes'
        /\ keepalive'.in = keepalive.in /\ keepalive'.out = keepalive.out
        /\ sem'.in = sem.in /\ age'.rx = age.rx /\ age'.load = age.load
    <2>1. /\ open' = open /\ sem'.in = sem.in /\ sem' \in [in : 0 .. 2, out : 0 .. 1]
          /\ age'.rx = age.rx /\ age'.load = age.load
          /\ age' \in [rx : 0 .. 3, tx : 0 .. 3, load : 0 .. 3]
      BY DEF LoopTypes, NothingToSend, SendKeepalive, SendToTX, ReadCurrent, SelectAll, Broadcast,
             Restore, KeepaliveEnds, historyVars
    <2>2. \E pc \in Loop : \/ keepalive' = [keepalive EXCEPT !.pc = pc]
                           \/ keepalive' = [keepalive EXCEPT !.pc = pc, !.wlan = wlan]
      BY DEF LoopTypes, Loop, NothingToSend, SendKeepalive, ReadCurrent, SelectAll, Broadcast,
             Restore, KeepaliveEnds
    <2>3. wlan' \in Wlans \union {All}
      BY DEF LoopTypes, NothingToSend, SendKeepalive, ReadCurrent, SelectAll, Broadcast,
             Restore, KeepaliveEnds, Selected
    <2> QED
      BY <2>1, <2>2, <2>3 DEF LoopTypes
  <1>2. CASE NothingToSend
    <2>1. keepalive.pc = "loaded" /\ keepalive'.pc = "decrement" /\ keepalive.in > 0 /\ keepalive.out > 0
          /\ UNCHANGED <<sem, age>>
      BY <1>2 DEF NothingToSend, historyVars, LoopTypes
    <2> QED
      BY <1>1, <2>1 DEF LoopTypes
  <1>3. CASE SendKeepalive
    <2>1. keepalive.pc = "loaded" /\ keepalive'.pc = "decrement" /\ keepalive.in > 0 /\ keepalive.out = 0
          /\ sem'.out = 1 /\ (open => age'.tx = 0)
      BY <1>3, Reaches DEF SendKeepalive, SendToTX, LoopTypes
    <2> QED
      BY <1>1, <2>1 DEF LoopTypes
  <1>4. CASE ReadCurrent
    <2>1. keepalive.pc = "loaded" /\ keepalive'.pc = "mirror" /\ keepalive.in = 0 /\ UNCHANGED <<sem, age>>
      BY <1>4 DEF ReadCurrent, historyVars, LoopTypes
    <2> QED
      BY <1>1, <2>1 DEF LoopTypes
  <1>5. CASE SelectAll
    <2>1. keepalive.pc = "mirror" /\ keepalive'.pc = "broadcast" /\ UNCHANGED <<sem, age>>
      BY <1>5 DEF SelectAll, historyVars, LoopTypes
    <2> QED
      BY <1>1, <2>1 DEF LoopTypes
  <1>6. CASE Broadcast
    <2>1. keepalive.pc = "broadcast" /\ keepalive'.pc = "restore" /\ UNCHANGED sem
          /\ (open => age'.tx = 0)
      BY <1>6, Reaches DEF Broadcast, LoopTypes
    <2> QED
      BY <1>1, <2>1 DEF LoopTypes
  <1>7. CASE Restore
    <2>1. keepalive.pc = "restore" /\ keepalive'.pc = "decrement" /\ UNCHANGED <<sem, age>>
      BY <1>7 DEF Restore, historyVars, LoopTypes
    <2> QED
      BY <1>1, <2>1 DEF LoopTypes
  <1>8. CASE KeepaliveEnds
    <2>1. keepalive.pc = "wait" /\ keepalive'.pc = "done" /\ UNCHANGED <<sem, age>>
      BY <1>8 DEF KeepaliveEnds, historyVars, LoopTypes
    <2> QED
      BY <1>1, <2>1 DEF LoopTypes
  <1> QED
    BY <1>2, <1>3, <1>4, <1>5, <1>6, <1>7, <1>8

LEMMA DecrementKeepsLoop ==
  ASSUME LoopInv, Decrement
  PROVE  LoopInv'
  <1>1. /\ keepalive.pc = "decrement" /\ keepalive' = [keepalive EXCEPT !.pc = "wait"]
        /\ sem' = [in  |-> IF keepalive.in > 0 THEN sem.in - 1 ELSE sem.in,
                   out |-> IF keepalive.out > 0 THEN sem.out - 1 ELSE sem.out]
        /\ UNCHANGED <<age, open, wlan>>
    BY DEF Decrement, historyVars
  <1>2. /\ keepalive'.pc = "wait" /\ Busy /\ ~Busy'
        /\ keepalive.in \in 0 .. 2 /\ keepalive.out \in 0 .. 1 /\ sem.in \in 0 .. 2 /\ sem.out \in 0 .. 1
        /\ age.rx \in 0 .. 3 /\ age.tx \in 0 .. 3
        /\ sem'.in = (IF keepalive.in > 0 THEN sem.in - 1 ELSE sem.in)
        /\ sem'.out = (IF keepalive.out > 0 THEN sem.out - 1 ELSE sem.out)
    BY <1>1 DEF LoopInv, LoopTypes, Busy
  <1>3. keepalive.in <= sem.in /\ keepalive.out <= sem.out
    BY <1>2 DEF LoopInv, Decrementable
  <1>4. LoopTypes'
    BY <1>1, <1>2, <1>3 DEF LoopInv, LoopTypes, Loop
  <1>5. SentLately' /\ NeverSilent'
    BY <1>1, <1>2, <1>3 DEF LoopInv, SentLately, NeverSilent
  <1>6. HeardLately'
    BY <1>1, <1>2, <1>3 DEF LoopInv, HeardLately
  <1> QED
    BY <1>2, <1>4, <1>5, <1>6 DEF LoopInv, Decrementable, BroadcastWhenDeaf, Broadcasting

-----------------------------------------------------------------------------
(* A step on the data: either nothing is sent, or the counter is reset.     *)
DataStep == InputLoop \/ ReaderEnds \/ Aggregates \/ Unpacks \/ FlushAggregator

LEMMA DataSteps ==
  ASSUME DataStep
  PROVE  /\ UNCHANGED <<sem, age>> \/ SendToTX
         /\ UNCHANGED <<keepalive, wlan, open, acceptor, tcp, listed, selected, crossed>>
  <1>1. CASE InputLoop \/ Aggregates \/ FlushAggregator
    BY <1>1 DEF InputLoop, Aggregates, FlushAggregator, FramesSent
  <1>2. CASE ReaderEnds \/ Unpacks
    BY <1>2 DEF ReaderEnds, Unpacks, serviceVars, historyVars
  <1> QED
    BY <1>1, <1>2 DEF DataStep

LEMMA DataKeepsLoop ==
  ASSUME LoopInv, DataStep
  PROVE  LoopInv'
  <1>1. CASE SendToTX
    BY <1>1, DataSteps, SendingKeepsLoop
  <1>2. CASE UNCHANGED <<sem, age>>
    BY <1>2, DataSteps, OthersKeepLoop DEF LoopInv, LoopTypes
  <1> QED
    BY <1>1, <1>2, DataSteps

(* The steps of the TCP clients, and of Stop.                               *)
ClientStep(c) == Accept(c) \/ Serve(c) \/ WriteFails(c) \/ ClientEnds(c)
StopOnly == AcceptEnds \/ BeginStop \/ CloseClients \/ CloseInjector \/ Stopped

LEMMA NextSteps ==
  ASSUME StreamNext
  PROVE  \/ DataStep \/ Hear \/ Tick \/ Keepalives
         \/ \E i \in Wlans : SetAntenna(i)
         \/ \E c \in Clients : ClientStep(c) \/ ClientSends(c)
         \/ StopOnly
  BY DEF StreamNext, DataStep, ClientStep, StopOnly, StopStep

LEMMA NextKeepsLoop ==
  ASSUME LoopInv, [StreamNext]_streamVars
  PROVE  LoopInv'
  <1>0. wlan \in Wlans \union {All} /\ open \in BOOLEAN
    BY DEF LoopInv, LoopTypes
  <1>1. CASE DataStep
    BY <1>1, DataKeepsLoop
  <1>2. CASE Hear \/ Tick
    BY <1>2, HearKeepsLoop, TickKeepsLoop
  <1>3. CASE Keepalives
    BY <1>3, ActingKeepsLoop, DecrementKeepsLoop DEF Keepalives
  <1>4. ASSUME NEW i \in Wlans, SetAntenna(i) PROVE LoopInv'
    <2>1. /\ UNCHANGED <<keepalive, sem, age, open>> /\ wlan' = Selected(i)
      BY <1>4 DEF SetAntenna
    <2> QED
      BY <1>0, <2>1, OthersKeepLoop DEF Selected
  <1>5. ASSUME NEW c \in Clients, ClientStep(c) PROVE LoopInv'
    <2>1. UNCHANGED <<keepalive, sem, age, open, wlan>>
      BY <1>5 DEF ClientStep, Accept, Serve, WriteFails, ClientEnds, historyVars
    <2> QED
      BY <1>0, <2>1, OthersKeepLoop
  <1>6. ASSUME NEW c \in Clients, ClientSends(c) PROVE LoopInv'
    BY <1>6, SendingKeepsLoop DEF ClientSends
  <1>7. CASE StopOnly
    <2>1. /\ UNCHANGED <<keepalive, sem, age, wlan>>
          /\ open' = open \/ open' = FALSE
      BY <1>7 DEF StopOnly, AcceptEnds, BeginStop, CloseClients, CloseInjector, Stopped, historyVars
    <2>2. CASE open' = open
      BY <1>0, <2>1, <2>2, OthersKeepLoop
    <2>3. CASE open' = FALSE
      BY <1>0, <2>1, <2>3, OthersKeepLoop
    <2> QED
      BY <2>1, <2>2, <2>3
  <1>8. CASE UNCHANGED streamVars
    BY <1>0, <1>8, OthersKeepLoop DEF streamVars, serviceVars, historyVars
  <1> QED
    BY <1>1, <1>2, <1>3, <1>4, <1>5, <1>6, <1>7, <1>8, NextSteps

-----------------------------------------------------------------------------
(***************************************************************************)
(* The antenna                                                             *)
(***************************************************************************)
(* What the loop will restore is as good as what is selected.              *)
Acceptable(w) ==
  IF left.mirror THEN w = All ELSE w = selected \/ (crossed /\ w \in Wlans) \/ ~open

AntennaInv ==
  /\ left \in Scenario /\ selected \in Wlans
  /\ keepalive.pc \notin {"broadcast", "restore"} => Acceptable(wlan)
  /\ Broadcasting => Acceptable(keepalive.wlan)

LEMMA SpendingKeepsMirror ==
  ASSUME left \in Scenario, NEW what \in {"reads", "ticks", "switches", "hears"}, Spends(what)
  PROVE  left' \in Scenario /\ left'.mirror = left.mirror
  BY DEF Scenario, Spends

LEMMA InitAntenna == StreamInit => AntennaInv
  <1> SUFFICES ASSUME StreamInit PROVE AntennaInv
    OBVIOUS
  <1>1. left \in Scenario /\ selected = 0 /\ wlan = (IF left.mirror THEN All ELSE 0)
        /\ keepalive.pc \in {"wait", "done"}
    BY StreamAssumption DEF StreamInit
  <1> QED
    BY <1>1, StreamAssumption DEF AntennaInv, Acceptable, Broadcasting

(* The antenna, the loop, and what was selected stay.                      *)
LEMMA OthersKeepAntenna ==
  ASSUME AntennaInv, UNCHANGED <<keepalive, wlan, selected, crossed>>,
         left' \in Scenario, left'.mirror = left.mirror, open' = open \/ ~open'
  PROVE  AntennaInv'
  BY DEF AntennaInv, Acceptable, Broadcasting

LEMMA SetAntennaKeepsAntenna ==
  ASSUME LoopInv, AntennaInv, NEW i \in Wlans, SetAntenna(i)
  PROVE  AntennaInv'
  <1>1. /\ selected' = i /\ wlan' = Selected(i) /\ crossed' = Broadcasting
        /\ UNCHANGED <<keepalive, open>> /\ ~left.mirror
    BY DEF SetAntenna
  <1>2. left' \in Scenario /\ ~left'.mirror
    BY SpendingKeepsMirror, <1>1 DEF SetAntenna, AntennaInv
  <1>3. ~open' \/ wlan' = selected'
    BY <1>1 DEF Selected
  <1>4. Broadcasting => keepalive.wlan \in Wlans \/ ~open
    BY <1>1 DEF AntennaInv, Acceptable
  <1> QED
    BY <1>1, <1>2, <1>3, <1>4 DEF AntennaInv, Acceptable, Broadcasting

LEMMA LoopKeepsAntenna ==
  ASSUME LoopInv, AntennaInv, Tick \/ Keepalives
  PROVE  AntennaInv'
  <1> USE DEF AntennaInv, Acceptable, Broadcasting
  <1>0. UNCHANGED <<selected, crossed, open>>
    BY DEF Tick, Keepalives, NothingToSend, SendKeepalive, ReadCurrent, SelectAll, Broadcast, Restore,
           Decrement, KeepaliveEnds, historyVars
  <1>1. left' \in Scenario /\ left'.mirror = left.mirror
    BY SpendingKeepsMirror
       DEF Tick, Keepalives, NothingToSend, SendKeepalive, ReadCurrent, SelectAll, Broadcast, Restore,
           Decrement, KeepaliveEnds
  <1>2. CASE Tick \/ NothingToSend \/ SendKeepalive \/ Decrement \/ KeepaliveEnds
    <2>1. wlan' = wlan /\ keepalive.pc \notin {"mirror", "broadcast", "restore"}
          /\ keepalive'.pc \in {"loaded", "wait", "decrement", "done"}
      BY <1>2 DEF Tick, NothingToSend, SendKeepalive, Decrement, KeepaliveEnds, LoopInv, LoopTypes
    <2> QED
      BY <1>0, <1>1, <2>1
  <1>3. CASE ReadCurrent
    <2>1. wlan' = wlan /\ keepalive.pc = "loaded" /\ keepalive'.pc = "mirror" /\ keepalive'.wlan = wlan
      BY <1>3 DEF ReadCurrent, LoopInv, LoopTypes
    <2> QED
      BY <1>0, <1>1, <2>1
  <1>4. CASE SelectAll \/ Broadcast
    <2>1. /\ keepalive.pc \in {"mirror", "broadcast"} /\ keepalive'.pc \in {"broadcast", "restore"}
          /\ keepalive'.wlan = keepalive.wlan
      BY <1>4 DEF SelectAll, Broadcast, LoopInv, LoopTypes
    <2> QED
      BY <1>0, <1>1, <2>1
  <1>5. CASE Restore
    <2>1. /\ keepalive.pc = "restore" /\ keepalive'.pc = "decrement"
          /\ wlan' = Selected(keepalive.wlan)
      BY <1>5 DEF Restore, LoopInv, LoopTypes
    <2>2. wlan' = keepalive.wlan \/ (~open /\ keepalive.wlan # All)
      BY <2>1 DEF Selected
    <2> QED
      BY <1>0, <1>1, <2>1, <2>2
  <1> QED
    BY <1>2, <1>3, <1>4, <1>5 DEF Keepalives

LEMMA NextKeepsAntenna ==
  ASSUME LoopInv, AntennaInv, [StreamNext]_streamVars
  PROVE  AntennaInv'
  <1>0. left \in Scenario /\ open \in BOOLEAN
    BY DEF AntennaInv, LoopInv, LoopTypes
  <1>1. CASE DataStep
    <2>1. left' = left \/ Spends("reads")
      BY <1>1 DEF DataStep, InputLoop, ReaderEnds, Aggregates, Unpacks, FlushAggregator
    <2>2. left' \in Scenario /\ left'.mirror = left.mirror
      BY <1>0, <2>1, SpendingKeepsMirror
    <2> QED
      BY <1>1, <2>2, DataSteps, OthersKeepAntenna
  <1>2. CASE Hear
    <2>1. /\ UNCHANGED <<keepalive, wlan, selected, crossed, open>>
          /\ left' \in Scenario /\ left'.mirror = left.mirror
      BY <1>0, <1>2, SpendingKeepsMirror DEF Hear
    <2> QED
      BY <2>1, OthersKeepAntenna
  <1>3. CASE Tick \/ Keepalives
    BY <1>3, LoopKeepsAntenna
  <1>4. ASSUME NEW i \in Wlans, SetAntenna(i) PROVE AntennaInv'
    BY <1>4, SetAntennaKeepsAntenna
  <1>5. ASSUME NEW c \in Clients, ClientStep(c) \/ ClientSends(c) PROVE AntennaInv'
    <2>1. UNCHANGED <<keepalive, wlan, selected, crossed, open, left>>
      BY <1>5 DEF ClientStep, Accept, Serve, WriteFails, ClientEnds, ClientSends, historyVars
    <2> QED
      BY <1>0, <2>1, OthersKeepAntenna
  <1>6. CASE StopOnly
    <2>1. /\ UNCHANGED <<keepalive, wlan, selected, crossed, left>>
          /\ open' = open \/ ~open'
      BY <1>6 DEF StopOnly, AcceptEnds, BeginStop, CloseClients, CloseInjector, Stopped, historyVars
    <2> QED
      BY <1>0, <2>1, OthersKeepAntenna
  <1>7. CASE UNCHANGED streamVars
    BY <1>0, <1>7, OthersKeepAntenna DEF streamVars, serviceVars, historyVars
  <1> QED
    BY <1>1, <1>2, <1>3, <1>4, <1>5, <1>6, <1>7, NextSteps

(* After a broadcast the injector is on the antenna the server selected,   *)
(* or in mirror mode if that is configured, unless an antenna was selected *)
(* in the middle of it.                                                    *)
THEOREM AntennaIsRestored == StreamSpec => []AntennaRestored
  <1>1. StreamInit => LoopInv /\ AntennaInv
    BY InitLoop, InitAntenna
  <1>2. LoopInv /\ AntennaInv /\ [StreamNext]_streamVars => LoopInv' /\ AntennaInv'
    BY NextKeepsLoop, NextKeepsAntenna
  <1>3. AntennaInv => AntennaRestored
    BY DEF AntennaInv, Acceptable, AntennaRestored
  <1> QED
    BY <1>1, <1>2, <1>3, PTL DEF StreamSpec

(* A tunnel's link is never silent for more than an interval as long as    *)
(* the injector is open, whatever runs between the loading of the counters *)
(* and their decrement.                                                    *)
THEOREM TunnelNeverSilent == StreamSpec => []NeverSilent
  <1>1. StreamInit => LoopInv
    BY InitLoop
  <1>2. LoopInv /\ [StreamNext]_streamVars => LoopInv'
    BY NextKeepsLoop
  <1>3. LoopInv => NeverSilent
    BY DEF LoopInv
  <1> QED
    BY <1>1, <1>2, <1>3, PTL DEF StreamSpec

(* The keepalive goes to all wlans if the tunnel heard nothing for two     *)
(* intervals, and not if it heard something.                               *)
THEOREM DeafTunnelBroadcasts == StreamSpec => []BroadcastWhenDeaf
  <1>1. StreamInit => LoopInv
    BY InitLoop
  <1>2. LoopInv /\ [StreamNext]_streamVars => LoopInv'
    BY NextKeepsLoop
  <1>3. LoopInv => BroadcastWhenDeaf
    BY DEF LoopInv
  <1> QED
    BY <1>1, <1>2, <1>3, PTL DEF StreamSpec

-----------------------------------------------------------------------------
(***************************************************************************)
(* The TCP clients                                                         *)
(***************************************************************************)
(* Only the client the accept loop holds is connected and not yet served,  *)
(* and Stop waits for the loop.                                            *)
ClientsInv ==
  /\ service \in {"running", "stopping", "flushed", "hungUp", "waiting", "stopped"}
  /\ reader \in {"reading", "done"}
  /\ acceptor \in Clients \union {"listening", "done"}
  /\ tcp \in [Clients -> Conn]
  /\ listed \subseteq {c \in Clients : tcp[c] = "served"}
  /\ \A c \in Clients : tcp[c] = "accepted" => acceptor = c
  /\ service = "stopped" => acceptor = "done"
  /\ service = "stopped" => \A c \in Clients : tcp[c] \notin {"served", "closed"}

LEMMA InitClients == StreamInit => ClientsInv
  <1> SUFFICES ASSUME StreamInit PROVE ClientsInv
    OBVIOUS
  <1>1. /\ service = "running" /\ reader = "reading" /\ acceptor \in {"listening", "done"}
        /\ tcp = [c \in Clients |-> "outside"] /\ listed = {}
    BY DEF StreamInit
  <1> QED
    BY <1>1 DEF ClientsInv, Conn

LEMMA ClientKeepsClients ==
  ASSUME ClientsInv, NEW c \in Clients, ClientStep(c)
  PROVE  ClientsInv'
  <1>0. c \notin {"listening", "done"} /\ service' = service /\ reader' = reader
    BY StreamAssumption DEF ClientStep, Accept, Serve, WriteFails, ClientEnds
  <1>1. CASE Accept(c)
    <2>1. /\ acceptor = "listening" /\ service # "stopped" /\ tcp[c] = "outside"
          /\ acceptor' = c /\ tcp' = [tcp EXCEPT ![c] = "accepted"] /\ listed' = listed
      BY <1>1 DEF Accept, ListenerOpen
    <2> QED
      BY <1>0, <2>1, StreamAssumption DEF ClientsInv, Conn
  <1>2. CASE Serve(c)
    <2>1. /\ acceptor = c /\ acceptor' = "listening" /\ tcp' = [tcp EXCEPT ![c] = "served"]
          /\ listed' = listed \union {c}
      BY <1>2 DEF Serve
    <2> QED
      BY <1>0, <2>1 DEF ClientsInv, Conn
  <1>3. CASE WriteFails(c)
    <2>1. /\ service # "stopped" /\ tcp[c] = "served" /\ tcp' = [tcp EXCEPT ![c] = "closed"]
          /\ listed' = listed \ {c} /\ acceptor' = acceptor
      BY <1>3 DEF WriteFails
    <2> QED
      BY <1>0, <2>1 DEF ClientsInv, Conn
  <1>4. CASE ClientEnds(c)
    <2>1. /\ tcp[c] \in {"served", "closed"} /\ tcp' = [tcp EXCEPT ![c] = "ended"]
          /\ listed' = listed \ {c} /\ acceptor' = acceptor
      BY <1>4 DEF ClientEnds
    <2> QED
      BY <1>0, <2>1 DEF ClientsInv, Conn
  <1> QED
    BY <1>1, <1>2, <1>3, <1>4 DEF ClientStep

LEMMA StopKeepsClients ==
  ASSUME ClientsInv, StopOnly
  PROVE  ClientsInv'
  <1>1. CASE AcceptEnds
    BY <1>1, StreamAssumption DEF AcceptEnds, ClientsInv
  <1>2. CASE BeginStop \/ CloseInjector
    BY <1>2 DEF BeginStop, CloseInjector, ClientsInv
  <1>3. CASE CloseClients
    <2>1. /\ service = "flushed" /\ service' = "hungUp" /\ listed' = {}
          /\ tcp' = [c \in Clients |-> IF c \in listed THEN "closed" ELSE tcp[c]]
          /\ UNCHANGED <<reader, acceptor>>
      BY <1>3 DEF CloseClients
    <2> QED
      BY <2>1 DEF ClientsInv, Conn
  <1>4. CASE Stopped
    BY <1>4 DEF Stopped, ClientsInv
  <1> QED
    BY <1>1, <1>2, <1>3, <1>4 DEF StopOnly

LEMMA NextKeepsClients ==
  ASSUME ClientsInv, [StreamNext]_streamVars
  PROVE  ClientsInv'
  <1>1. CASE DataStep
    <2>1. UNCHANGED <<acceptor, tcp, listed>>
      BY <1>1, DataSteps
    <2>2. /\ reader' \in {reader, "reading", "done"}
          /\ service' = service \/ (service = "stopping" /\ service' = "flushed")
      BY <1>1 DEF DataStep, InputLoop, ReaderEnds, Aggregates, Unpacks, FlushAggregator, serviceVars
    <2> QED
      BY <2>1, <2>2 DEF ClientsInv
  <1>2. CASE UNCHANGED <<service, reader, acceptor, tcp, listed>>
    BY <1>2 DEF ClientsInv
  <1>3. CASE Hear \/ Tick \/ Keepalives
    <2>1. UNCHANGED <<service, reader, acceptor, tcp, listed>>
      BY <1>3 DEF Hear, Tick, Keepalives, NothingToSend, SendKeepalive, ReadCurrent, SelectAll,
                  Broadcast, Restore, Decrement, KeepaliveEnds
    <2> QED
      BY <1>2, <2>1
  <1>4. ASSUME NEW i \in Wlans, SetAntenna(i) PROVE ClientsInv'
    BY <1>2, <1>4 DEF SetAntenna
  <1>5. ASSUME NEW c \in Clients, ClientStep(c) PROVE ClientsInv'
    BY <1>5, ClientKeepsClients
  <1>6. ASSUME NEW c \in Clients, ClientSends(c) PROVE ClientsInv'
    BY <1>2, <1>6 DEF ClientSends
  <1>7. CASE StopOnly
    BY <1>7, StopKeepsClients
  <1>8. CASE UNCHANGED streamVars
    BY <1>2, <1>8 DEF streamVars, serviceVars
  <1> QED
    BY <1>1, <1>3, <1>4, <1>5, <1>6, <1>7, <1>8, NextSteps

(* When Stop has returned no client is left connected, whenever it came    *)
(* and whoever closed it; the counters stay in their range.                *)
THEOREM StreamStaysSound == StreamSpec => []StreamInv
  <1>1. StreamInit => LoopInv /\ AntennaInv /\ ClientsInv
    BY InitLoop, InitAntenna, InitClients
  <1>2. LoopInv /\ AntennaInv /\ ClientsInv /\ [StreamNext]_streamVars
          => LoopInv' /\ AntennaInv' /\ ClientsInv'
    BY NextKeepsLoop, NextKeepsAntenna, NextKeepsClients
  <1>3. LoopInv /\ AntennaInv /\ ClientsInv => StreamInv
    <2> SUFFICES ASSUME LoopInv, AntennaInv, ClientsInv PROVE StreamInv
      OBVIOUS
    <2>1. StreamTypeOK
      BY DEF LoopInv, LoopTypes, AntennaInv, ClientsInv, StreamTypeOK
    <2>2. ClientsClosed
      BY StreamAssumption DEF ClientsInv, Conn, ClientsClosed
    <2> QED
      BY <2>1, <2>2 DEF StreamInv
  <1> QED
    BY <1>1, <1>2, <1>3, PTL DEF StreamSpec

-----------------------------------------------------------------------------
(***************************************************************************)
(* The aggregator below the service                                        *)
(***************************************************************************)
(* The service's goroutines use the aggregator by its operations only.     *)
LEMMA StepOfAggregator ==
  ASSUME left \in Scenario, [StreamNext]_streamVars
  PROVE  [Next]_vars
  <1>1. CASE InputLoop
    <2>1. PICK p \in [id : {read + 1}, size : left.sizes] : AddPacket(p) \/ RefusePacket(p)
      BY <1>1 DEF InputLoop
    <2>2. p \in [id : {read + 1}, size : Sizes]
      BY DEF Scenario
    <2> QED
      BY <2>1, <2>2 DEF Next
  <1>2. CASE Aggregates
    BY <1>2 DEF Aggregates, Next
  <1>3. CASE Unpacks
    BY <1>3 DEF Unpacks, Next
  <1>4. CASE FlushAggregator
    BY <1>4 DEF FlushAggregator, Next
  <1>5. CASE ReaderEnds \/ Hear \/ Tick \/ AcceptEnds \/ BeginStop \/ CloseClients \/ CloseInjector
             \/ Stopped
    BY <1>5 DEF ReaderEnds, Hear, Tick, AcceptEnds, BeginStop, CloseClients, CloseInjector, Stopped
  <1>6. CASE Keepalives
    BY <1>6 DEF Keepalives, NothingToSend, SendKeepalive, ReadCurrent, SelectAll, Broadcast, Restore,
                Decrement, KeepaliveEnds
  <1>7. ASSUME NEW i \in Wlans, SetAntenna(i) PROVE UNCHANGED vars
    BY <1>7 DEF SetAntenna
  <1>8. ASSUME NEW c \in Clients, ClientStep(c) \/ ClientSends(c) PROVE UNCHANGED vars
    BY <1>8 DEF ClientStep, ClientSends, Accept, Serve, WriteFails, ClientEnds
  <1>9. CASE UNCHANGED streamVars
    BY <1>9 DEF streamVars
  <1> QED
    BY <1>1, <1>2, <1>3, <1>4, <1>5, <1>6, <1>7, <1>8, <1>9, NextSteps DEF DataStep, StopOnly

(* Every step of the service is one of the aggregator or none, so that     *)
(* whatever is proved of the aggregator holds of the aggregator in the     *)
(* service, with its input loop, clients, keepalives and Stop.             *)
THEOREM ServiceUsesAggregator == StreamSpec => SafeSpec
  <1>1. StreamInit => Init /\ LoopInv /\ AntennaInv
    BY InitLoop, InitAntenna DEF StreamInit
  <1>2. LoopInv /\ AntennaInv /\ [StreamNext]_streamVars
          => LoopInv' /\ AntennaInv' /\ [Next]_vars
    <2>1. AntennaInv => left \in Scenario
      BY DEF AntennaInv
    <2> QED
      BY <2>1, NextKeepsLoop, NextKeepsAntenna, StepOfAggregator
  <1> QED
    BY <1>1, <1>2, PTL DEF StreamSpec, SafeSpec

(* What the reading peer is written is what the other peer wrote, in its   *)
(* order and once, also when Stop flushes the aggregator and packets are   *)
(* read after it.                                                          *)
THEOREM ServiceImplementsStream ==
  NothingOvertakes => (StreamSpec => ImplementsOrderedDelivery)
  BY ServiceUsesAggregator, SafelyImplements, PTL

(* Until Stop has returned, and while it runs: what Add accepted was       *)
(* flushed or is in the buffer, the buffer fits a frame, and what is in it *)
(* has a timer.                                                            *)
THEOREM ServiceAggregates ==
  StreamSpec => [](AggTypeOK /\ FlushedInOrder /\ TimerCovers)
  <1>1. AggInv => AggTypeOK /\ FlushedInOrder /\ TimerCovers
    BY DEF AggInv, Cleared, AggTypeOK, TimerCovers
  <1> QED
    BY <1>1, ServiceUsesAggregator, AggInvariant, PTL

-----------------------------------------------------------------------------
(***************************************************************************)
(* Stop and the packets                                                    *)
(***************************************************************************)
Carries(S, n, p) == \E f \in 1 .. n : \E j \in DOMAIN S[f].packets : S[f].packets[j] = p

CarriesAll(S, n, ps) == \A i \in DOMAIN ps : Carries(S, n, ps[i])

(* What was flushed is in a frame, the injector was given all frames while *)
(* it was open, and it is closed after the aggregator was stopped.         *)
InjectedInv ==
  /\ CarriesAll(sent, Len(sent), flushed)
  /\ onAir \in 0 .. Len(sent)
  /\ open => onAir = Len(sent)
  /\ open <=> service \notin {"waiting", "stopped"}
  /\ agg.stopped <=> service \notin {"running", "stopping"}
  /\ ~ open => CarriesAll(sent, onAir, added)

(* Frames are added at the end.                                            *)
LEMMA CarriesMore ==
  ASSUME NEW S \in Seq(Frame), NEW T, T = S \/ \E f \in Frame : T = Append(S, f),
         NEW n \in 0 .. Len(S), NEW ps, CarriesAll(S, n, ps)
  PROVE  Len(T) \in Nat /\ Len(T) >= Len(S) /\ CarriesAll(T, n, ps) /\ CarriesAll(T, Len(T), ps)
  <1>1. Len(T) \in Nat /\ Len(T) >= Len(S) /\ \A i \in 1 .. Len(S) : T[i] = S[i]
    OBVIOUS
  <1>2. 1 .. n \subseteq 1 .. Len(S) /\ 1 .. n \subseteq 1 .. Len(T)
    BY <1>1
  <1> QED
    BY <1>1, <1>2 DEF CarriesAll, Carries

(* The buffer becomes a frame.                                             *)
LEMMA BufferCarried ==
  ASSUME AggInv, SendBuffer, CarriesAll(sent, Len(sent), flushed)
  PROVE  CarriesAll(sent', Len(sent'), flushed')
  <1>1. sent \in Seq(Frame) /\ flushed \in Seq(Packet) /\ agg.packets \in Seq(Packet)
    BY DEF AggInv, AggTypeOK, Frame
  <1>2. CASE agg.size = 0
    <2>1. agg.packets = <<>> /\ sent' = sent /\ flushed' = flushed \o <<>>
      BY <1>2 DEF AggInv, Cleared, SendBuffer
    <2>2. flushed' = flushed
      BY <1>1, <2>1
    <2> QED
      BY <2>1, <2>2
  <1>3. CASE agg.size # 0
    <2> DEFINE f == [packets |-> agg.packets, size |-> agg.size, framed |-> Framed]
    <2>1. sent' = Append(sent, f) /\ flushed' = flushed \o agg.packets
      BY <1>3 DEF SendBuffer
    <2>2. f \in Frame /\ f.packets = agg.packets
      <3>1. agg.size \in Nat /\ Framed \in BOOLEAN
        BY AggregatorConfig DEF AggInv, AggTypeOK
      <3> QED
        BY <1>1, <3>1 DEF Frame
    <2> HIDE DEF f
    <2>3. CarriesAll(sent', Len(sent'), flushed)
      <3>1. PICK T : T = sent'
        OBVIOUS
      <3>2. T = Append(sent, f) /\ Len(sent) \in 0 .. Len(sent)
        BY <1>1, <2>1, <3>1
      <3>3. CarriesAll(T, Len(T), flushed)
        BY <1>1, <2>2, <3>2, CarriesMore
      <3> QED
        BY <3>1, <3>3
    <2>4. Len(sent') \in 1 .. Len(sent') /\ sent'[Len(sent')] = f
      BY <1>1, <2>1, <2>2
    <2>5. \A i \in DOMAIN agg.packets : Carries(sent', Len(sent'), agg.packets[i])
      BY <2>2, <2>4 DEF Carries
    <2>6. ASSUME NEW i \in DOMAIN flushed'
          PROVE  \/ i \in DOMAIN flushed /\ flushed'[i] = flushed[i]
                 \/ \E j \in DOMAIN agg.packets : flushed'[i] = agg.packets[j]
      <3>1. i \in 1 .. Len(flushed) + Len(agg.packets)
        BY <1>1, <2>1
      <3>2. CASE i <= Len(flushed)
        BY <1>1, <2>1, <3>1, <3>2
      <3>3. CASE i > Len(flushed)
        <4>1. i - Len(flushed) \in DOMAIN agg.packets
          BY <1>1, <3>1, <3>3
        <4>2. flushed'[i] = agg.packets[i - Len(flushed)]
          BY <1>1, <2>1, <3>1, <3>3
        <4> QED
          BY <4>1, <4>2
      <3> QED
        BY <1>1, <3>1, <3>2, <3>3
    <2> QED
      BY <2>3, <2>5, <2>6 DEF CarriesAll
  <1> QED
    BY <1>2, <1>3

(* What a step of the aggregator does to the frames, and to what it took.  *)
LEMMA StepCarries ==
  ASSUME AggInv, [Next]_vars, CarriesAll(sent, Len(sent), flushed)
  PROVE  /\ sent' = sent \/ \E f \in Frame : sent' = Append(sent, f)
         /\ CarriesAll(sent', Len(sent'), flushed')
         /\ agg.stopped => agg'.stopped /\ added' = added
  <1> USE DEF AggInv
  <1>1. /\ agg \in Aggregator /\ sent \in Seq(Frame) /\ Len(sent) \in 0 .. Len(sent)
        /\ flushed \in Seq(Packet)
    BY DEF AggTypeOK, Aggregator, Frame
  <1>2. ASSUME SendBuffer PROVE sent' = sent \/ \E f \in Frame : sent' = Append(sent, f)
    <2>1. agg.packets \in Seq(Packet) /\ agg.size \in Nat /\ Framed \in BOOLEAN
      BY AggregatorConfig DEF AggTypeOK
    <2>2. [packets |-> agg.packets, size |-> agg.size, framed |-> Framed] \in Frame
      BY <2>1 DEF Frame
    <2> QED
      BY <1>2, <2>2 DEF SendBuffer
  <1>3. ASSUME UNCHANGED <<sent, flushed>> PROVE CarriesAll(sent', Len(sent'), flushed')
    BY <1>3
  <1>4. Flush(agg).stopped = agg.stopped
    BY FlushClears
  <1>5. ASSUME NEW p, AddPacket(p) PROVE SendBuffer \/ UNCHANGED <<sent, flushed>>
    BY <1>5 DEF AddPacket
  <1>6. ASSUME NEW p, AddPacket(p) PROVE ~ agg.stopped
    BY <1>6 DEF AddPacket
  <1>7. ASSUME NEW p, AddPacket(p)
        PROVE  /\ sent' = sent \/ \E f \in Frame : sent' = Append(sent, f)
               /\ CarriesAll(sent', Len(sent'), flushed')
               /\ agg.stopped => agg'.stopped /\ added' = added
    BY <1>2, <1>3, <1>5, <1>6, <1>7, BufferCarried
  <1>8. ASSUME NEW p, RefusePacket(p) PROVE UNCHANGED <<agg, sent, flushed, added>>
    BY <1>8 DEF RefusePacket
  <1>9. CASE SendDirect
    <2> DEFINE f == [packets |-> direct, size |-> direct[1].size, framed |-> FALSE]
    <2>1. sent' = Append(sent, f) /\ UNCHANGED <<agg, flushed, added>>
      BY <1>9 DEF SendDirect
    <2>2. f \in Frame
      <3>1. direct \in Seq(Packet) /\ direct # <<>>
        BY <1>9 DEF SendDirect, AggTypeOK
      <3>2. direct[1] \in Packet
        BY <3>1
      <3>3. direct[1].size \in Nat
        BY <3>2, PacketSize
      <3> QED
        BY <3>1, <3>3 DEF Frame
    <2> HIDE DEF f
    <2> QED
      BY <1>1, <2>1, <2>2, CarriesMore
  <1>10. CASE TimerFires
    <2>1. agg' = [agg EXCEPT !.timer = "expired"] /\ UNCHANGED <<sent, flushed, added>>
      BY <1>10 DEF TimerFires
    <2>2. agg'.stopped = agg.stopped
      BY <1>1, <2>1 DEF Aggregator
    <2> QED
      BY <1>3, <2>1, <2>2
  <1>11. CASE TimerCallback
    <2>1. /\ added' = added
          /\ \/ agg' = agg /\ UNCHANGED <<sent, flushed>>
             \/ agg' = Flush(agg) /\ SendBuffer
      BY <1>11 DEF TimerCallback
    <2> QED
      BY <1>2, <1>4, <2>1, BufferCarried
  <1>12. CASE Stop
    <2>1. SendBuffer /\ ~ agg.stopped
      BY <1>12 DEF Stop
    <2> QED
      BY <1>2, <2>1, BufferCarried
  <1>13. CASE WritePacket \/ LeaveFrame
    BY <1>13 DEF WritePacket, LeaveFrame
  <1>14. CASE UNCHANGED vars
    BY <1>14 DEF vars
  <1> QED
    BY <1>7, <1>8, <1>9, <1>10, <1>11, <1>12, <1>13, <1>14 DEF Next

(* Only Stop stops the aggregator.                                         *)
LEMMA StillRunning ==
  ASSUME AggInv, left \in Scenario, [StreamNext]_streamVars, ~ FlushAggregator
  PROVE  agg'.stopped = agg.stopped
  <1> USE DEF AggInv
  <1>1. agg \in Aggregator /\ Flush(agg) \in Aggregator /\ Flush(agg).stopped = agg.stopped
    BY FlushClears DEF AggTypeOK, Aggregator
  <1>2. CASE InputLoop
    <2>1. PICK p \in [id : {read + 1}, size : left.sizes] : AddPacket(p) \/ RefusePacket(p)
      BY <1>2 DEF InputLoop
    <2>2. p \in Packet
      BY DEF Scenario, AggTypeOK, Packet
    <2>3. CASE RefusePacket(p)
      BY <2>3 DEF RefusePacket
    <2>4. CASE AddPacket(p)
      <3>1. agg' = Put(Flush(agg), p) \/ agg' = Put(agg, p)
        BY <2>4 DEF AddPacket
      <3>2. ASSUME NEW a \in Aggregator PROVE Put(a, p).stopped = a.stopped
        BY DEF Put, Aggregator
      <3> QED
        BY <1>1, <3>1, <3>2
    <2> QED
      BY <2>1, <2>3, <2>4
  <1>3. CASE Aggregates
    <2>1. agg' \in {agg, Flush(agg), [agg EXCEPT !.timer = "expired"]}
      BY <1>3 DEF Aggregates, SendDirect, TimerFires, TimerCallback
    <2> QED
      BY <1>1, <2>1 DEF Aggregator
  <1>4. CASE Unpacks
    BY <1>4 DEF Unpacks, LeaveFrame, WritePacket
  <1>5. CASE UNCHANGED vars
    BY <1>5 DEF vars
  <1>6. CASE ReaderEnds \/ Hear \/ Tick \/ StopOnly \/ Keepalives
    BY <1>5, <1>6 DEF ReaderEnds, Hear, Tick, StopOnly, AcceptEnds, BeginStop, CloseClients,
       CloseInjector, Stopped, Keepalives, NothingToSend, SendKeepalive, ReadCurrent, SelectAll,
       Broadcast, Restore, Decrement, KeepaliveEnds
  <1>7. ASSUME NEW i \in Wlans, SetAntenna(i) PROVE UNCHANGED vars
    BY <1>7 DEF SetAntenna
  <1>8. ASSUME NEW c \in Clients, ClientStep(c) \/ ClientSends(c) PROVE UNCHANGED vars
    BY <1>8 DEF ClientStep, ClientSends, Accept, Serve, WriteFails, ClientEnds
  <1>9. CASE UNCHANGED streamVars
    BY <1>5, <1>9 DEF streamVars
  <1> QED
    BY <1>2, <1>3, <1>4, <1>5, <1>6, <1>7, <1>8, <1>9, NextSteps DEF DataStep

LEMMA InjectedInit == StreamInit => InjectedInv
  <1> SUFFICES ASSUME StreamInit PROVE InjectedInv
    OBVIOUS
  <1>1. /\ sent = <<>> /\ flushed = <<>> /\ agg.stopped = FALSE /\ onAir = 0 /\ open = TRUE
        /\ service = "running"
    BY DEF StreamInit, Init
  <1> QED
    BY <1>1 DEF InjectedInv, CarriesAll

(* The injector is given the frames that are sent while it is open.        *)
LEMMA FramesReachInjector ==
  ASSUME DataStep
  PROVE  /\ \/ onAir' = IF open THEN Len(sent') ELSE onAir
            \/ onAir' = onAir /\ sent' = sent
         /\ open' = open
         /\ \/ service' = service /\ ~ FlushAggregator
            \/ service = "stopping" /\ service' = "flushed" /\ FlushAggregator
  <1>1. CASE InputLoop
    BY <1>1 DEF InputLoop, FramesSent, FlushAggregator
  <1>2. CASE Aggregates
    BY <1>2 DEF Aggregates, FramesSent, FlushAggregator
  <1>3. CASE FlushAggregator
    BY <1>3 DEF FlushAggregator, FramesSent
  <1>4. CASE ReaderEnds
    BY <1>4 DEF ReaderEnds, vars, historyVars, FlushAggregator
  <1>5. CASE Unpacks
    BY <1>5 DEF Unpacks, LeaveFrame, WritePacket, serviceVars, historyVars, FlushAggregator
  <1> QED
    BY <1>1, <1>2, <1>3, <1>4, <1>5 DEF DataStep

LEMMA StopStops ==
  ASSUME FlushAggregator, AggInv
  PROVE  agg'.stopped
  <1>1. Flush(agg) \in Aggregator /\ agg' = [Flush(agg) EXCEPT !.stopped = TRUE]
    BY FlushClears DEF FlushAggregator, Stop, AggInv
  <1> QED
    BY <1>1 DEF Aggregator

LEMMA NextKeepsInjected ==
  ASSUME AggInv, left \in Scenario, InjectedInv, [StreamNext]_streamVars
  PROVE  InjectedInv'
  <1>1. [Next]_vars
    BY StepOfAggregator
  <1>2. /\ sent' = sent \/ \E f \in Frame : sent' = Append(sent, f)
        /\ CarriesAll(sent', Len(sent'), flushed')
        /\ agg.stopped => agg'.stopped /\ added' = added
    BY <1>1, StepCarries DEF InjectedInv
  <1>3. sent \in Seq(Frame) /\ flushed \in Seq(Packet) /\ agg.stopped \in BOOLEAN
    BY DEF AggInv, AggTypeOK, Frame
  <1>4. PICK T : T = sent'
    OBVIOUS
  <1>5. T = sent \/ \E f \in Frame : T = Append(sent, f)
    BY <1>2, <1>4
  <1>6. /\ Len(sent) \in Nat /\ Len(T) \in Nat /\ Len(T) >= Len(sent)
    BY <1>3, <1>5
  <1>7. \A n \in 0 .. Len(sent) : \A ps : CarriesAll(sent, n, ps) => CarriesAll(T, n, ps)
    BY <1>3, <1>5, CarriesMore
  <1>8. ASSUME ~ open, open' = open, onAir' = onAir
        PROVE  /\ onAir' \in 0 .. Len(sent')
               /\ CarriesAll(sent', onAir', added')
    <2>1. agg.stopped /\ onAir \in 0 .. Len(sent) /\ CarriesAll(sent, onAir, added)
      BY <1>8 DEF InjectedInv
    <2>2. CarriesAll(T, onAir, added)
      BY <1>7, <2>1
    <2> QED
      BY <1>2, <1>4, <1>6, <1>8, <2>1, <2>2
  <1>9. CASE DataStep
    <2>1. open \/ onAir' = onAir
      BY <1>9, FramesReachInjector
    <2>2. /\ onAir' \in 0 .. Len(sent') /\ (open' => onAir' = Len(sent'))
          /\ ~ open' => CarriesAll(sent', onAir', added')
      BY <1>4, <1>6, <1>8, <1>9, <2>1, FramesReachInjector DEF InjectedInv
    <2>3. /\ open' <=> service' \notin {"waiting", "stopped"}
          /\ agg'.stopped <=> service' \notin {"running", "stopping"}
      <3>1. CASE FlushAggregator
        <4>1. service = "stopping" /\ service' = "flushed" /\ open' = open /\ agg'.stopped
          BY <1>9, <3>1, FramesReachInjector, StopStops DEF FlushAggregator
        <4> QED
          BY <4>1 DEF InjectedInv
      <3>2. CASE ~ FlushAggregator
        <4>1. service' = service /\ open' = open /\ agg'.stopped = agg.stopped
          BY <1>9, <3>2, FramesReachInjector, StillRunning
        <4> QED
          BY <4>1 DEF InjectedInv
      <3> QED
        BY <3>1, <3>2
    <2> QED
      BY <1>2, <2>2, <2>3 DEF InjectedInv
  <1>10. CASE UNCHANGED <<vars, onAir, open, service>>
    BY <1>10 DEF vars, InjectedInv
  <1>11. CASE AcceptEnds
    BY <1>10, <1>11 DEF AcceptEnds, historyVars
  <1>12. CASE BeginStop \/ CloseClients \/ Stopped
    <2>1. /\ UNCHANGED <<vars, onAir, open>>
          /\ <<service, service'>> \in {<<"running", "stopping">>, <<"flushed", "hungUp">>,
                                        <<"waiting", "stopped">>}
      BY <1>12 DEF BeginStop, CloseClients, Stopped, historyVars
    <2> QED
      BY <2>1 DEF vars, InjectedInv
  <1>13. CASE CloseInjector
    <2>1. /\ UNCHANGED <<vars, onAir>> /\ open' = FALSE
          /\ service = "hungUp" /\ service' = "waiting"
      BY <1>13 DEF CloseInjector, historyVars
    <2>2. agg.stopped /\ open /\ onAir = Len(sent)
      BY <2>1 DEF InjectedInv
    <2>3. added = flushed
      <3>1. agg.packets = <<>>
        BY <2>2 DEF AggInv, Cleared
      <3> QED
        BY <1>3, <3>1 DEF AggInv, FlushedInOrder
    <2> QED
      BY <2>1, <2>2, <2>3 DEF vars, InjectedInv
  <1>14. CASE Hear \/ Tick \/ Keepalives
    <2>1. UNCHANGED <<vars, onAir, open, service>>
      BY <1>14 DEF Hear, Tick, Keepalives, NothingToSend, SendKeepalive, ReadCurrent, SelectAll,
                   Broadcast, Restore, Decrement, KeepaliveEnds, historyVars
    <2> QED
      BY <1>10, <2>1
  <1>15. ASSUME NEW i \in Wlans, SetAntenna(i) PROVE InjectedInv'
    BY <1>10, <1>15 DEF SetAntenna
  <1>16. ASSUME NEW c \in Clients, ClientStep(c) \/ ClientSends(c) PROVE InjectedInv'
    <2>1. UNCHANGED <<vars, onAir, open, service>>
      BY <1>16 DEF ClientStep, ClientSends, Accept, Serve, WriteFails, ClientEnds, historyVars
    <2> QED
      BY <1>10, <2>1
  <1>17. CASE UNCHANGED streamVars
    BY <1>10, <1>17 DEF streamVars, serviceVars, historyVars
  <1> QED
    BY <1>9, <1>11, <1>12, <1>13, <1>14, <1>15, <1>16, <1>17, NextSteps DEF StopOnly

(* When the injector is closed, every packet the aggregator took has been  *)
(* given to it, whichever of the input loop, the timer and Stop flushed    *)
(* it; Stop closes nothing before.                                         *)
THEOREM StopInjectsAll == StreamSpec => []AcceptedAreInjected
  <1>1. StreamInit => LoopInv /\ AntennaInv /\ InjectedInv
    BY InitLoop, InitAntenna, InjectedInit
  <1>2. AggInv /\ LoopInv /\ AntennaInv /\ InjectedInv /\ [StreamNext]_streamVars
          => LoopInv' /\ AntennaInv' /\ InjectedInv'
    <2>1. AntennaInv => left \in Scenario
      BY DEF AntennaInv
    <2> QED
      BY <2>1, NextKeepsLoop, NextKeepsAntenna, NextKeepsInjected
  <1>3. InjectedInv => AcceptedAreInjected
    BY DEF InjectedInv, CarriesAll, Carries, AcceptedAreInjected
  <1> QED
    BY <1>1, <1>2, <1>3, AggInvariant, ServiceUsesAggregator, PTL DEF StreamSpec
=============================================================================
