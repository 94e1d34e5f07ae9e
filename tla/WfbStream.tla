------------------------------ MODULE WfbStream ------------------------------
(***************************************************************************)
(* A stream service with its goroutines (src/pkg/server/service_stream*.go) *)
(* on top of its packet aggregator: the input loop, the keepalive loop of  *)
(* a tunnel, the clients of a TCP peer, the antenna the server selects,    *)
(* and Stop.  They share the two activity counters, the list of clients,   *)
(* and the injector with the interface selected in it                      *)
(* (src/pkg/tx/rawsocket.go).                                              *)
(*                                                                         *)
(* Inside the transmitter nothing fails here (WfbTransmitter has that).    *)
(* The goroutine of the receiver is left out: WfbCapture says when Stop    *)
(* waits for it in vain.                                                   *)
(***************************************************************************)
EXTENDS PacketAggregator, Integers

CONSTANTS
  Wlans,      \* indices of the wlans; the first is 0
  Clients,    \* TCP clients
  Scenarios   \* what is configured and happens: records of Scenario

Scenario == [mirror : BOOLEAN, sizes : SUBSET Sizes,
             reads : Nat, ticks : Nat, switches : Nat, hears : Nat, clients : BOOLEAN]

ASSUME StreamAssumption ==
  /\ 0 \in Wlans /\ Wlans \subseteq Nat
  /\ \A s \in Scenarios : s \in Scenario /\ s.reads <= MaxReads
  /\ \A c \in Clients : c \notin {"listening", "done"}

VARIABLES
  left,      \* the scenario, with what is left of its budgets
  service,   \* StreamService.Stop: running, or how far it has come
  reader,    \* inputLoop: reading, done
  keepalive, \* keepaliveLoop: [pc, in, out, wlan], the last three its local variables
  sem,       \* [in, out]: pktInSem, pktOutSem
  wlan,      \* RawSocketInjector.currentWlan
  open,      \* its sockets are open
  acceptor,  \* tcpAcceptLoop: listening, done, or the client it was just given
  tcp,       \* each client: outside, accepted, served, closed (by us), ended
  listed,    \* tcpClients
  selected,  \* history: the antenna set last
  crossed,   \* history: it was set during a broadcast
  age,       \* history: [rx, tx, load]: ticks since a packet came, or went; the first when loaded
  onAir      \* history: how many frames of sent the injector was given while open

serviceVars == <<service, reader, keepalive, sem, wlan, open, acceptor, tcp, listed>>
historyVars == <<selected, crossed, age, onAir>>
streamVars == <<vars, left, serviceVars, historyVars>>

All == -1   \* mirror mode

(* Start, with its goroutines.                                              *)
StreamInit ==
  /\ Init
  /\ left \in Scenarios
  /\ service = "running" /\ reader = "reading"
  /\ keepalive = [pc |-> IF left.ticks > 0 THEN "wait" ELSE "done", in |-> 0, out |-> 0, wlan |-> 0]
  /\ sem = [in |-> 0, out |-> 0]
  /\ wlan = (IF left.mirror THEN All ELSE 0) /\ open = TRUE
  /\ acceptor = (IF left.clients THEN "listening" ELSE "done")
  /\ tcp = [c \in Clients |-> "outside"] /\ listed = {}
  /\ selected = 0 /\ crossed = FALSE
  /\ age = [rx |-> 3, tx |-> 0, load |-> 3] /\ onAir = 0

Spends(what) == left[what] > 0 /\ left' = [left EXCEPT ![what] = @ - 1]

-----------------------------------------------------------------------------
(***************************************************************************)
(* The injector                                                            *)
(***************************************************************************)
(* SelectInterface: an index without a socket is ignored.                   *)
Selected(i) == IF i = All \/ open THEN i ELSE wlan

(* Inject: on the interface selected, or on all.                            *)
Reached == IF ~open THEN {} ELSE IF wlan = All THEN Wlans ELSE {wlan}

(* Mutant: the counter is set as high as the one for received packets.      *)
SendToTXForTwo ==
  /\ sem' = [sem EXCEPT !.out = 2]
  /\ age' = IF Reached = {} THEN age ELSE [age EXCEPT !.tx = 0]

(* sendToTX: a packet is sent, and keepalives can wait.                     *)
SendToTX ==
  /\ sem' = [sem EXCEPT !.out = 1]
  /\ age' = IF Reached = {} THEN age ELSE [age EXCEPT !.tx = 0]

-----------------------------------------------------------------------------
(***************************************************************************)
(* Data                                                                    *)
(***************************************************************************)
(* Frames that went out reset the counter.                                  *)
FramesSent ==
  /\ IF sent' = sent THEN UNCHANGED <<sem, age>> ELSE SendToTX
  /\ onAir' = IF open THEN Len(sent') ELSE onAir

(* inputLoop: it looks for stopCh before each read, so it may read one     *)
(* more packet when Stop has begun.                                        *)
InputLoop ==
  /\ reader = "reading"
  /\ Spends("reads")
  /\ \E p \in [id : {read + 1}, size : left.sizes] : AddPacket(p) \/ RefusePacket(p)
  /\ reader' = IF service = "running" THEN "reading" ELSE "done"
  /\ FramesSent
  /\ UNCHANGED <<service, keepalive, wlan, open, acceptor, tcp, listed, selected, crossed>>

ReaderEnds ==
  /\ reader = "reading" /\ service # "running" /\ direct = <<>>
  /\ reader' = "done"
  /\ UNCHANGED <<vars, left, service, keepalive, sem, wlan, open, acceptor, tcp, listed,
                 historyVars>>

(* What the aggregator does besides, and the other end's unpacking.         *)
Aggregates ==
  /\ SendDirect \/ TimerFires \/ TimerCallback
  /\ FramesSent
  /\ UNCHANGED <<left, service, reader, keepalive, wlan, open, acceptor, tcp, listed,
                 selected, crossed>>

Unpacks ==
  /\ LeaveFrame \/ (WritePacket /\ frame <= onAir)
  /\ UNCHANGED <<left, serviceVars, historyVars>>

(* outputFn: a packet was received.                                         *)
Hear ==
  /\ service # "stopped" /\ Spends("hears")
  /\ sem' = [sem EXCEPT !.in = 2]
  /\ age' = [age EXCEPT !.rx = 0]
  /\ UNCHANGED <<vars, service, reader, keepalive, wlan, open, acceptor, tcp, listed,
                 selected, crossed, onAir>>

-----------------------------------------------------------------------------
(***************************************************************************)
(* The keepalive loop and the antenna                                      *)
(***************************************************************************)
Older(n) == IF n = 3 THEN 3 ELSE n + 1

(* A tick: both counters are loaded.                                        *)
Tick ==
  /\ keepalive.pc = "wait" /\ Spends("ticks")
  /\ keepalive' = [keepalive EXCEPT !.pc = "loaded", !.in = sem.in, !.out = sem.out]
  /\ age' = [rx |-> Older(age.rx), tx |-> Older(age.tx), load |-> Older(age.rx)]
  /\ UNCHANGED <<vars, service, reader, sem, wlan, open, acceptor, tcp, listed,
                 selected, crossed, onAir>>

(* Packets came and went: nothing to do.                                    *)
NothingToSend ==
  /\ keepalive.pc = "loaded" /\ keepalive.in > 0 /\ keepalive.out > 0
  /\ keepalive' = [keepalive EXCEPT !.pc = "decrement"]
  /\ UNCHANGED <<vars, left, service, reader, sem, wlan, open, acceptor, tcp, listed,
                 historyVars>>

(* An empty packet on the current antenna.                                  *)
SendKeepalive ==
  /\ keepalive.pc = "loaded" /\ keepalive.in > 0 /\ keepalive.out = 0
  /\ SendToTX
  /\ keepalive' = [keepalive EXCEPT !.pc = "decrement"]
  /\ UNCHANGED <<vars, left, service, reader, wlan, open, acceptor, tcp, listed,
                 selected, crossed, onAir>>

(* sendToAllTX takes the injector's lock four times.                        *)
ReadCurrent ==
  /\ keepalive.pc = "loaded" /\ keepalive.in = 0
  /\ keepalive' = [keepalive EXCEPT !.pc = "mirror", !.wlan = wlan]
  /\ UNCHANGED <<vars, left, service, reader, sem, wlan, open, acceptor, tcp, listed,
                 historyVars>>

SelectAll ==
  /\ keepalive.pc = "mirror"
  /\ wlan' = Selected(All)
  /\ keepalive' = [keepalive EXCEPT !.pc = "broadcast"]
  /\ UNCHANGED <<vars, left, service, reader, sem, open, acceptor, tcp, listed, historyVars>>

Broadcast ==
  /\ keepalive.pc = "broadcast"
  /\ keepalive' = [keepalive EXCEPT !.pc = "restore"]
  /\ age' = IF Reached = {} THEN age ELSE [age EXCEPT !.tx = 0]
  /\ UNCHANGED <<vars, left, service, reader, sem, wlan, open, acceptor, tcp, listed,
                 selected, crossed, onAir>>

(* Mutant: the interface in use is not restored.                            *)
NotRestored ==
  /\ keepalive.pc = "restore"
  /\ keepalive' = [keepalive EXCEPT !.pc = "decrement"]
  /\ UNCHANGED <<vars, left, service, reader, sem, wlan, open, acceptor, tcp, listed, historyVars>>

Restore ==
  /\ keepalive.pc = "restore"
  /\ wlan' = Selected(keepalive.wlan)
  /\ keepalive' = [keepalive EXCEPT !.pc = "decrement"]
  /\ UNCHANGED <<vars, left, service, reader, sem, open, acceptor, tcp, listed, historyVars>>

(* Mutant: what was loaded is stored, less one.                             *)
DecrementStores ==
  /\ keepalive.pc = "decrement"
  /\ sem' = [in  |-> IF keepalive.in > 0 THEN keepalive.in - 1 ELSE sem.in,
             out |-> IF keepalive.out > 0 THEN keepalive.out - 1 ELSE sem.out]
  /\ keepalive' = [keepalive EXCEPT !.pc = "wait"]
  /\ UNCHANGED <<vars, left, service, reader, wlan, open, acceptor, tcp, listed, historyVars>>

(* What was positive when loaded is decremented, whatever it is now.        *)
Decrement ==
  /\ keepalive.pc = "decrement"
  /\ sem' = [in  |-> IF keepalive.in > 0 THEN sem.in - 1 ELSE sem.in,
             out |-> IF keepalive.out > 0 THEN sem.out - 1 ELSE sem.out]
  /\ keepalive' = [keepalive EXCEPT !.pc = "wait"]
  /\ UNCHANGED <<vars, left, service, reader, wlan, open, acceptor, tcp, listed, historyVars>>

KeepaliveEnds ==
  /\ keepalive.pc = "wait" /\ service # "running"
  /\ keepalive' = [keepalive EXCEPT !.pc = "done"]
  /\ UNCHANGED <<vars, left, service, reader, sem, wlan, open, acceptor, tcp, listed,
                 historyVars>>

Keepalives ==
  NothingToSend \/ SendKeepalive \/ ReadCurrent \/ SelectAll \/ Broadcast \/ Restore
  \/ Decrement \/ KeepaliveEnds

Broadcasting == keepalive.pc \in {"mirror", "broadcast", "restore"}

(* SetAntenna, from the antenna selector's callback.                        *)
SetAntenna(i) ==
  /\ service # "stopped" /\ ~left.mirror /\ Spends("switches")
  /\ selected' = i /\ wlan' = Selected(i)
  /\ crossed' = Broadcasting
  /\ UNCHANGED <<vars, service, reader, keepalive, sem, open, acceptor, tcp, listed, age, onAir>>

-----------------------------------------------------------------------------
(***************************************************************************)
(* TCP clients                                                             *)
(***************************************************************************)
ListenerOpen == service \in {"running", "stopping", "flushed"}

(* Accept returns a connection.                                             *)
Accept(c) ==
  /\ acceptor = "listening" /\ ListenerOpen
  /\ tcp[c] = "outside"
  /\ acceptor' = c /\ tcp' = [tcp EXCEPT ![c] = "accepted"]
  /\ UNCHANGED <<vars, left, service, reader, keepalive, sem, wlan, open, listed, historyVars>>

(* Mutant: a client that comes while the service stops is left alone.       *)
ServeWhileRunning(c) ==
  /\ acceptor = c
  /\ acceptor' = "listening"
  /\ IF service # "running" THEN UNCHANGED <<tcp, listed>>
     ELSE tcp' = [tcp EXCEPT ![c] = "served"] /\ listed' = listed \union {c}
  /\ UNCHANGED <<vars, left, service, reader, keepalive, sem, wlan, open, historyVars>>

(* It is listed, and a goroutine serves it.                                 *)
Serve(c) ==
  /\ acceptor = c
  /\ acceptor' = "listening"
  /\ tcp' = [tcp EXCEPT ![c] = "served"] /\ listed' = listed \union {c}
  /\ UNCHANGED <<vars, left, service, reader, keepalive, sem, wlan, open, historyVars>>

AcceptEnds ==
  /\ acceptor = "listening" /\ service # "running"
  /\ acceptor' = "done"
  /\ UNCHANGED <<vars, left, service, reader, keepalive, sem, wlan, open, tcp, listed,
                 historyVars>>

(* writeToPeer: a client does not take a packet in time.                    *)
WriteFails(c) ==
  /\ c \in listed /\ tcp[c] = "served" /\ service # "stopped"
  /\ tcp' = [tcp EXCEPT ![c] = "closed"] /\ listed' = listed \ {c}
  /\ UNCHANGED <<vars, left, service, reader, keepalive, sem, wlan, open, acceptor, historyVars>>

(* tcpClientLoop: what a client sends goes past the aggregator.             *)
ClientSends(c) ==
  /\ tcp[c] = "served" /\ (age.tx # 0 \/ sem.out = 0)
  /\ SendToTX
  /\ UNCHANGED <<vars, left, service, reader, keepalive, wlan, open, acceptor, tcp, listed,
                 selected, crossed, onAir>>

(* Mutant: only the end of the connection ends it.                          *)
ClientEndsCutOff(c) ==
  /\ tcp[c] = "closed"
  /\ tcp' = [tcp EXCEPT ![c] = "ended"] /\ listed' = listed \ {c}
  /\ UNCHANGED <<vars, left, service, reader, keepalive, sem, wlan, open, acceptor, historyVars>>

(* It ends when the client hangs up, was cut off, or the service stops.     *)
ClientEnds(c) ==
  /\ tcp[c] \in {"served", "closed"}
  /\ tcp' = [tcp EXCEPT ![c] = "ended"] /\ listed' = listed \ {c}
  /\ UNCHANGED <<vars, left, service, reader, keepalive, sem, wlan, open, acceptor, historyVars>>

-----------------------------------------------------------------------------
(***************************************************************************)
(* Stop                                                                    *)
(***************************************************************************)
(* Mutant: the injector is closed first.                                    *)
BeginStopClosing ==
  /\ service = "running"
  /\ service' = "stopping" /\ open' = FALSE
  /\ UNCHANGED <<vars, left, reader, keepalive, sem, wlan, acceptor, tcp, listed, historyVars>>

(* stopCh is closed ...                                                     *)
BeginStop ==
  /\ service = "running"
  /\ service' = "stopping"
  /\ UNCHANGED <<vars, left, reader, keepalive, sem, wlan, open, acceptor, tcp, listed,
                 historyVars>>

(* ... cleanup: the aggregator is flushed first,                            *)
FlushAggregator ==
  /\ service = "stopping"
  /\ Stop
  /\ service' = "flushed"
  /\ FramesSent
  /\ UNCHANGED <<left, reader, keepalive, wlan, open, acceptor, tcp, listed, selected, crossed>>

(* the peer, the listener and the clients in the list, under the lock,      *)
CloseClients ==
  /\ service = "flushed"
  /\ service' = "hungUp"
  /\ tcp' = [c \in Clients |-> IF c \in listed THEN "closed" ELSE tcp[c]]
  /\ listed' = {}
  /\ UNCHANGED <<vars, left, reader, keepalive, sem, wlan, open, acceptor, historyVars>>

(* and the injector are closed.                                             *)
CloseInjector ==
  /\ service = "hungUp"
  /\ service' = "waiting"
  /\ open' = FALSE
  /\ UNCHANGED <<vars, left, reader, keepalive, sem, wlan, acceptor, tcp, listed, historyVars>>

(* wg.Wait.                                                                 *)
Stopped ==
  /\ service = "waiting"
  /\ reader = "done" /\ direct = <<>> /\ keepalive.pc = "done" /\ acceptor = "done"
  /\ \A c \in Clients : tcp[c] \notin {"served", "closed"}
  /\ service' = "stopped"
  /\ UNCHANGED <<vars, left, reader, keepalive, sem, wlan, open, acceptor, tcp, listed,
                 historyVars>>

StopStep == FlushAggregator \/ CloseClients \/ CloseInjector \/ Stopped

-----------------------------------------------------------------------------
StreamNext ==
  \/ InputLoop \/ ReaderEnds \/ Aggregates \/ Unpacks \/ Hear
  \/ Tick \/ Keepalives \/ (\E i \in Wlans : SetAntenna(i))
  \/ \E c \in Clients :
       Accept(c) \/ Serve(c) \/ WriteFails(c) \/ ClientSends(c) \/ ClientEnds(c)
  \/ AcceptEnds
  \/ BeginStop \/ StopStep

(* Goroutines run on; reads and accepts end within 100 ms; timers fire.     *)
StreamFairness ==
  /\ WF_streamVars(Aggregates /\ (TimerFires \/ TimerCallback))
  /\ WF_streamVars(Aggregates /\ SendDirect)
  /\ WF_streamVars(ReaderEnds) /\ WF_streamVars(Keepalives) /\ WF_streamVars(AcceptEnds)
  /\ \A c \in Clients : WF_streamVars(Serve(c)) /\ WF_streamVars(ClientEnds(c))
  /\ WF_streamVars(StopStep)

StreamSpec == StreamInit /\ [][StreamNext]_streamVars /\ StreamFairness

-----------------------------------------------------------------------------
(***************************************************************************)
(* Properties                                                              *)
(***************************************************************************)
(* The types.  The counters never go below zero, though they are read and  *)
(* decremented in two steps; and only clients that are served are listed.  *)
StreamTypeOK ==
  /\ service \in {"running", "stopping", "flushed", "hungUp", "waiting", "stopped"}
  /\ reader \in {"reading", "done"} /\ open \in BOOLEAN
  /\ sem \in [in : 0 .. 2, out : 0 .. 1]
  /\ wlan \in Wlans \union {All} /\ selected \in Wlans
  /\ acceptor \in Clients \union {"listening", "done"}
  /\ \A c \in listed : tcp[c] = "served"

(* A tunnel is never silent for more than one interval, whatever data is   *)
(* sent and received while the keepalive loop reads and decrements.        *)
NeverSilent == open /\ keepalive.pc \in {"wait", "decrement"} => age.tx <= 1

(* It broadcasts if nothing was received in the last two intervals, and    *)
(* only then.                                                              *)
BroadcastWhenDeaf ==
  /\ Broadcasting => age.load >= 2
  /\ keepalive.pc = "loaded" /\ age.load = 3 => keepalive.in = 0

(* After a broadcast the antenna is the one the server selected, and in    *)
(* mirror mode all; an antenna selected in the middle of it is forgotten,  *)
(* but the service does not stay in mirror mode.                           *)
AntennaRestored ==
  keepalive.pc \notin {"broadcast", "restore"} =>
    IF left.mirror THEN wlan = All
    ELSE wlan = selected \/ (crossed /\ wlan \in Wlans) \/ ~open

(* What the aggregator took of a peer that stopped writing was given to an *)
(* open injector: Stop flushes it in time.                                 *)
AcceptedAreInjected ==
  ~open => \A i \in DOMAIN added :
             \E f \in 1 .. onAir : \E j \in DOMAIN sent[f].packets : sent[f].packets[j] = added[i]

(* No connection is left open, whatever a client did while Stop ran.        *)
ClientsClosed ==
  service = "stopped" => listed = {} /\ \A c \in Clients : tcp[c] \in {"outside", "ended"}

(* The semaphore of each direction stays in its range, clients are served  *)
(* as long as they are listed, and none is left behind by Stop.            *)
StreamInv == StreamTypeOK /\ ClientsClosed

(* Stop returns.                                                            *)
StopEnds == service = "stopping" ~> service = "stopped"
=============================================================================
