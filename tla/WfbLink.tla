------------------------------ MODULE WfbLink ------------------------------
(***************************************************************************)
(* A transmitter and a receiver joined by the radio.  What was transmitted *)
(* stays in the air: the receiver may be handed any of it at any time, any *)
(* number of times and in any order, or never.  Several wlans, each with   *)
(* its own goroutine in front of ProcessPacket, do just that, and a frame  *)
(* that does not arrive is never handed over.                              *)
(***************************************************************************)
EXTENDS WfbAggregator, WfbTransmitter

linkVars == <<rxVars, txVars>>

LinkInit == TxInit /\ RxInit

Transmit == TxNext /\ UNCHANGED rxVars

ReceiveSession ==
  /\ \E a \in announced : ProcessSession(a) \/ RefuseSession(a)
  /\ UNCHANGED txVars

ReceiveData ==
  /\ \E p \in air : StartData(p) \/ RefuseData(p)
  /\ UNCHANGED txVars

ReceiverStep == (HandlerStep \/ OutputProcessor) /\ UNCHANGED txVars

LinkNext ==
  \/ Transmit
  \/ ReceiveSession
  \/ ReceiveData
  \/ ReceiverStep

LinkSpec == LinkInit /\ [][LinkNext]_linkVars
-----------------------------------------------------------------------------
(* The link keeps the stream's promise: decoding, early sends, flushes and *)
(* the output queue on one side, padding, parity, key rotation and SetFEC  *)
(* on the other, never reorder, repeat or invent a packet.                 *)
Stream == INSTANCE OrderedDelivery WITH
  offered  <- packets,
  restarts <- incarnation,
  log      <- [i \in 1 .. taken |-> [era |-> queued[i].inc,
                                     pkt |-> queued[i].body.pkt]]

ImplementsOrderedDelivery == Stream!Spec

(* What is output was given to SendPacket: the decoder's result in         *)
(* particular, whichever k fragments of a block it was given.              *)
OutputWasSent ==
  \A i \in 1 .. Len(queued) :
    queued[i].body \in {Data(j) : j \in 1 .. packets}

(* A session is taken up only after those generated before it: the session *)
(* packet carries an epoch to "Reject old sessions"                        *)
(* (pkg/protocol/README.md:47).                                            *)
OldSessionsRejected == [][session' >= session]_session
=============================================================================
