--------------------------- MODULE OrderedDelivery ---------------------------
(***************************************************************************)
(* What a stream promises its user: the packets that come out are packets  *)
(* that went in, in the order they went in, none of them twice; any of     *)
(* them may be missing.  The promise starts afresh when the receiver takes *)
(* up another session key: what is output then may have been output        *)
(* before.                                                                 *)
(***************************************************************************)
EXTENDS Integers, Sequences

VARIABLES
  offered,    \* how many packets the sender was given: 1 .. offered
  restarts,   \* how often the receiver changed the session
  log         \* what it has output: [era, pkt], era being a restart

vars == <<offered, restarts, log>>

Init ==
  /\ offered = 0
  /\ restarts = 0
  /\ log = <<>>

Offer ==
  /\ offered' = offered + 1
  /\ UNCHANGED <<restarts, log>>

Restart ==
  /\ restarts' = restarts + 1
  /\ UNCHANGED <<offered, log>>

Later(e, f) == e.era < f.era \/ (e.era = f.era /\ e.pkt < f.pkt)

Deliver ==
  /\ \E e \in [era : 0 .. restarts, pkt : 1 .. offered] :
       /\ log # <<>> => Later(log[Len(log)], e)
       /\ log' = Append(log, e)
  /\ UNCHANGED <<offered, restarts>>

Next == Offer \/ Restart \/ Deliver

Spec == Init /\ [][Next]_vars
=============================================================================
