----------------------------- MODULE MCReceiver -----------------------------
(* Small instances of WfbReceiver: every data packet of the first blocks   *)
(* of each session, in any order.                                          *)
EXTENDS WfbReceiver

CONSTANTS MCBlocks, MCFec     \* block numbers and <<k, n>> of each session

MCSessions == DOMAIN MCFec
MCk(s) == MCFec[s][1]
MCn(s) == MCFec[s][2]

MCThreeSessions == <<<<2, 4>>, <<2, 3>>, <<1, 2>>>>
MCThreeBlocks   == <<{0, 1, 3}, {0, 1}, {1}>>

(* The sessions' announcements, and two the receiver must refuse: one of   *)
(* an earlier epoch, one with more data fragments than fragments.          *)
MCAnnouncements ==
  {[sess |-> s, epoch |-> MinEpoch, k |-> MCk(s), n |-> MCn(s)] : s \in MCSessions}
  \cup {[sess |-> 9, epoch |-> 0, k |-> 1, n |-> 1],
        [sess |-> 9, epoch |-> MinEpoch, k |-> 2, n |-> 1]}

MCWord(s, b) == [f \in 0 .. MCk(s)-1 |-> Data(<<s, b, f>>)]

MCBody(s, b, f) == IF f < MCk(s) THEN MCWord(s, b)[f] ELSE Parity(MCWord(s, b))

MCDataPackets ==
  UNION {{[sess |-> s, blk |-> b, frag |-> f, body |-> MCBody(s, b, f)] :
            b \in MCBlocks[s], f \in 0 .. MCn(s)-1} : s \in MCSessions}

MCBodies == {Pad, Empty, Garbage} \cup {p.body : p \in MCDataPackets}

(* What is output is what the sender put in that position of the stream:   *)
(* the decoder's result too, whichever k fragments it was given            *)
(* (Reconstruct, Recover).                                                 *)
OutputIsSent ==
  \A i \in 1 .. Len(queued) :
    queued[i].body = MCBody(queued[i].sess, queued[i].blk, queued[i].frag)

(* Two scenarios: the first session's packets, without a session change,   *)
(* and the other two sessions, which may follow each other.                *)
Scenario == (session = 1 => session' = 1) /\ (session > 1 => session' # 1)

MCSpec == RxInit /\ [][RxNext /\ Scenario]_rxVars /\ RxFairness
=============================================================================
