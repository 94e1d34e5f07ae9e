--------------------------- MODULE WfbTransmitter ---------------------------
(***************************************************************************)
(* The transmitter (pkg/tx/transmitter.go): packets fill the k data slots  *)
(* of a block, n-k parity fragments complete it, and the session key       *)
(* changes when the block numbers are used up or the FEC parameters        *)
(* change.  SendPacket, SendFECOnly, SetFEC, SendSessionKey and the        *)
(* goroutine of checkFECTimeout exclude each other by t.mu, and what they  *)
(* inject is never taken back, so each is one step that adds to `air'.     *)
(*                                                                         *)
(* The injector may fail on any fragment; the handler then returns with    *)
(* what it has changed so far.  In mirror mode injectAllLocked reports the *)
(* error of one wlan although the others have sent the frame: the fault    *)
(* is "leaky"; it is "silent" when nothing was sent.                       *)
(***************************************************************************)
EXTENDS WfbFragments

CONSTANTS
  Epoch,          \* Config.Epoch
  FecParams,      \* the <<k, n>> the transmitter may be configured with
  TxMaxBlockIdx,  \* MaxBlockIdx
  Faults,         \* how a failing Inject behaves
  MaxPackets,     \* bound: packets given to SendPacket
  MaxSessions,    \* bound: SetFEC only before this session
  MaxFaults       \* bound: failing calls of Inject

ASSUME TransmitterAssumption ==
  /\ Epoch \in Nat
  /\ FecParams # {}
  /\ \A p \in FecParams : /\ p \in (Nat \ {0}) \X (Nat \ {0})
                          /\ p[1] <= p[2]
  /\ TxMaxBlockIdx \in Nat
  /\ Faults \subseteq {"silent", "leaky"}
  /\ MaxPackets \in Nat
  /\ MaxSessions \in Nat \ {0}
  /\ MaxFaults \in Nat

VARIABLES
  txSess,     \* sessionKey: the how-manieth generated
  txK, txN,   \* fecK, fecN
  txBlk,      \* blockIdx
  txFrag,     \* fragmentIdx
  block,      \* the data slots of t.block; Empty where nothing was sent
  air,        \* every data fragment ever transmitted
  announced,  \* every session packet ever transmitted
  packets,    \* how many packets SendPacket was given (history)
  accepted,   \* those it returned no error for (history)
  failed      \* injections that failed

txVars == <<txSess, txK, txN, txBlk, txFrag, block, air, announced, packets,
            accepted, failed>>

EmptyBlock(k) == [f \in 0 .. k-1 |-> Empty]

Announcement(s, k, n) == [sess |-> s, epoch |-> Epoch, k |-> k, n |-> n]

(* New starts a session; nothing is announced yet.                         *)
TxInit ==
  /\ \E p \in FecParams : txK = p[1] /\ txN = p[2]
  /\ txSess = 1
  /\ txBlk = 0
  /\ txFrag = 0
  /\ block = EmptyBlock(txK)
  /\ air = {}
  /\ announced = {}
  /\ packets = 0
  /\ accepted = {}
  /\ failed = 0
-----------------------------------------------------------------------------
(***************************************************************************)
(* sendPacketWithFlagsLocked with the same body for the slots from txFrag  *)
(* to `upto': one call, or the loop of calls that closes a block.  When    *)
(* slot k-1 has been filled encodeFECAndSend fills the slots after `upto'. *)
(* After a failed parity injection txFrag is beyond the data slots, and    *)
(* the next body goes into a parity slot.                                  *)
(***************************************************************************)
Filled(body, upto) ==
  [f \in 0 .. txK-1 |-> IF f \in txFrag .. upto THEN body ELSE block[f]]

FillsBlock(upto) == upto + 1 >= txK

LastSlot(upto) == IF FillsBlock(upto) THEN txN - 1 ELSE upto

(* The fragments sent into the slots F.                                    *)
Fragments(body, upto, F) ==
  {[sess |-> txSess, blk |-> txBlk, frag |-> f,
    body |-> IF f <= upto THEN body ELSE Parity(Filled(body, upto))] : f \in F}

(* initSession, and the injection of the session packet, n-k+1 times after *)
(* a change of key: a fault may come before the first copy got out or      *)
(* after.                                                                  *)
InitSessionSameKey(k, n, s) ==
  /\ txK' = k
  /\ txN' = n
  /\ txBlk' = 0
  /\ txFrag' = 0
  /\ block' = EmptyBlock(k)
  /\ UNCHANGED txSess

InitSession(k, n, s) ==
  /\ txSess' = s
  /\ txK' = k
  /\ txN' = n
  /\ txBlk' = 0
  /\ txFrag' = 0
  /\ block' = EmptyBlock(k)

Announce(as) == announced' = announced \cup as /\ UNCHANGED failed

InjectFault ==
  /\ failed < MaxFaults
  /\ failed' = failed + 1

AnnounceFault(as, a, copies) ==
  /\ InjectFault
  /\ \/ /\ "silent" \in Faults
        /\ announced' = announced \cup as
     \/ /\ "leaky" \in Faults \/ (copies > 1 /\ Faults # {})
        /\ announced' = announced \cup as \cup {a}

(* The end of a block, with the key rotation.                              *)
Rotates == txBlk + 1 > TxMaxBlockIdx

NextBlockForgotten ==
  /\ txFrag' = 0
  /\ block' = EmptyBlock(txK)
  /\ UNCHANGED <<txSess, txK, txN, txBlk, announced, failed>>

NextBlock ==
  IF Rotates
    THEN LET a == Announcement(txSess + 1, txK, txN)
         IN  /\ InitSession(txK, txN, txSess + 1)
             /\ Announce({a}) \/ AnnounceFault({}, a, txN - txK + 1)
    ELSE /\ txBlk' = txBlk + 1
         /\ txFrag' = 0
         /\ block' = EmptyBlock(txK)
         /\ UNCHANGED <<txSess, txK, txN, announced, failed>>

Write(body, upto) ==
  /\ air' = air \cup Fragments(body, upto, txFrag .. LastSlot(upto))
  /\ IF FillsBlock(upto)
       THEN NextBlock
       ELSE /\ txFrag' = upto + 1
            /\ block' = Filled(body, upto)
            /\ UNCHANGED <<txSess, txK, txN, txBlk, announced, failed>>

(* The injection of slot g fails: fragmentIdx stays at g.                  *)
WriteFails(body, upto) ==
  \E g \in txFrag .. LastSlot(upto), type \in Faults :
    /\ InjectFault
    /\ air' = air \cup Fragments(body, upto,
                         txFrag .. (IF type = "leaky" THEN g ELSE g - 1))
    /\ txFrag' = g
    /\ block' = [f \in 0 .. txK-1 |->
                   IF f < g THEN Filled(body, upto)[f] ELSE Empty]
    /\ UNCHANGED <<txSess, txK, txN, txBlk, announced>>
-----------------------------------------------------------------------------
(* SendPacket with a payload, numbered by the call, or without one: the    *)
(* keepalive.                                                              *)
SendPacket ==
  /\ packets < MaxPackets
  /\ packets' = packets + 1
  /\ \/ /\ Write(Data(packets'), txFrag)
        /\ accepted' = IF failed' = failed THEN accepted \cup {packets'}
                                           ELSE accepted
     \/ /\ WriteFails(Data(packets'), txFrag)
        /\ UNCHANGED accepted

SendKeepalive ==
  /\ packets < MaxPackets
  /\ packets' = packets + 1
  /\ Write(Empty, txFrag) \/ WriteFails(Empty, txFrag)
  /\ UNCHANGED accepted

(* SendFECOnly: nothing to do when no block is open.                       *)
SendFECOnly ==
  /\ txFrag > 0
  /\ Write(Pad, txFrag) \/ WriteFails(Pad, txFrag)
  /\ UNCHANGED <<packets, accepted>>

(* The slot up to which FEC_ONLY packets are written to close the block.   *)
CloseUpto == IF txFrag < txK THEN txK - 1 ELSE txFrag

CheckFECTimeoutOffByOne ==
  /\ 1 < txFrag
  /\ txFrag < txK
  /\ Write(Pad, CloseUpto) \/ WriteFails(Pad, CloseUpto)
  /\ UNCHANGED <<packets, accepted>>

(* checkFECTimeout, after a timeout that may elapse at any time.           *)
CheckFECTimeout ==
  /\ 0 < txFrag
  /\ txFrag < txK
  /\ Write(Pad, CloseUpto) \/ WriteFails(Pad, CloseUpto)
  /\ UNCHANGED <<packets, accepted>>

(***************************************************************************)
(* SetFEC closes the open block, which may itself rotate the key, and      *)
(* starts a session with the new parameters.  An error while closing       *)
(* leaves the parameters as they were.                                     *)
(***************************************************************************)
SetFECDropsBlock(k, n) ==
  LET a == Announcement(txSess + 1, k, n)
  IN  /\ InitSession(k, n, txSess + 1)
      /\ Announce({a})
      /\ UNCHANGED air

SetFECRestart(k, n) ==
  LET closing == txFrag > 0
      rotated == closing /\ Rotates
      s       == IF rotated THEN txSess + 2 ELSE txSess + 1
      before  == IF rotated THEN {Announcement(txSess + 1, txK, txN)} ELSE {}
      a       == Announcement(s, k, n)
  IN  /\ air' = IF closing
                  THEN air \cup Fragments(Pad, CloseUpto, txFrag .. txN-1)
                  ELSE air
      /\ InitSession(k, n, s)
      /\ Announce(before \cup {a}) \/ AnnounceFault(before, a, n - k + 1)

SetFECFails ==
  /\ txFrag > 0
  /\ \/ WriteFails(Pad, CloseUpto)
     \/ Rotates /\ Write(Pad, CloseUpto) /\ failed' > failed

SetFEC ==
  /\ txSess < MaxSessions
  /\ \/ \E p \in FecParams : SetFECRestart(p[1], p[2])
     \/ SetFECFails
  /\ UNCHANGED <<packets, accepted>>

SendSessionKey ==
  LET a == Announcement(txSess, txK, txN)
  IN  /\ Announce({a}) \/ AnnounceFault({}, a, 1)
      /\ UNCHANGED <<txSess, txK, txN, txBlk, txFrag, block, air, packets,
                     accepted>>

TxNext ==
  \/ SendPacket
  \/ SendKeepalive
  \/ SendFECOnly
  \/ CheckFECTimeout
  \/ SetFEC
  \/ SendSessionKey

TxSpec == TxInit /\ [][TxNext]_txVars

(* fecTimeoutLoop's ticker keeps firing.                                   *)
TxFairSpec == TxSpec /\ WF_txVars(CheckFECTimeout)
-----------------------------------------------------------------------------
(* The types of the transmitter's variables.                               *)
TxTypeOK ==
  /\ txSess \in Nat \ {0}
  /\ <<txK, txN>> \in FecParams
  /\ txBlk \in 0 .. TxMaxBlockIdx
  /\ txFrag \in 0 .. txN-1
  /\ block \in [0 .. txK-1 -> Bodies]
  /\ \A p \in air : /\ p.sess \in 1 .. txSess
                    /\ p.blk \in 0 .. TxMaxBlockIdx
                    /\ p.frag \in Nat
                    /\ p.body \in Bodies
  /\ \A a \in announced : a.sess \in 1 .. txSess
  /\ packets \in 0 .. MaxPackets
  /\ accepted \subseteq 1 .. packets
  /\ failed \in 0 .. MaxFaults

(* No two different fragments are encrypted with the same nonce, which is  *)
(* (block << 8) | fragment, under the same session key: the key changes    *)
(* before block numbers repeat, a new session starts from block 0 only     *)
(* with a new key, and a slot is reused only if nothing was sent from it.  *)
NonceUnique ==
  \A p, q \in air :
    p.sess = q.sess /\ p.blk = q.blk /\ p.frag = q.frag => p.body = q.body

(* The blocks the transmitter has left behind in the current session, and  *)
(* those of previous sessions whose first fragment was sent.               *)
LeftBehind ==
  {<<p.sess, p.blk>> : p \in {q \in air : q.sess < txSess \/ q.blk < txBlk}}

FragmentsOf(s, b) == {p \in air : p.sess = s /\ p.blk = b}

(* Every block the transmitter has moved on from was transmitted whole:    *)
(* the k data fragments and n-k parity fragments of one code word, with    *)
(* the k and n announced for the session, also when it was closed by the   *)
(* timeout, by SetFEC or at the key rotation.  After a failed injection    *)
(* this is not so: the next packet may go into a parity slot.              *)
ClosedBlocksDecodable ==
  failed = 0 => \A sb \in LeftBehind : \E p \in FecParams :
    LET frags == FragmentsOf(sb[1], sb[2])
        word  == [f \in 0 .. p[1]-1 |->
                    (CHOOSE q \in frags : q.frag = f).body]
    IN  /\ {q.frag : q \in frags} = 0 .. p[2]-1
        /\ \A q \in frags :
             q.body = IF q.frag < p[1] THEN word[q.frag] ELSE Parity(word)
        /\ \A a \in announced : a.sess = sb[1] => <<a.k, a.n>> = p

(* A packet SendPacket returned no error for was sent, once, as a data     *)
(* fragment of the block it belongs to, as long as no injection has failed. *)
AcceptedInDataSlot ==
  failed = 0 => \A i \in accepted :
    Cardinality({p \in air :
       /\ p.body = Data(i)
       /\ \A q \in FragmentsOf(p.sess, p.blk) :
            q.body.kind = "parity" => p.frag < q.frag}) = 1

(* Packets are numbered in the order of their positions in the stream.     *)
StreamOrder ==
  \A p, q \in air :
    p.body.kind = "data" /\ q.body.kind = "data" /\ p.body.pkt < q.body.pkt =>
      \/ p.sess < q.sess
      \/ p.sess = q.sess /\ p.blk < q.blk
      \/ p.sess = q.sess /\ p.blk = q.blk /\ p.frag < q.frag

(* The stream on the air is the one that was accepted: in variables of     *)
(* their types, every packet in a data slot of its own, in order.          *)
TxInv == TxTypeOK /\ AcceptedInDataSlot /\ StreamOrder

(* An open block does not stay open: checkFECTimeout closes it, or the     *)
(* closing fails among the parity fragments, where the timeout does not    *)
(* look any more (transmitter.go:504).                                     *)
OpenBlockIsClosed ==
  \A b \in 0 .. TxMaxBlockIdx :
    (txBlk = b /\ 0 < txFrag /\ txFrag < txK) ~> (txFrag = 0 \/ txFrag >= txK)
=============================================================================
