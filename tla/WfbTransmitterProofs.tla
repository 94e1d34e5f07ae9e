------------------------ MODULE WfbTransmitterProofs ------------------------
(***************************************************************************)
(* The transmitter's promises, for all FEC parameters, block counts and    *)
(* interleavings of its callers.                                           *)
(*                                                                         *)
(* The transmitter never encrypts two fragments under one key and nonce,   *)
(* for all faults that transmit nothing.  NonceInv says that everything    *)
(* on the air lies before the position it writes to next.                  *)
(*                                                                         *)
(* Packets go on the air once and in order: OrderInv bounds the numbers    *)
(* there by those given to SendPacket, so that a new one is the last.      *)
(*                                                                         *)
(* A block is sent whole before the transmitter moves on: BlocksInv        *)
(* relates the open block's slots to the fragments of it on the air, so    *)
(* that the parity that closes it is that of the word which was sent.      *)
(***************************************************************************)
EXTENDS WfbTransmitter, FiniteSetTheorems, TLAPS

USE TransmitterAssumption

(* Everything transmitted lies before the position (session, block, slot). *)
AirBefore(A, s, b, f) ==
  \A p \in A :
    \/ p.sess < s
    \/ p.sess = s /\ p.blk < b
    \/ p.sess = s /\ p.blk = b /\ p.frag < f

Unique(A) ==
  \A p, q \in A :
    p.sess = q.sess /\ p.blk = q.blk /\ p.frag = q.frag => p.body = q.body

TxNumbers ==
  /\ txSess \in Nat
  /\ txK \in Nat \ {0} /\ txN \in Nat \ {0} /\ txK <= txN
  /\ txBlk \in Nat
  /\ txFrag \in 0 .. txN-1
  /\ \A p \in air : p.sess \in Nat /\ p.blk \in Nat /\ p.frag \in Nat

NonceInv ==
  /\ TxNumbers
  /\ AirBefore(air, txSess, txBlk, txFrag)
  /\ Unique(air)

LEMMA NonceInit == TxInit => NonceInv
<1> SUFFICES ASSUME TxInit PROVE NonceInv
  OBVIOUS
<1>1. PICK p \in FecParams : txK = p[1] /\ txN = p[2]
  BY DEF TxInit
<1>2. txK \in Nat \ {0} /\ txN \in Nat \ {0} /\ txK <= txN
  BY <1>1
<1>3. txSess = 1 /\ txBlk = 0 /\ txFrag = 0 /\ air = {}
  BY DEF TxInit
<1> QED
  BY <1>2, <1>3 DEF NonceInv, TxNumbers, AirBefore, Unique

(* Sending the slots from the current position up to h keeps nonces apart. *)
LEMMA SendSlots ==
  ASSUME NonceInv, NEW body, NEW upto \in Int, NEW h \in Int, h >= txFrag - 1,
         NEW A, A = air \cup Fragments(body, upto, txFrag .. h)
  PROVE  /\ Unique(A)
         /\ \A p \in A : p.sess \in Nat /\ p.blk \in Nat /\ p.frag \in Nat
         /\ AirBefore(A, txSess, txBlk, h + 1)
<1> DEFINE New == Fragments(body, upto, txFrag .. h)
<1>1. /\ txSess \in Nat /\ txBlk \in Nat /\ txFrag \in Nat
      /\ \A p \in air : p.sess \in Nat /\ p.blk \in Nat /\ p.frag \in Nat
      /\ AirBefore(air, txSess, txBlk, txFrag) /\ Unique(air)
  BY DEF NonceInv, TxNumbers
<1>2. \A p \in New : /\ p.sess = txSess /\ p.blk = txBlk
                     /\ p.frag \in txFrag .. h
                     /\ p.body = IF p.frag <= upto THEN body
                                 ELSE Parity(Filled(body, upto))
  BY DEF Fragments
<1> HIDE DEF New
<1>3. A = air \cup New
  BY DEF New
<1>4. ASSUME NEW p \in air, NEW q \in New
      PROVE  ~(p.sess = q.sess /\ p.blk = q.blk /\ p.frag = q.frag)
  <2>1. /\ p.sess \in Nat /\ p.blk \in Nat /\ p.frag \in Nat
        /\ \/ p.sess < txSess
           \/ p.sess = txSess /\ p.blk < txBlk
           \/ p.sess = txSess /\ p.blk = txBlk /\ p.frag < txFrag
    BY <1>1 DEF AirBefore
  <2>2. q.sess = txSess /\ q.blk = txBlk /\ q.frag \in txFrag .. h
    BY <1>2
  <2> QED
    BY <1>1, <2>1, <2>2
<1>5. Unique(New)
  BY <1>2 DEF Unique
<1>6. Unique(A)
  BY <1>1, <1>3, <1>4, <1>5 DEF Unique
<1>7. \A p \in A : p.sess \in Nat /\ p.blk \in Nat /\ p.frag \in Nat
  BY <1>1, <1>2, <1>3
<1>8. AirBefore(A, txSess, txBlk, h + 1)
  <2>1. ASSUME NEW p \in air
        PROVE  \/ p.sess < txSess
               \/ p.sess = txSess /\ p.blk < txBlk
               \/ p.sess = txSess /\ p.blk = txBlk /\ p.frag < h + 1
    BY <1>1 DEF AirBefore
  <2>2. ASSUME NEW p \in New
        PROVE  p.sess = txSess /\ p.blk = txBlk /\ p.frag < h + 1
    BY <1>2
  <2> QED
    BY <1>3, <2>1, <2>2 DEF AirBefore
<1> QED
  BY <1>6, <1>7, <1>8

(* A later position is a later bound.                                      *)
LEMMA LaterPosition ==
  ASSUME NEW A, NEW s \in Nat, NEW b \in Nat, NEW f, NEW t \in Nat, NEW c \in Nat,
         \A p \in A : p.sess \in Nat /\ p.blk \in Nat /\ p.frag \in Nat,
         AirBefore(A, s, b, f),
         s < t \/ (s = t /\ b < c)
  PROVE  AirBefore(A, t, c, 0)
<1>1. ASSUME NEW p \in A
      PROVE  p.sess < t \/ (p.sess = t /\ p.blk < c)
  BY DEF AirBefore
<1> QED
  BY <1>1 DEF AirBefore

LEMMA SlotBounds ==
  ASSUME NonceInv, NEW upto \in Int, upto = txFrag \/ upto = CloseUpto
  PROVE  /\ upto >= txFrag /\ upto <= txN - 1
         /\ LastSlot(upto) \in Int
         /\ LastSlot(upto) >= txFrag /\ LastSlot(upto) <= txN - 1
         /\ ~FillsBlock(upto) => LastSlot(upto) = upto /\ upto + 1 <= txN - 1
  BY DEF NonceInv, TxNumbers, CloseUpto, LastSlot, FillsBlock

(* initSession: a new key, and positions start over.                       *)
LEMMA NewKey ==
  ASSUME NonceInv, NEW k \in Nat \ {0}, NEW n \in Nat \ {0}, k <= n,
         NEW s \in Nat, s > txSess, InitSession(k, n, s),
         NEW h, AirBefore(air', txSess, txBlk, h), Unique(air'),
         \A p \in air' : p.sess \in Nat /\ p.blk \in Nat /\ p.frag \in Nat
  PROVE  NonceInv'
<1>1. /\ txSess' = s /\ txK' = k /\ txN' = n /\ txBlk' = 0 /\ txFrag' = 0
  BY DEF InitSession
<1>2. txSess \in Nat /\ txBlk \in Nat
  BY DEF NonceInv, TxNumbers
<1>3. AirBefore(air', txSess', txBlk', txFrag')
  BY <1>1, <1>2, LaterPosition
<1> QED
  BY <1>1, <1>3 DEF NonceInv, TxNumbers

LEMMA NonceWrite ==
  ASSUME NonceInv, NEW body, NEW upto \in Int,
         upto = txFrag \/ upto = CloseUpto,
         Write(body, upto)
  PROVE  NonceInv'
<1> DEFINE h == LastSlot(upto)
<1>1. /\ h \in Int /\ h >= txFrag /\ h <= txN - 1
      /\ ~FillsBlock(upto) => h = upto /\ upto + 1 <= txN - 1
  BY SlotBounds
<1>2. /\ txSess \in Nat /\ txBlk \in Nat /\ txFrag \in Nat
      /\ txK \in Nat \ {0} /\ txN \in Nat \ {0} /\ txK <= txN
  BY DEF NonceInv, TxNumbers
<1>3. /\ Unique(air')
      /\ \A p \in air' : p.sess \in Nat /\ p.blk \in Nat /\ p.frag \in Nat
      /\ AirBefore(air', txSess, txBlk, h + 1)
  <2>1. air' = air \cup Fragments(body, upto, txFrag .. h)
    BY DEF Write
  <2>2. h >= txFrag - 1
    BY <1>1, <1>2
  <2> QED
    BY <1>1, <2>1, <2>2, SendSlots
<1>4. CASE FillsBlock(upto) /\ Rotates
  <2>1. InitSession(txK, txN, txSess + 1)
    BY <1>4 DEF Write, NextBlock
  <2> QED
    BY <1>2, <1>3, <2>1, NewKey
<1>5. CASE FillsBlock(upto) /\ ~Rotates
  <2>1. txBlk' = txBlk + 1 /\ txFrag' = 0 /\ UNCHANGED <<txSess, txK, txN>>
    BY <1>5 DEF Write, NextBlock
  <2>2. AirBefore(air', txSess', txBlk', txFrag')
    BY <1>2, <1>3, <2>1, LaterPosition
  <2> QED
    BY <1>2, <1>3, <2>1, <2>2 DEF NonceInv, TxNumbers
<1>6. CASE ~FillsBlock(upto)
  <2>1. txFrag' = h + 1 /\ UNCHANGED <<txSess, txK, txN, txBlk>>
    BY <1>1, <1>6 DEF Write
  <2>2. AirBefore(air', txSess', txBlk', txFrag')
    BY <1>3, <2>1
  <2>3. txFrag' \in 0 .. txN-1
    BY <1>1, <1>2, <1>6, <2>1
  <2> QED
    BY <1>2, <1>3, <2>1, <2>2, <2>3 DEF NonceInv, TxNumbers
<1> QED
  BY <1>4, <1>5, <1>6

LEMMA NonceWriteFails ==
  ASSUME "leaky" \notin Faults, NonceInv, NEW body, NEW upto \in Int,
         upto = txFrag \/ upto = CloseUpto,
         WriteFails(body, upto)
  PROVE  NonceInv'
<1>1. PICK g \in txFrag .. LastSlot(upto) :
        /\ air' = air \cup Fragments(body, upto, txFrag .. g - 1)
        /\ txFrag' = g
        /\ UNCHANGED <<txSess, txK, txN, txBlk>>
  BY DEF WriteFails
<1>2. /\ txSess \in Nat /\ txBlk \in Nat /\ txFrag \in Nat
      /\ txK \in Nat \ {0} /\ txN \in Nat \ {0} /\ txK <= txN
  BY DEF NonceInv, TxNumbers
<1>3. g \in Int /\ g - 1 \in Int /\ g - 1 >= txFrag - 1 /\ g <= txN - 1 /\ (g - 1) + 1 = g
  BY <1>1, <1>2, SlotBounds
<1>4. /\ Unique(air')
      /\ \A p \in air' : p.sess \in Nat /\ p.blk \in Nat /\ p.frag \in Nat
      /\ AirBefore(air', txSess, txBlk, (g - 1) + 1)
  BY <1>1, <1>3, SendSlots
<1>5. AirBefore(air', txSess', txBlk', txFrag')
  BY <1>1, <1>3, <1>4
<1> QED
  BY <1>1, <1>2, <1>3, <1>4, <1>5 DEF NonceInv, TxNumbers

LEMMA NonceSetFEC ==
  ASSUME NonceInv, NEW p \in FecParams, SetFECRestart(p[1], p[2])
  PROVE  NonceInv'
<1>1. p[1] \in Nat \ {0} /\ p[2] \in Nat \ {0} /\ p[1] <= p[2]
  OBVIOUS
<1>2. /\ txSess \in Nat /\ txBlk \in Nat /\ txFrag \in Nat
      /\ txN \in Nat /\ txFrag <= txN - 1
  BY DEF NonceInv, TxNumbers
<1>3. PICK s \in {txSess + 1, txSess + 2} : InitSession(p[1], p[2], s)
  BY DEF SetFECRestart
<1>4. CASE txFrag > 0
  <2>1. air' = air \cup Fragments(Pad, CloseUpto, txFrag .. txN-1)
    BY <1>4 DEF SetFECRestart
  <2>2. CloseUpto \in Int
    BY <1>2 DEF NonceInv, TxNumbers, CloseUpto
  <2>3. txN-1 \in Int /\ txN-1 >= txFrag - 1
    BY <1>2
  <2>4. /\ Unique(air')
        /\ \A q \in air' : q.sess \in Nat /\ q.blk \in Nat /\ q.frag \in Nat
        /\ AirBefore(air', txSess, txBlk, (txN-1) + 1)
    BY <2>1, <2>2, <2>3, SendSlots
  <2> QED
    BY <1>1, <1>2, <1>3, <2>4, NewKey
<1>5. CASE ~(txFrag > 0)
  <2>1. air' = air
    BY <1>5 DEF SetFECRestart
  <2>2. /\ Unique(air')
        /\ \A q \in air' : q.sess \in Nat /\ q.blk \in Nat /\ q.frag \in Nat
        /\ AirBefore(air', txSess, txBlk, txFrag)
    BY <2>1 DEF NonceInv, TxNumbers
  <2> QED
    BY <1>1, <1>2, <1>3, <2>2, NewKey
<1> QED
  BY <1>4, <1>5

LEMMA NonceNext ==
  ASSUME "leaky" \notin Faults, NonceInv, [TxNext]_txVars
  PROVE  NonceInv'
<1>1. txFrag \in Int /\ CloseUpto \in Int
  BY DEF NonceInv, TxNumbers, CloseUpto
<1>2. CASE SendPacket
  BY <1>1, <1>2, NonceWrite, NonceWriteFails DEF SendPacket
<1>3. CASE SendKeepalive
  BY <1>1, <1>3, NonceWrite, NonceWriteFails DEF SendKeepalive
<1>4. CASE SendFECOnly
  BY <1>1, <1>4, NonceWrite, NonceWriteFails DEF SendFECOnly
<1>5. CASE CheckFECTimeout
  BY <1>1, <1>5, NonceWrite, NonceWriteFails DEF CheckFECTimeout
<1>6. CASE SetFEC
  BY <1>1, <1>6, NonceWrite, NonceWriteFails, NonceSetFEC
     DEF SetFEC, SetFECFails
<1>7. CASE SendSessionKey
  BY <1>7 DEF SendSessionKey, NonceInv, TxNumbers
<1>8. CASE UNCHANGED txVars
  BY <1>8 DEF txVars, NonceInv, TxNumbers
<1> QED
  BY <1>2, <1>3, <1>4, <1>5, <1>6, <1>7, <1>8 DEF TxNext

(* No key and nonce pair encrypts two different fragments, as long as an   *)
(* injection that reports an error has transmitted nothing: the slot whose *)
(* injection failed is then the only position used twice.                  *)
THEOREM NoncesUnique ==
  ASSUME "leaky" \notin Faults
  PROVE  TxSpec => []NonceUnique
<1>1. NonceInv /\ [TxNext]_txVars => NonceInv'
  BY NonceNext
<1>2. NonceInv => NonceUnique
  BY DEF NonceInv, Unique, NonceUnique
<1> QED
  BY <1>1, <1>2, NonceInit, PTL DEF TxSpec

-----------------------------------------------------------------------------
(***************************************************************************)
(* The stream of packets.  A packet's number is used once, and it goes to  *)
(* the next position.                                                      *)
(***************************************************************************)
(* What a data slot may carry.                                             *)
Shards == {Empty, Pad} \cup {Data(i) : i \in 1 .. MaxPackets}

(* Bodies holds what the transmitter can send: it stands for all bytes.    *)
BodiesCover ==
  /\ Shards \subseteq Bodies
  /\ \A p \in FecParams : \A w \in [0 .. p[1]-1 -> Shards] : Parity(w) \in Bodies

SentTypes ==
  /\ <<txK, txN>> \in FecParams
  /\ txSess >= 1 /\ txBlk <= TxMaxBlockIdx
  /\ block \in [0 .. txK-1 -> Shards]
  /\ \A p \in air : /\ p.sess \in 1 .. txSess /\ p.blk \in 0 .. TxMaxBlockIdx
                    /\ p.body \in Bodies
  /\ \A a \in announced : a.sess \in 1 .. txSess
  /\ failed \in 0 .. MaxFaults

TypesInv == /\ SentTypes
            /\ packets \in 0 .. MaxPackets /\ accepted \subseteq 1 .. packets

(* A data fragment carries the number of a packet given so far, and two    *)
(* with the same number are the same fragment.                             *)
DataNumbered(A, n) == \A p \in A : p.body.kind = "data" => p.body.pkt \in 1 .. n

SentOnce(A) ==
  \A p, q \in A :
    p.body.kind = "data" /\ q.body.kind = "data" /\ p.body.pkt = q.body.pkt => p = q

InOrder(A) ==
  \A p, q \in A :
    p.body.kind = "data" /\ q.body.kind = "data" /\ p.body.pkt < q.body.pkt =>
      \/ p.sess < q.sess
      \/ p.sess = q.sess /\ p.blk < q.blk
      \/ p.sess = q.sess /\ p.blk = q.blk /\ p.frag < q.frag

OrderInv ==
  /\ DataNumbered(air, packets) /\ SentOnce(air) /\ InOrder(air)
  /\ \A i \in accepted : \E p \in air : p.body = Data(i)

(***************************************************************************)
(* Whole blocks, as long as no injection has failed.                       *)
(***************************************************************************)
BlockIs(A, s, b, k, n, w) ==
  /\ \A p \in A : p.sess = s /\ p.blk = b =>
       /\ p.frag \in 0 .. n-1
       /\ p.body = IF p.frag < k THEN w[p.frag] ELSE Parity(w)
  /\ \A f \in 0 .. n-1 : \E p \in A : p.sess = s /\ p.blk = b /\ p.frag = f

(* (s,b) was sent whole, with the parameters announced for the session,    *)
(* which are still in force if it is the current one.                      *)
SentWhole(A, s, b, as, cur, ck, cn) ==
  \E p \in FecParams : \E w \in [0 .. p[1]-1 -> Shards] :
    /\ BlockIs(A, s, b, p[1], p[2], w)
    /\ \A a \in as : a.sess = s => <<a.k, a.n>> = p
    /\ s = cur => <<ck, cn>> = p

(* The slots filled in the open block hold what was sent.                  *)
OpenBlock(A, s, b, fr, bl) ==
  /\ \A p \in A : p.sess = s /\ p.blk = b => p.frag \in 0 .. fr-1 /\ p.body = bl[p.frag]
  /\ \A f \in 0 .. fr-1 : \E p \in A : p.sess = s /\ p.blk = b /\ p.frag = f

BlocksInv ==
  /\ txFrag < txK
  /\ OpenBlock(air, txSess, txBlk, txFrag, block)
  /\ \A p \in air : p.sess < txSess \/ p.blk < txBlk =>
       SentWhole(air, p.sess, p.blk, announced, txSess, txK, txN)
  /\ \A a \in announced : a.sess = txSess => <<a.k, a.n>> = <<txK, txN>>

UnfailedInv == failed = 0 => NonceInv /\ TypesInv /\ OrderInv /\ BlocksInv

StreamInv == NonceInv /\ TypesInv /\ OrderInv

-----------------------------------------------------------------------------
LEMMA TxFacts ==
  ASSUME NonceInv
  PROVE  /\ txSess \in Nat /\ txBlk \in Nat /\ txFrag \in Nat
         /\ txK \in Nat \ {0} /\ txN \in Nat \ {0} /\ txK <= txN /\ txFrag <= txN - 1
         /\ CloseUpto \in Nat /\ CloseUpto >= txFrag
         /\ AirBefore(air, txSess, txBlk, txFrag)
         /\ \A p \in air : p.sess \in Nat /\ p.blk \in Nat /\ p.frag \in Nat
  BY DEF NonceInv, TxNumbers, CloseUpto

(* Shards carry a packet or nothing; parity is neither.                    *)
LEMMA ShardKinds ==
  /\ Empty \in Shards /\ Pad \in Shards
  /\ Empty.kind # "data" /\ Pad.kind # "data"
  /\ \A b \in Shards : b.kind # "parity"
  /\ \A w : Parity(w).kind = "parity"
  /\ \A i : Data(i).kind = "data" /\ Data(i).pkt = i
  BY DEF Shards, Empty, Pad, Data, Parity

LEMMA FilledWord ==
  ASSUME NonceInv, SentTypes, NEW body \in Shards, NEW upto
  PROVE  /\ Filled(body, upto) \in [0 .. txK-1 -> Shards]
         /\ \A f \in 0 .. txK-1 : Filled(body, upto)[f] =
              IF f \in txFrag .. upto THEN body ELSE block[f]
  BY DEF SentTypes, Filled

(* The fragments an injection adds.                                        *)
LEMMA NewFragments ==
  ASSUME NonceInv, SentTypes, BodiesCover, NEW body \in Shards, NEW upto, NEW F
  PROVE  \A p \in Fragments(body, upto, F) :
           /\ p.sess = txSess /\ p.blk = txBlk /\ p.frag \in F
           /\ p.body \in Bodies
           /\ p.body = IF p.frag <= upto THEN body ELSE Parity(Filled(body, upto))
  <1>1. Filled(body, upto) \in [0 .. txK-1 -> Shards]
    BY FilledWord
  <1>2. Parity(Filled(body, upto)) \in Bodies /\ body \in Bodies
    <2>1. <<txK, txN>> \in FecParams /\ <<txK, txN>>[1] = txK
      BY DEF SentTypes
    <2> QED
      BY <1>1, <2>1 DEF BodiesCover
  <1> QED
    BY <1>2 DEF Fragments

LEMMA SentBodies ==
  ASSUME NonceInv, SentTypes, BodiesCover, NEW body \in Shards, NEW upto, NEW F,
         NEW A, A = air \cup Fragments(body, upto, F)
  PROVE  \A p \in A : /\ p.sess \in 1 .. txSess /\ p.blk \in 0 .. TxMaxBlockIdx
                      /\ p.body \in Bodies
  <1>1. txSess \in 1 .. txSess /\ txBlk \in 0 .. TxMaxBlockIdx
    BY TxFacts DEF SentTypes
  <1>2. \A p \in Fragments(body, upto, F) :
          p.sess = txSess /\ p.blk = txBlk /\ p.body \in Bodies
    BY NewFragments
  <1> QED
    BY <1>1, <1>2 DEF SentTypes

-----------------------------------------------------------------------------
(* Types.                                                                  *)
LEMMA SessionTypes ==
  ASSUME NonceInv, SentTypes, NEW p \in FecParams, NEW s \in Nat, s > txSess,
         InitSession(p[1], p[2], s), failed' \in 0 .. MaxFaults,
         \A a \in announced' : a \in announced \/ a.sess \in 1 .. s,
         \A q \in air' : /\ q.sess \in 1 .. txSess /\ q.blk \in 0 .. TxMaxBlockIdx
                         /\ q.body \in Bodies
  PROVE  SentTypes'
  <1>1. /\ txSess' = s /\ txK' = p[1] /\ txN' = p[2] /\ txBlk' = 0 /\ txFrag' = 0
        /\ block' = EmptyBlock(p[1])
    BY DEF InitSession
  <1>2. <<p[1], p[2]>> \in FecParams /\ EmptyBlock(p[1]) \in [0 .. p[1]-1 -> Shards]
    <2>1. p = <<p[1], p[2]>>
      OBVIOUS
    <2> QED
      BY <2>1, ShardKinds DEF EmptyBlock
  <1>3. /\ \A q \in air' : q.sess \in 1 .. s
        /\ \A a \in announced' : a.sess \in 1 .. s
    <2>1. \A i \in 1 .. txSess : i \in 1 .. s
      BY TxFacts
    <2>2. \A a \in announced : a.sess \in 1 .. txSess
      BY DEF SentTypes
    <2> QED
      BY <2>1, <2>2
  <1>4. <<txK', txN'>> \in FecParams /\ block' \in [0 .. txK'-1 -> Shards]
    BY <1>1, <1>2
  <1>5. txSess' >= 1 /\ txBlk' <= TxMaxBlockIdx
    BY <1>1, TxFacts
  <1> QED
    BY <1>1, <1>3, <1>4, <1>5 DEF SentTypes

LEMMA FailedCount ==
  ASSUME SentTypes, failed' = failed \/ InjectFault
  PROVE  failed' \in 0 .. MaxFaults
  BY DEF SentTypes, InjectFault

LEMMA WriteTypes ==
  ASSUME NonceInv, SentTypes, BodiesCover, NEW body \in Shards, NEW upto \in Int,
         upto = txFrag \/ upto = CloseUpto, Write(body, upto)
  PROVE  SentTypes'
  <1>1. \A p \in air' : /\ p.sess \in 1 .. txSess /\ p.blk \in 0 .. TxMaxBlockIdx
                        /\ p.body \in Bodies
    BY SentBodies DEF Write
  <1>2. CASE FillsBlock(upto) /\ Rotates
    <2> DEFINE a == Announcement(txSess + 1, txK, txN)
    <2>1. /\ InitSession(txK, txN, txSess + 1)
          /\ Announce({a}) \/ AnnounceFault({}, a, txN - txK + 1)
      BY <1>2 DEF Write, NextBlock
    <2>2. a.sess \in 1 .. txSess + 1
      BY TxFacts DEF Announcement
    <2> HIDE DEF a
    <2>3. \A b \in announced' : b \in announced \/ b.sess \in 1 .. txSess + 1
      BY <2>1, <2>2 DEF Announce, AnnounceFault
    <2>4. failed' \in 0 .. MaxFaults
      BY <2>1, FailedCount DEF Announce, AnnounceFault
    <2>5. /\ <<txK, txN>> \in FecParams /\ <<txK, txN>>[1] = txK /\ <<txK, txN>>[2] = txN
          /\ txSess + 1 \in Nat /\ txSess + 1 > txSess
      BY TxFacts DEF SentTypes
    <2> QED
      BY <1>1, <2>1, <2>3, <2>4, <2>5, SessionTypes
  <1>3. CASE FillsBlock(upto) /\ ~ Rotates
    <2>1. /\ txBlk' = txBlk + 1 /\ block' = EmptyBlock(txK)
          /\ UNCHANGED <<txSess, txK, txN, announced, failed>>
      BY <1>3 DEF Write, NextBlock
    <2>2. txBlk + 1 <= TxMaxBlockIdx
      BY <1>3, TxFacts DEF Rotates
    <2>3. EmptyBlock(txK) \in [0 .. txK-1 -> Shards]
      BY ShardKinds DEF EmptyBlock
    <2> QED
      BY <1>1, <2>1, <2>2, <2>3 DEF SentTypes
  <1>4. CASE ~ FillsBlock(upto)
    <2>1. /\ block' = Filled(body, upto)
          /\ UNCHANGED <<txSess, txK, txN, txBlk, announced, failed>>
      BY <1>4 DEF Write
    <2>2. Filled(body, upto) \in [0 .. txK-1 -> Shards]
      BY FilledWord
    <2> QED
      BY <1>1, <2>1, <2>2 DEF SentTypes
  <1> QED
    BY <1>2, <1>3, <1>4

LEMMA WriteFailsTypes ==
  ASSUME NonceInv, SentTypes, BodiesCover, NEW body \in Shards, NEW upto \in Int,
         WriteFails(body, upto)
  PROVE  SentTypes'
  <1>1. PICK g \in txFrag .. LastSlot(upto), type \in Faults :
          /\ InjectFault
          /\ air' = air \cup Fragments(body, upto,
                               txFrag .. (IF type = "leaky" THEN g ELSE g - 1))
          /\ txFrag' = g
          /\ block' = [f \in 0 .. txK-1 |->
                         IF f < g THEN Filled(body, upto)[f] ELSE Empty]
          /\ UNCHANGED <<txSess, txK, txN, txBlk, announced>>
    BY DEF WriteFails
  <1>2. \A p \in air' : /\ p.sess \in 1 .. txSess /\ p.blk \in 0 .. TxMaxBlockIdx
                        /\ p.body \in Bodies
    BY <1>1, SentBodies
  <1>3. block' \in [0 .. txK-1 -> Shards]
    <2>1. Filled(body, upto) \in [0 .. txK-1 -> Shards]
      BY FilledWord
    <2> QED
      BY <1>1, <2>1, ShardKinds
  <1>4. failed' \in 0 .. MaxFaults
    BY <1>1, FailedCount
  <1> QED
    BY <1>1, <1>2, <1>3, <1>4 DEF SentTypes

LEMMA SetFECTypes ==
  ASSUME NonceInv, SentTypes, BodiesCover, NEW p \in FecParams, SetFECRestart(p[1], p[2])
  PROVE  SentTypes'
  <1>1. PICK s \in {txSess + 1, txSess + 2} :
          /\ InitSession(p[1], p[2], s)
          /\ \A a \in announced' : a \in announced \/ a.sess \in 1 .. s
          /\ failed' = failed \/ InjectFault
    <2> DEFINE rotated == txFrag > 0 /\ Rotates
               s == IF rotated THEN txSess + 2 ELSE txSess + 1
               before == IF rotated THEN {Announcement(txSess + 1, txK, txN)} ELSE {}
               a == Announcement(s, p[1], p[2])
    <2>1. /\ InitSession(p[1], p[2], s)
          /\ Announce(before \cup {a}) \/ AnnounceFault(before, a, p[2] - p[1] + 1)
      BY DEF SetFECRestart
    <2>2. /\ s \in {txSess + 1, txSess + 2} /\ a.sess \in 1 .. s
          /\ \A b \in before : b.sess \in 1 .. s
      BY TxFacts DEF Announcement
    <2> HIDE DEF before, a
    <2>3. /\ \A b \in announced' : b \in announced \/ b \in before \/ b = a
          /\ failed' = failed \/ InjectFault
      BY <2>1 DEF Announce, AnnounceFault
    <2> HIDE DEF s
    <2> QED
      BY <2>1, <2>2, <2>3
  <1>2. \A q \in air' : /\ q.sess \in 1 .. txSess /\ q.blk \in 0 .. TxMaxBlockIdx
                        /\ q.body \in Bodies
    <2>1. CASE air' = air
      BY <2>1 DEF SentTypes
    <2>2. CASE air' = air \cup Fragments(Pad, CloseUpto, txFrag .. txN-1)
      BY <2>2, SentBodies, ShardKinds
    <2> QED
      BY <2>1, <2>2 DEF SetFECRestart
  <1>3. failed' \in 0 .. MaxFaults
    BY <1>1, FailedCount
  <1>4. s \in Nat /\ s > txSess
    BY <1>1, TxFacts
  <1> QED
    BY <1>1, <1>2, <1>3, <1>4, SessionTypes

LEMMA SendSessionKeyTypes ==
  ASSUME NonceInv, SentTypes, SendSessionKey
  PROVE  SentTypes'
  <1> DEFINE a == Announcement(txSess, txK, txN)
  <1>1. /\ Announce({a}) \/ AnnounceFault({}, a, 1)
        /\ UNCHANGED <<txSess, txK, txN, txBlk, txFrag, block, air, packets, accepted>>
    BY DEF SendSessionKey
  <1>2. a.sess \in 1 .. txSess
    BY TxFacts DEF Announcement, SentTypes
  <1> HIDE DEF a
  <1>3. /\ \A b \in announced' : b \in announced \/ b = a
        /\ failed' \in 0 .. MaxFaults
    BY <1>1, FailedCount DEF Announce, AnnounceFault
  <1> QED
    BY <1>1, <1>2, <1>3 DEF SentTypes

LEMMA TypesNext ==
  ASSUME NonceInv, TypesInv, BodiesCover, [TxNext]_txVars
  PROVE  TypesInv'
  <1> USE DEF TypesInv
  <1>1. txFrag \in Int /\ CloseUpto \in Int
    BY TxFacts
  <1>2. CASE SendPacket
    <2>1. Data(packets + 1) \in Shards /\ packets' = packets + 1 /\ packets + 1 <= MaxPackets
      BY <1>2 DEF SendPacket, Shards
    <2>2. SentTypes'
      BY <1>1, <1>2, <2>1, WriteTypes, WriteFailsTypes DEF SendPacket
    <2>3. accepted' \subseteq accepted \cup {packets + 1}
      BY <1>2, <2>1 DEF SendPacket
    <2> QED
      BY <2>1, <2>2, <2>3
  <1>3. CASE SendKeepalive
    BY <1>1, <1>3, WriteTypes, WriteFailsTypes, ShardKinds DEF SendKeepalive
  <1>4. CASE SendFECOnly
    BY <1>1, <1>4, WriteTypes, WriteFailsTypes, ShardKinds DEF SendFECOnly
  <1>5. CASE CheckFECTimeout
    BY <1>1, <1>5, WriteTypes, WriteFailsTypes, ShardKinds DEF CheckFECTimeout
  <1>6. CASE SetFEC
    BY <1>1, <1>6, WriteTypes, WriteFailsTypes, SetFECTypes, ShardKinds
       DEF SetFEC, SetFECFails
  <1>7. CASE SendSessionKey
    BY <1>7, SendSessionKeyTypes DEF SendSessionKey
  <1>8. CASE UNCHANGED txVars
    BY <1>8 DEF txVars, SentTypes
  <1> QED
    BY <1>2, <1>3, <1>4, <1>5, <1>6, <1>7, <1>8 DEF TxNext

-----------------------------------------------------------------------------
(* The order of packets.                                                   *)
LEMMA NothingSent ==
  ASSUME NonceInv, OrderInv, NEW body \in Shards, body.kind # "data", NEW upto, NEW F,
         NEW A, A = air \cup Fragments(body, upto, F)
  PROVE  /\ DataNumbered(A, packets) /\ SentOnce(A) /\ InOrder(A)
         /\ \A i \in accepted : \E p \in A : p.body = Data(i)
  <1>1. \A p \in Fragments(body, upto, F) : p.body.kind # "data"
    BY ShardKinds DEF Fragments
  <1> QED
    BY <1>1 DEF OrderInv, DataNumbered, SentOnce, InOrder

LEMMA PacketSent ==
  ASSUME NonceInv, OrderInv, packets \in Nat, NEW h,
         NEW A, A = air \cup Fragments(Data(packets + 1), txFrag, txFrag .. h)
  PROVE  /\ DataNumbered(A, packets + 1) /\ SentOnce(A) /\ InOrder(A)
         /\ \A i \in accepted : \E p \in A : p.body = Data(i)
         /\ txFrag \in txFrag .. h => \E p \in A : p.body = Data(packets + 1)
  <1> DEFINE New == Fragments(Data(packets + 1), txFrag, txFrag .. h)
             r == [sess |-> txSess, blk |-> txBlk, frag |-> txFrag,
                   body |-> Data(packets + 1)]
  <1>1. \A p \in New : p.body.kind = "data" => p = r
    <2> SUFFICES ASSUME NEW f \in txFrag .. h,
                        NEW p, p = [sess |-> txSess, blk |-> txBlk, frag |-> f,
                                    body |-> IF f <= txFrag THEN Data(packets + 1)
                                      ELSE Parity(Filled(Data(packets + 1), txFrag))],
                        p.body.kind = "data"
                 PROVE  p = r
      BY DEF Fragments
    <2>1. f <= txFrag
      BY ShardKinds
    <2>2. f = txFrag
      BY <2>1, TxFacts
    <2> QED
      BY <2>2, TxFacts
  <1>2. txFrag \in txFrag .. h => r \in New
    BY TxFacts DEF Fragments
  <1>3. r.body.pkt = packets + 1 /\ r.sess = txSess /\ r.blk = txBlk /\ r.frag = txFrag
    BY ShardKinds
  <1>4. \A p \in air : p.body.kind = "data" =>
          p.body.pkt \in Nat /\ p.body.pkt < packets + 1 /\ p.body.pkt \in 1 .. packets + 1
    BY DEF OrderInv, DataNumbered
  <1>5. \A p \in air : \/ p.sess < txSess
                       \/ p.sess = txSess /\ p.blk < txBlk
                       \/ p.sess = txSess /\ p.blk = txBlk /\ p.frag < txFrag
    BY TxFacts DEF AirBefore
  <1>6. r.body = Data(packets + 1)
    OBVIOUS
  <1> HIDE DEF New, r
  <1>7. A = air \cup New
    BY DEF New
  <1>8. DataNumbered(A, packets + 1)
    BY <1>1, <1>3, <1>4, <1>7 DEF DataNumbered
  <1>9. SentOnce(A)
    BY <1>1, <1>3, <1>4, <1>7 DEF SentOnce, OrderInv
  <1>10. InOrder(A)
    <2> SUFFICES ASSUME NEW p \in A, NEW q \in A, p.body.kind = "data",
                        q.body.kind = "data", p.body.pkt < q.body.pkt
                 PROVE  \/ p.sess < q.sess
                        \/ p.sess = q.sess /\ p.blk < q.blk
                        \/ p.sess = q.sess /\ p.blk = q.blk /\ p.frag < q.frag
      BY DEF InOrder
    <2>1. p \in air
      BY <1>1, <1>3, <1>4, <1>7
    <2>2. CASE q \in air
      BY <2>1, <2>2 DEF OrderInv, InOrder
    <2>3. CASE q = r
      BY <1>3, <1>5, <2>1, <2>3
    <2> QED
      BY <1>1, <1>7, <2>2, <2>3
  <1> QED
    BY <1>2, <1>6, <1>7, <1>8, <1>9, <1>10 DEF OrderInv

LEMMA WriteAir ==
  ASSUME NonceInv, NEW body, NEW upto \in Int, upto = txFrag \/ upto = CloseUpto,
         Write(body, upto) \/ WriteFails(body, upto)
  PROVE  \E h \in Int : /\ air' = air \cup Fragments(body, upto, txFrag .. h)
                        /\ Write(body, upto) => h >= txFrag
  <1>1. CASE Write(body, upto)
    BY <1>1, SlotBounds DEF Write
  <1>2. CASE WriteFails(body, upto) /\ ~ Write(body, upto)
    <2>1. PICK g \in txFrag .. LastSlot(upto), type \in Faults :
            air' = air \cup Fragments(body, upto,
                               txFrag .. (IF type = "leaky" THEN g ELSE g - 1))
      BY <1>2 DEF WriteFails
    <2> QED
      BY <1>2, <2>1
  <1> QED
    BY <1>1, <1>2

LEMMA OrderNext ==
  ASSUME NonceInv, TypesInv, OrderInv, [TxNext]_txVars
  PROVE  OrderInv'
  <1>1. txFrag \in Int /\ CloseUpto \in Int /\ packets \in Nat
    BY TxFacts DEF TypesInv
  <1>2. ASSUME air' = air, UNCHANGED <<packets, accepted>>
        PROVE  OrderInv'
    BY <1>2 DEF OrderInv
  <1>3. ASSUME NEW body \in {Empty, Pad}, NEW upto \in Int, upto = txFrag \/ upto = CloseUpto,
               Write(body, upto) \/ WriteFails(body, upto),
               packets' = packets \/ packets' = packets + 1, UNCHANGED accepted
        PROVE  OrderInv'
    <2>1. body \in Shards /\ body.kind # "data"
      BY ShardKinds
    <2>2. PICK F : air' = air \cup Fragments(body, upto, F)
      <3>1. \E h \in Int : air' = air \cup Fragments(body, upto, txFrag .. h)
        BY <1>3, WriteAir
      <3> QED
        BY <3>1
    <2>3. /\ DataNumbered(air', packets) /\ SentOnce(air') /\ InOrder(air')
          /\ \A i \in accepted : \E p \in air' : p.body = Data(i)
      BY <2>1, <2>2, NothingSent
    <2>4. DataNumbered(air', packets')
      BY <1>1, <1>3, <2>3 DEF DataNumbered
    <2> QED
      BY <1>3, <2>3, <2>4 DEF OrderInv
  <1>4. CASE SendPacket
    <2> DEFINE body == Data(packets + 1)
    <2>1. /\ packets' = packets + 1
          /\ \/ Write(body, txFrag) /\ accepted' \subseteq accepted \cup {packets + 1}
             \/ WriteFails(body, txFrag) /\ accepted' = accepted
      BY <1>4 DEF SendPacket
    <2>2. PICK h \in Int : /\ air' = air \cup Fragments(body, txFrag, txFrag .. h)
                           /\ Write(body, txFrag) => h >= txFrag
      BY <1>1, <2>1, WriteAir
    <2>3. Write(body, txFrag) => txFrag \in txFrag .. h
      BY <1>1, <2>2
    <2>4. /\ DataNumbered(air', packets + 1) /\ SentOnce(air') /\ InOrder(air')
          /\ \A i \in accepted : \E p \in air' : p.body = Data(i)
          /\ Write(body, txFrag) => \E p \in air' : p.body = Data(packets + 1)
      BY <1>1, <2>2, <2>3, PacketSent
    <2>5. \A i \in accepted' : \E p \in air' : p.body = Data(i)
      BY <2>1, <2>4
    <2> QED
      BY <2>1, <2>4, <2>5 DEF OrderInv
  <1>5. CASE SendKeepalive
    BY <1>1, <1>3, <1>5 DEF SendKeepalive
  <1>6. CASE SendFECOnly \/ CheckFECTimeout
    BY <1>1, <1>3, <1>6 DEF SendFECOnly, CheckFECTimeout
  <1>7. CASE SetFEC
    <2>1. UNCHANGED <<packets, accepted>>
      BY <1>7 DEF SetFEC
    <2>2. CASE SetFECFails
      BY <1>1, <1>3, <2>1, <2>2 DEF SetFECFails
    <2>3. ASSUME NEW p \in FecParams, SetFECRestart(p[1], p[2])
          PROVE  OrderInv'
      <3>1. CASE air' = air
        BY <1>2, <2>1, <3>1
      <3>2. CASE air' = air \cup Fragments(Pad, CloseUpto, txFrag .. txN-1)
        <4>1. /\ DataNumbered(air', packets) /\ SentOnce(air') /\ InOrder(air')
              /\ \A i \in accepted : \E q \in air' : q.body = Data(i)
          BY <3>2, NothingSent, ShardKinds
        <4> QED
          BY <2>1, <4>1 DEF OrderInv
      <3> QED
        BY <2>3, <3>1, <3>2 DEF SetFECRestart
    <2> QED
      BY <1>7, <2>2, <2>3 DEF SetFEC
  <1>8. CASE SendSessionKey
    BY <1>2, <1>8 DEF SendSessionKey
  <1>9. CASE UNCHANGED txVars
    BY <1>2, <1>9 DEF txVars
  <1> QED
    BY <1>4, <1>5, <1>6, <1>7, <1>8, <1>9 DEF TxNext

-----------------------------------------------------------------------------
(* Blocks.                                                                 *)
AllWhole(A) ==
  \A p \in A : SentWhole(A, p.sess, p.blk, announced, txSess, txK, txN)

LEMMA BlockFacts ==
  ASSUME NonceInv, SentTypes, BlocksInv
  PROVE  /\ txFrag < txK
         /\ \A p \in air : p.sess = txSess /\ p.blk = txBlk =>
              p.frag \in 0 .. txFrag-1 /\ p.body = block[p.frag]
         /\ \A f \in 0 .. txFrag-1 :
              \E p \in air : p.sess = txSess /\ p.blk = txBlk /\ p.frag = f
         /\ \A p \in air : ~ (p.sess = txSess /\ p.blk = txBlk) =>
              SentWhole(air, p.sess, p.blk, announced, txSess, txK, txN)
         /\ \A p \in air : p.sess <= txSess /\ (p.sess = txSess => p.blk <= txBlk)
         /\ \A a \in announced : /\ a.sess \in Nat /\ a.sess <= txSess
                                 /\ a.sess = txSess => <<a.k, a.n>> = <<txK, txN>>
  <1>1. \A p \in air : /\ p.sess <= txSess /\ (p.sess = txSess => p.blk <= txBlk)
                       /\ ~ (p.sess = txSess /\ p.blk = txBlk) =>
                            p.sess < txSess \/ p.blk < txBlk
    BY TxFacts DEF AirBefore
  <1>2. \A a \in announced : a.sess \in Nat /\ a.sess <= txSess
    BY DEF SentTypes
  <1> QED
    BY <1>1, <1>2 DEF BlocksInv, OpenBlock

(* Fragments of one block say nothing of another.                          *)
LEMMA OthersKept ==
  ASSUME NEW New, \A p \in New : p.sess = txSess /\ p.blk = txBlk,
         NEW A, A = air \cup New, NEW s, NEW b, ~ (s = txSess /\ b = txBlk),
         SentWhole(air, s, b, announced, txSess, txK, txN)
  PROVE  SentWhole(A, s, b, announced, txSess, txK, txN)
  <1>1. PICK p \in FecParams : \E w \in [0 .. p[1]-1 -> Shards] :
          /\ BlockIs(air, s, b, p[1], p[2], w)
          /\ \A a \in announced : a.sess = s => <<a.k, a.n>> = p
          /\ s = txSess => <<txK, txN>> = p
    BY DEF SentWhole
  <1>2. PICK w \in [0 .. p[1]-1 -> Shards] :
          /\ BlockIs(air, s, b, p[1], p[2], w)
          /\ \A a \in announced : a.sess = s => <<a.k, a.n>> = p
          /\ s = txSess => <<txK, txN>> = p
    BY <1>1
  <1>3. BlockIs(A, s, b, p[1], p[2], w)
    BY <1>2 DEF BlockIs
  <1> QED
    BY <1>2, <1>3 DEF SentWhole

(* Every slot of F gets its fragment.                                      *)
LEMMA SlotsSent ==
  ASSUME NEW body, NEW upto, NEW F, NEW f \in F
  PROVE  \E p \in Fragments(body, upto, F) :
           p.sess = txSess /\ p.blk = txBlk /\ p.frag = f
  <1> DEFINE r == [sess |-> txSess, blk |-> txBlk, frag |-> f,
                   body |-> IF f <= upto THEN body ELSE Parity(Filled(body, upto))]
  <1>1. r \in Fragments(body, upto, F)
    BY DEF Fragments
  <1>2. r.sess = txSess /\ r.blk = txBlk /\ r.frag = f
    OBVIOUS
  <1> HIDE DEF r
  <1> QED
    BY <1>1, <1>2

(* The body that fills the last data slot, and the parity after it.        *)
LEMMA BlockCloses ==
  ASSUME NonceInv, SentTypes, BlocksInv, NEW body \in Shards,
         NEW A, A = air \cup Fragments(body, txK-1, txFrag .. txN-1)
  PROVE  AllWhole(A)
  <1> DEFINE New == Fragments(body, txK-1, txFrag .. txN-1)
             w == Filled(body, txK-1)
  <1>1. /\ w \in [0 .. txK-1 -> Shards]
        /\ \A f \in 0 .. txK-1 : w[f] = IF f \in txFrag .. txK-1 THEN body ELSE block[f]
    BY FilledWord
  <1>2. \A p \in New : /\ p.sess = txSess /\ p.blk = txBlk /\ p.frag \in txFrag .. txN-1
                       /\ p.body = IF p.frag <= txK-1 THEN body ELSE Parity(w)
    BY DEF Fragments
  <1>3. \A f \in txFrag .. txN-1 :
          \E p \in New : p.sess = txSess /\ p.blk = txBlk /\ p.frag = f
    <2>1. PICK F : F = txFrag .. txN-1
      OBVIOUS
    <2>2. \A f \in F : \E p \in Fragments(body, txK-1, F) :
            p.sess = txSess /\ p.blk = txBlk /\ p.frag = f
      BY SlotsSent
    <2> QED
      BY <2>1, <2>2
  <1> HIDE DEF New, w
  <1>4. A = air \cup New
    BY DEF New
  <1>5. BlockIs(A, txSess, txBlk, txK, txN, w)
    <2>1. ASSUME NEW p \in air, p.sess = txSess, p.blk = txBlk
          PROVE  /\ p.frag \in 0 .. txN-1
                 /\ p.body = IF p.frag < txK THEN w[p.frag] ELSE Parity(w)
      <3>1. /\ p.frag \in 0 .. txFrag-1 /\ p.body = block[p.frag] /\ txFrag < txK
            /\ txFrag \in Nat /\ txK \in Nat /\ txN \in Nat /\ txK <= txN
        BY <2>1, BlockFacts, TxFacts
      <3>2. p.frag \in 0 .. txK-1 /\ p.frag \notin txFrag .. txK-1
        BY <3>1
      <3> QED
        BY <1>1, <3>1, <3>2
    <2>2. ASSUME NEW p \in New
          PROVE  /\ p.frag \in 0 .. txN-1
                 /\ p.body = IF p.frag < txK THEN w[p.frag] ELSE Parity(w)
      BY <1>1, <1>2, TxFacts
    <2>3. ASSUME NEW f \in 0 .. txN-1
          PROVE  \E p \in A : p.sess = txSess /\ p.blk = txBlk /\ p.frag = f
      <3>1. f \in 0 .. txFrag-1 \/ f \in txFrag .. txN-1
        BY TxFacts
      <3> QED
        BY <1>3, <1>4, <3>1, BlockFacts
    <2> QED
      BY <1>4, <2>1, <2>2, <2>3 DEF BlockIs
  <1>6. SentWhole(A, txSess, txBlk, announced, txSess, txK, txN)
    <2> DEFINE pr == <<txK, txN>>
    <2>1. pr \in FecParams /\ pr[1] = txK /\ pr[2] = txN
      BY DEF SentTypes
    <2>2. \A a \in announced : a.sess = txSess => <<a.k, a.n>> = pr
      BY BlockFacts
    <2>3. w \in [0 .. pr[1]-1 -> Shards] /\ BlockIs(A, txSess, txBlk, pr[1], pr[2], w)
      BY <1>1, <1>5, <2>1
    <2> QED
      BY <2>1, <2>2, <2>3 DEF SentWhole
  <1>7. ASSUME NEW p \in air, ~ (p.sess = txSess /\ p.blk = txBlk)
        PROVE  SentWhole(A, p.sess, p.blk, announced, txSess, txK, txN)
    BY <1>2, <1>4, <1>7, BlockFacts, OthersKept
  <1> QED
    BY <1>2, <1>4, <1>6, <1>7 DEF AllWhole

(* A session starts after all blocks were sent whole.                      *)
LEMMA SessionBlocks ==
  ASSUME NonceInv, SentTypes, BlocksInv, AllWhole(air'),
         \A p \in air' : p.sess \in Nat /\ p.sess <= txSess,
         NEW k \in Nat \ {0}, NEW n, NEW s \in Nat, s > txSess, InitSession(k, n, s),
         \A a \in announced' : \/ a \in announced
                               \/ a.sess > txSess /\ (a.sess = s => <<a.k, a.n>> = <<k, n>>)
  PROVE  BlocksInv'
  <1>1. txSess' = s /\ txK' = k /\ txN' = n /\ txBlk' = 0 /\ txFrag' = 0 /\ txSess \in Nat
    BY TxFacts DEF InitSession
  <1>2. ASSUME NEW p \in air'
        PROVE  SentWhole(air', p.sess, p.blk, announced', s, k, n) /\ p.sess # s
    <2>1. p.sess # s /\ \A a \in announced' : a.sess = p.sess => a \in announced
      BY <1>1
    <2> DEFINE ps == p.sess
               pb == p.blk
    <2>2. PICK pr \in FecParams : \E w \in [0 .. pr[1]-1 -> Shards] :
            /\ BlockIs(air', ps, pb, pr[1], pr[2], w)
            /\ \A a \in announced : a.sess = ps => <<a.k, a.n>> = pr
      BY DEF AllWhole, SentWhole
    <2> HIDE DEF ps, pb
    <2>3. SentWhole(air', ps, pb, announced', s, k, n)
      BY <2>1, <2>2 DEF SentWhole, ps
    <2> QED
      BY <2>1, <2>3 DEF ps, pb
  <1>3. OpenBlock(air', s, 0, 0, block')
    BY <1>2 DEF OpenBlock
  <1>4. \A a \in announced' : a.sess = s => <<a.k, a.n>> = <<k, n>>
    BY <1>1, BlockFacts
  <1> QED
    BY <1>1, <1>2, <1>3, <1>4 DEF BlocksInv

(* Nothing was injected without success.                                   *)
LEMMA NoFault ==
  ASSUME SentTypes, failed = 0, failed' = 0
  PROVE  /\ ~ InjectFault
         /\ \A body, upto : ~ WriteFails(body, upto)
         /\ \A as, a, c : ~ AnnounceFault(as, a, c)
  BY DEF InjectFault, WriteFails, AnnounceFault

LEMMA WriteBlocks ==
  ASSUME NonceInv, SentTypes, BlocksInv, failed = 0, failed' = 0,
         NEW body \in Shards, NEW upto \in Int, upto = txFrag \/ upto = CloseUpto,
         Write(body, upto)
  PROVE  BlocksInv'
  <1>1. /\ txFrag < txK /\ txSess \in Nat /\ txBlk \in Nat /\ txFrag \in Nat
        /\ txK \in Nat \ {0} /\ txN \in Nat
    BY BlockFacts, TxFacts
  <1>2. upto <= txK - 1 /\ (FillsBlock(upto) => upto = txK - 1)
    BY <1>1 DEF CloseUpto, FillsBlock
  <1>3. air' = air \cup Fragments(body, upto, txFrag .. LastSlot(upto))
    BY DEF Write
  <1>4. CASE FillsBlock(upto)
    <2>1. AllWhole(air')
      BY <1>2, <1>3, <1>4, BlockCloses DEF LastSlot
    <2>2. \A p \in air' : /\ p.sess \in Nat /\ p.sess <= txSess
                          /\ p.sess = txSess => p.blk <= txBlk
      <3>1. \A p \in Fragments(body, upto, txFrag .. LastSlot(upto)) :
              p.sess = txSess /\ p.blk = txBlk
        BY DEF Fragments
      <3> QED
        BY <1>1, <1>3, <3>1, BlockFacts, TxFacts
    <2>3. CASE Rotates
      <3> DEFINE a == Announcement(txSess + 1, txK, txN)
      <3>1. InitSession(txK, txN, txSess + 1) /\ announced' = announced \cup {a}
        BY <1>4, <2>3, NoFault DEF Write, NextBlock, Announce
      <3>2. a.sess = txSess + 1 /\ a.k = txK /\ a.n = txN
        BY DEF Announcement
      <3> HIDE DEF a
      <3>3. \A b \in announced' : \/ b \in announced
                                  \/ /\ b.sess > txSess
                                     /\ b.sess = txSess + 1 => <<b.k, b.n>> = <<txK, txN>>
        BY <1>1, <3>1, <3>2
      <3>4. txSess + 1 \in Nat /\ txSess + 1 > txSess
        BY <1>1
      <3> QED
        BY <1>1, <2>1, <2>2, <3>1, <3>3, <3>4, SessionBlocks
    <2>4. CASE ~ Rotates
      <3>1. /\ txBlk' = txBlk + 1 /\ txFrag' = 0
            /\ UNCHANGED <<txSess, txK, txN, announced>>
        BY <1>4, <2>4 DEF Write, NextBlock
      <3>2. OpenBlock(air', txSess, txBlk + 1, 0, block')
        BY <1>1, <2>2 DEF OpenBlock
      <3>3. \A p \in air' : SentWhole(air', p.sess, p.blk, announced', txSess', txK', txN')
        BY <2>1, <3>1 DEF AllWhole
      <3>4. \A b \in announced' : b.sess = txSess' => <<b.k, b.n>> = <<txK', txN'>>
        BY <3>1, BlockFacts
      <3> QED
        BY <1>1, <3>1, <3>2, <3>3, <3>4 DEF BlocksInv
    <2> QED
      BY <2>3, <2>4
  <1>5. CASE ~ FillsBlock(upto)
    <2> DEFINE New == Fragments(body, upto, txFrag .. upto)
               w == Filled(body, upto)
    <2>1. upto = txFrag /\ txFrag + 1 < txK
      BY <1>1, <1>5 DEF CloseUpto, FillsBlock
    <2>2. /\ txFrag' = txFrag + 1 /\ block' = w
          /\ UNCHANGED <<txSess, txK, txN, txBlk, announced>>
      BY <1>5, <2>1 DEF Write
    <2>3. /\ \A f \in 0 .. txK-1 : w[f] = IF f \in txFrag .. upto THEN body ELSE block[f]
      BY FilledWord
    <2>4. air' = air \cup New
      BY <1>3, <1>5 DEF LastSlot
    <2>5. /\ \A p \in New : /\ p.sess = txSess /\ p.blk = txBlk /\ p.frag = txFrag
                            /\ p.body = body
          /\ \E p \in New : p.sess = txSess /\ p.blk = txBlk /\ p.frag = txFrag
      <3>1. /\ txFrag \in txFrag .. upto
            /\ \A f \in txFrag .. upto : f = txFrag /\ f <= upto
        BY <1>1, <2>1
      <3>2. \A p \in New : /\ p.sess = txSess /\ p.blk = txBlk /\ p.frag = txFrag
                            /\ p.body = body
        BY <3>1 DEF Fragments
      <3>3. \E p \in New : p.sess = txSess /\ p.blk = txBlk /\ p.frag = txFrag
        <4>1. PICK F : F = txFrag .. upto
          OBVIOUS
        <4>2. \A f \in F : \E p \in Fragments(body, upto, F) :
                p.sess = txSess /\ p.blk = txBlk /\ p.frag = f
          BY SlotsSent
        <4> QED
          BY <3>1, <4>1, <4>2
      <3> QED
        BY <3>2, <3>3
    <2> HIDE DEF New, w
    <2>6. OpenBlock(air', txSess, txBlk, txFrag + 1, w)
      <3>1. ASSUME NEW p \in air', p.sess = txSess, p.blk = txBlk
            PROVE  p.frag \in 0 .. (txFrag + 1) - 1 /\ p.body = w[p.frag]
        <4>1. CASE p \in air
          <5>1. p.frag \in 0 .. txFrag-1 /\ p.body = block[p.frag]
            BY <3>1, <4>1, BlockFacts
          <5>2. p.frag \in 0 .. txK-1 /\ p.frag \notin txFrag .. upto
            BY <1>1, <2>1, <5>1
          <5> QED
            BY <1>1, <2>3, <5>1, <5>2
        <4>2. CASE p \in New
          <5>1. txFrag \in 0 .. txK-1 /\ txFrag \in txFrag .. upto
            BY <1>1, <2>1
          <5> QED
            BY <1>1, <2>3, <2>5, <4>2, <5>1
        <4> QED
          BY <2>4, <4>1, <4>2
      <3>2. ASSUME NEW f \in 0 .. (txFrag + 1) - 1
            PROVE  \E p \in air' : p.sess = txSess /\ p.blk = txBlk /\ p.frag = f
        <4>1. f \in 0 .. txFrag-1 \/ f = txFrag
          BY <1>1
        <4> QED
          BY <2>4, <2>5, <4>1, BlockFacts
      <3> QED
        BY <3>1, <3>2 DEF OpenBlock
    <2>7. ASSUME NEW p \in air', p.sess < txSess \/ p.blk < txBlk
          PROVE  SentWhole(air', p.sess, p.blk, announced, txSess, txK, txN)
      <3>1. p \in air /\ ~ (p.sess = txSess /\ p.blk = txBlk)
        BY <1>1, <2>4, <2>5, <2>7
      <3> QED
        BY <2>4, <2>5, <3>1, BlockFacts, OthersKept
    <2> QED
      BY <2>1, <2>2, <2>6, <2>7, BlockFacts DEF BlocksInv
  <1> QED
    BY <1>4, <1>5

(* Announcing the parameters of a session changes nothing of its blocks.   *)
LEMMA AnnouncedKept ==
  ASSUME NEW A, NEW s, NEW b, NEW k, NEW n, NEW as, NEW ann, txSess \in Nat,
         SentWhole(A, s, b, ann, txSess, k, n),
         \A a \in as : a \in ann \/ (a.sess = txSess /\ <<a.k, a.n>> = <<k, n>>)
  PROVE  SentWhole(A, s, b, as, txSess, k, n)
  <1>1. PICK p \in FecParams : \E w \in [0 .. p[1]-1 -> Shards] :
          /\ BlockIs(A, s, b, p[1], p[2], w)
          /\ \A a \in ann : a.sess = s => <<a.k, a.n>> = p
          /\ s = txSess => <<k, n>> = p
    BY DEF SentWhole
  <1>2. \A a \in as : a.sess = s => <<a.k, a.n>> = p
    BY <1>1
  <1> QED
    BY <1>1, <1>2 DEF SentWhole

LEMMA SetFECBlocks ==
  ASSUME NonceInv, SentTypes, BlocksInv, failed = 0, failed' = 0,
         NEW p \in FecParams, SetFECRestart(p[1], p[2])
  PROVE  BlocksInv'
  <1>1. p[1] \in Nat \ {0}
    OBVIOUS
  <1>2. PICK s \in {txSess + 1, txSess + 2} :
          /\ InitSession(p[1], p[2], s)
          /\ \A a \in announced' :
               \/ a \in announced
               \/ a.sess > txSess /\ (a.sess = s => <<a.k, a.n>> = <<p[1], p[2]>>)
    <2> DEFINE rotated == txFrag > 0 /\ Rotates
               s == IF rotated THEN txSess + 2 ELSE txSess + 1
               before == IF rotated THEN {Announcement(txSess + 1, txK, txN)} ELSE {}
               a == Announcement(s, p[1], p[2])
    <2>1. /\ InitSession(p[1], p[2], s)
          /\ announced' = announced \cup (before \cup {a})
      BY NoFault DEF SetFECRestart, Announce
    <2>2. /\ s \in {txSess + 1, txSess + 2}
          /\ a.sess = s /\ a.k = p[1] /\ a.n = p[2] /\ s > txSess
      BY TxFacts DEF Announcement
    <2>3. \A b \in before : b.sess > txSess /\ b.sess # s
      BY TxFacts DEF Announcement
    <2> HIDE DEF before, a, s
    <2>4. \A b \in announced' :
            \/ b \in announced
            \/ b.sess > txSess /\ (b.sess = s => <<b.k, b.n>> = <<p[1], p[2]>>)
      BY <2>1, <2>2, <2>3
    <2> QED
      BY <2>1, <2>2, <2>4
  <1>3. AllWhole(air')
    <2>1. CASE txFrag > 0
      <3>1. CloseUpto = txK - 1
        BY <2>1, BlockFacts DEF CloseUpto
      <3>2. air' = air \cup Fragments(Pad, txK-1, txFrag .. txN-1)
        BY <2>1, <3>1 DEF SetFECRestart
      <3> QED
        BY <3>2, BlockCloses, ShardKinds
    <2>2. CASE ~ (txFrag > 0)
      <3>1. air' = air /\ txFrag = 0
        BY <2>2, TxFacts DEF SetFECRestart
      <3>2. \A q \in air : ~ (q.sess = txSess /\ q.blk = txBlk)
        BY <3>1, BlockFacts
      <3> QED
        BY <3>1, <3>2, BlockFacts DEF AllWhole
    <2> QED
      BY <2>1, <2>2
  <1>4. \A q \in air' : q.sess \in Nat /\ q.sess <= txSess
    <2>1. CASE air' = air
      BY <2>1, BlockFacts, TxFacts
    <2>2. CASE air' = air \cup Fragments(Pad, CloseUpto, txFrag .. txN-1)
      <3>1. \A q \in Fragments(Pad, CloseUpto, txFrag .. txN-1) : q.sess = txSess
        BY DEF Fragments
      <3> QED
        BY <2>2, <3>1, BlockFacts, TxFacts
    <2> QED
      BY <2>1, <2>2 DEF SetFECRestart
  <1>5. s \in Nat /\ s > txSess
    BY <1>2, TxFacts
  <1> DEFINE k == p[1]
             n == p[2]
  <1>6. /\ k \in Nat \ {0} /\ InitSession(k, n, s)
        /\ \A a \in announced' :
             \/ a \in announced
             \/ a.sess > txSess /\ (a.sess = s => <<a.k, a.n>> = <<k, n>>)
    BY <1>1, <1>2
  <1> HIDE DEF k, n
  <1> QED
    BY <1>3, <1>4, <1>5, <1>6, SessionBlocks

LEMMA SessionKeyBlocks ==
  ASSUME NonceInv, SentTypes, BlocksInv, failed = 0, failed' = 0, SendSessionKey
  PROVE  BlocksInv'
  <1> DEFINE a == Announcement(txSess, txK, txN)
  <1>1. /\ announced' = announced \cup {a}
        /\ UNCHANGED <<txSess, txK, txN, txBlk, txFrag, block, air>>
    BY NoFault DEF SendSessionKey, Announce
  <1>2. a.sess = txSess /\ a.k = txK /\ a.n = txN
    BY DEF Announcement
  <1> HIDE DEF a
  <1>3. \A b \in announced' : \/ b \in announced
                              \/ b.sess = txSess /\ <<b.k, b.n>> = <<txK, txN>>
    BY <1>1, <1>2
  <1>4. ASSUME NEW p \in air, p.sess < txSess \/ p.blk < txBlk
        PROVE  SentWhole(air, p.sess, p.blk, announced', txSess, txK, txN)
    <2>1. SentWhole(air, p.sess, p.blk, announced, txSess, txK, txN)
      BY <1>4 DEF BlocksInv
    <2>2. PICK as : as = announced'
      OBVIOUS
    <2>3. SentWhole(air, p.sess, p.blk, as, txSess, txK, txN)
      BY <1>3, <2>1, <2>2, AnnouncedKept, TxFacts
    <2> QED
      BY <2>2, <2>3
  <1>5. \A b \in announced' : b.sess = txSess => <<b.k, b.n>> = <<txK, txN>>
    BY <1>3, BlockFacts
  <1> QED
    BY <1>1, <1>4, <1>5 DEF BlocksInv, OpenBlock

LEMMA BlocksNext ==
  ASSUME NonceInv, TypesInv, BlocksInv, failed = 0, failed' = 0, [TxNext]_txVars
  PROVE  BlocksInv' /\ NonceInv'
  <1> USE DEF TypesInv
  <1>1. txFrag \in Int /\ CloseUpto \in Int
    BY TxFacts
  <1>2. ASSUME NEW body \in Shards, NEW upto \in Int, upto = txFrag \/ upto = CloseUpto,
               Write(body, upto) \/ WriteFails(body, upto)
        PROVE  BlocksInv' /\ NonceInv'
    <2>1. Write(body, upto)
      BY <1>2, NoFault
    <2> QED
      BY <1>2, <2>1, WriteBlocks, NonceWrite
  <1>3. CASE SendPacket
    <2>1. Data(packets + 1) \in Shards
      BY <1>3 DEF SendPacket, Shards
    <2> QED
      BY <1>1, <1>2, <1>3, <2>1 DEF SendPacket
  <1>4. CASE SendKeepalive
    BY <1>1, <1>2, <1>4, ShardKinds DEF SendKeepalive
  <1>5. CASE SendFECOnly
    BY <1>1, <1>2, <1>5, ShardKinds DEF SendFECOnly
  <1>6. CASE CheckFECTimeout
    BY <1>1, <1>2, <1>6, ShardKinds DEF CheckFECTimeout
  <1>7. CASE SetFEC
    <2>1. ~ SetFECFails
      BY NoFault DEF SetFECFails
    <2> QED
      BY <1>7, <2>1, SetFECBlocks, NonceSetFEC DEF SetFEC
  <1>8. CASE SendSessionKey
    BY <1>8, SessionKeyBlocks DEF SendSessionKey, NonceInv, TxNumbers
  <1>9. CASE UNCHANGED txVars
    BY <1>9 DEF txVars, NonceInv, TxNumbers, BlocksInv, OpenBlock
  <1> QED
    BY <1>3, <1>4, <1>5, <1>6, <1>7, <1>8, <1>9 DEF TxNext

-----------------------------------------------------------------------------
LEMMA StreamInit ==
  ASSUME TxInit
  PROVE  StreamInv /\ BlocksInv
  <1>1. PICK p \in FecParams : txK = p[1] /\ txN = p[2]
    BY DEF TxInit
  <1>2. /\ txSess = 1 /\ txBlk = 0 /\ txFrag = 0 /\ block = EmptyBlock(txK) /\ air = {}
        /\ announced = {} /\ packets = 0 /\ accepted = {} /\ failed = 0
    BY DEF TxInit
  <1>3. p = <<p[1], p[2]>> /\ p[1] \in Nat \ {0}
    OBVIOUS
  <1>4. EmptyBlock(txK) \in [0 .. txK-1 -> Shards]
    BY ShardKinds DEF EmptyBlock
  <1>5. TypesInv
    BY <1>1, <1>2, <1>3, <1>4 DEF TypesInv, SentTypes
  <1>6. OrderInv
    BY <1>2 DEF OrderInv, DataNumbered, SentOnce, InOrder
  <1>7. BlocksInv
    BY <1>1, <1>2, <1>3 DEF BlocksInv, OpenBlock
  <1> QED
    BY <1>5, <1>6, <1>7, NonceInit DEF StreamInv

LEMMA FailuresRemain ==
  ASSUME TypesInv, [TxNext]_txVars
  PROVE  failed' = 0 => failed = 0
  <1>1. failed' = failed \/ InjectFault
    BY DEF TxNext, SendPacket, SendKeepalive, SendFECOnly, CheckFECTimeout, SetFEC,
           SetFECRestart, SetFECFails, SendSessionKey, Write, WriteFails, NextBlock,
           Announce, AnnounceFault, txVars
  <1> QED
    BY <1>1 DEF InjectFault, TypesInv, SentTypes

LEMMA UnfailedNext ==
  ASSUME BodiesCover, UnfailedInv, [TxNext]_txVars,
         failed' = 0 => failed = 0
  PROVE  UnfailedInv'
  <1> SUFFICES ASSUME failed' = 0
               PROVE  (NonceInv /\ TypesInv /\ OrderInv /\ BlocksInv)'
    BY DEF UnfailedInv
  <1>1. failed = 0 /\ NonceInv /\ TypesInv /\ OrderInv /\ BlocksInv
    BY DEF UnfailedInv
  <1> QED
    BY <1>1, TypesNext, OrderNext, BlocksNext

-----------------------------------------------------------------------------
(* In a block sent whole a packet's slot is a data slot.                   *)
LEMMA DataBeforeParity ==
  ASSUME NonceInv, SentTypes, BlocksInv, NEW p \in air, p.body.kind = "data",
         NEW q \in air, q.sess = p.sess, q.blk = p.blk, q.body.kind = "parity"
  PROVE  p.frag < q.frag
  <1>1. CASE p.sess = txSess /\ p.blk = txBlk
    <2>1. q.frag \in 0 .. txFrag-1 /\ q.body = block[q.frag] /\ txFrag < txK
      BY <1>1, BlockFacts
    <2>2. q.frag \in 0 .. txK-1
      BY <2>1, TxFacts
    <2>3. q.body \in Shards
      BY <2>1, <2>2 DEF SentTypes
    <2> QED
      BY <2>3, ShardKinds
  <1>2. CASE ~ (p.sess = txSess /\ p.blk = txBlk)
    <2> DEFINE s == p.sess
               b == p.blk
    <2>1. SentWhole(air, s, b, announced, txSess, txK, txN)
      BY <1>2, BlockFacts
    <2>2. PICK pr \in FecParams : \E w \in [0 .. pr[1]-1 -> Shards] :
            BlockIs(air, s, b, pr[1], pr[2], w)
      BY <2>1 DEF SentWhole
    <2>3. PICK w \in [0 .. pr[1]-1 -> Shards] : BlockIs(air, s, b, pr[1], pr[2], w)
      BY <2>2
    <2> DEFINE k == pr[1]
               n == pr[2]
    <2>4. k \in Nat \ {0} /\ n \in Nat /\ w \in [0 .. k-1 -> Shards]
      BY <2>3
    <2> HIDE DEF k, n
    <2>5. \A r \in {p, q} : /\ r.frag \in 0 .. n-1
                            /\ r.body = IF r.frag < k THEN w[r.frag] ELSE Parity(w)
      BY <2>3 DEF BlockIs, k, n
    <2>6. p.frag < k
      BY <2>5, ShardKinds
    <2>7. ~ (q.frag < k)
      <3>1. SUFFICES ASSUME q.frag < k PROVE FALSE
        OBVIOUS
      <3>2. q.frag \in 0 .. k-1 /\ q.body = w[q.frag]
        BY <2>4, <2>5, <3>1
      <3> QED
        BY <2>4, <3>2, ShardKinds
    <2> QED
      BY <2>4, <2>5, <2>6, <2>7
  <1> QED
    BY <1>1, <1>2

LEMMA AcceptedSent ==
  ASSUME NonceInv, TypesInv, OrderInv, BlocksInv
  PROVE  AcceptedInDataSlot
  <1> SUFFICES ASSUME NEW i \in accepted
               PROVE  Cardinality({p \in air :
                        /\ p.body = Data(i)
                        /\ \A q \in FragmentsOf(p.sess, p.blk) :
                             q.body.kind = "parity" => p.frag < q.frag}) = 1
    BY DEF AcceptedInDataSlot
  <1> DEFINE S == {p \in air :
                     /\ p.body = Data(i)
                     /\ \A q \in FragmentsOf(p.sess, p.blk) :
                          q.body.kind = "parity" => p.frag < q.frag}
  <1>1. PICK p \in air : p.body = Data(i)
    BY DEF OrderInv
  <1>2. p.body.kind = "data" /\ p.body.pkt = i
    BY <1>1, ShardKinds
  <1>3. p \in S
    BY <1>1, <1>2, DataBeforeParity DEF FragmentsOf, TypesInv
  <1>4. \A q \in S : q = p
    BY <1>2, ShardKinds DEF OrderInv, SentOnce
  <1>5. S = {p}
    BY <1>3, <1>4
  <1> QED
    BY <1>5, FS_Singleton

LEMMA BlocksDecodable ==
  ASSUME NonceInv, TypesInv, BlocksInv
  PROVE  ClosedBlocksDecodable
  <1> SUFFICES ASSUME NEW sb \in LeftBehind
               PROVE  \E p \in FecParams :
                 LET frags == FragmentsOf(sb[1], sb[2])
                     word  == [f \in 0 .. p[1]-1 |-> (CHOOSE q \in frags : q.frag = f).body]
                 IN  /\ {q.frag : q \in frags} = 0 .. p[2]-1
                     /\ \A q \in frags :
                          q.body = IF q.frag < p[1] THEN word[q.frag] ELSE Parity(word)
                     /\ \A a \in announced : a.sess = sb[1] => <<a.k, a.n>> = p
    BY DEF ClosedBlocksDecodable
  <1>1. PICK r \in air : sb = <<r.sess, r.blk>> /\ (r.sess < txSess \/ r.blk < txBlk)
    BY DEF LeftBehind
  <1> DEFINE s == sb[1]
             b == sb[2]
             frags == FragmentsOf(s, b)
  <1>2. SentWhole(air, s, b, announced, txSess, txK, txN)
    BY <1>1 DEF BlocksInv
  <1>3. PICK p \in FecParams : \E w \in [0 .. p[1]-1 -> Shards] :
          /\ BlockIs(air, s, b, p[1], p[2], w)
          /\ \A a \in announced : a.sess = s => <<a.k, a.n>> = p
    BY <1>2 DEF SentWhole
  <1>4. PICK w \in [0 .. p[1]-1 -> Shards] : BlockIs(air, s, b, p[1], p[2], w)
    BY <1>3
  <1> DEFINE k == p[1]
             n == p[2]
             word == [f \in 0 .. k-1 |-> (CHOOSE q \in frags : q.frag = f).body]
  <1>5. k \in Nat \ {0} /\ n \in Nat /\ k <= n /\ w \in [0 .. k-1 -> Shards]
    BY <1>4
  <1> HIDE DEF k, n, s, b
  <1>6. /\ \A q \in frags : /\ q.frag \in 0 .. n-1
                            /\ q.body = IF q.frag < k THEN w[q.frag] ELSE Parity(w)
        /\ \A f \in 0 .. n-1 : \E q \in frags : q.frag = f
    BY <1>4 DEF BlockIs, FragmentsOf, k, n
  <1> HIDE DEF frags
  <1>7. \A f \in 0 .. k-1 : (CHOOSE q \in frags : q.frag = f).body = w[f]
    <2> SUFFICES ASSUME NEW f \in 0 .. k-1
                 PROVE  (CHOOSE q \in frags : q.frag = f).body = w[f]
      OBVIOUS
    <2> DEFINE c == CHOOSE q \in frags : q.frag = f
    <2>1. f \in 0 .. n-1 /\ f < k
      BY <1>5
    <2>2. c \in frags /\ c.frag = f
      BY <1>6, <2>1
    <2> HIDE DEF c
    <2>3. c.body = w[f]
      BY <1>6, <2>1, <2>2
    <2> QED
      BY <2>3 DEF c
  <1>8. word = w
    BY <1>5, <1>7
  <1> HIDE DEF word
  <1>9. {q.frag : q \in frags} = 0 .. n-1
    BY <1>6
  <1>10. \A q \in frags : q.body = IF q.frag < k THEN word[q.frag] ELSE Parity(word)
    BY <1>6, <1>8
  <1>11. \A a \in announced : a.sess = s => <<a.k, a.n>> = p
    BY <1>3
  <1> QED
    BY <1>9, <1>10, <1>11 DEF s, b, k, n, frags, word

LEMMA StreamTyped ==
  ASSUME BodiesCover, StreamInv
  PROVE  TxTypeOK /\ StreamOrder
  <1>1. \A w \in [0 .. txK-1 -> Shards] : w \in [0 .. txK-1 -> Bodies]
    BY DEF BodiesCover
  <1>2. TxTypeOK
    BY <1>1 DEF TxTypeOK, StreamInv, NonceInv, TxNumbers, TypesInv, SentTypes
  <1>3. StreamOrder
    BY DEF StreamOrder, StreamInv, OrderInv, InOrder
  <1> QED
    BY <1>2, <1>3

(* The stream on the air is the one SendPacket accepted: every packet it   *)
(* returned no error for is sent once, in a data slot of its block, and    *)
(* later packets go to later positions, across blocks closed early, key    *)
(* rotations and changes of the FEC parameters, as long as no injection    *)
(* has failed; the order holds also after injections that failed and       *)
(* transmitted nothing.                                                    *)
THEOREM PacketsInOrder ==
  ASSUME "leaky" \notin Faults, BodiesCover
  PROVE  TxSpec => []TxInv
<1> DEFINE IInv == StreamInv /\ UnfailedInv
<1>1. TxInit => IInv
  BY StreamInit DEF StreamInv, UnfailedInv
<1>2. IInv /\ [TxNext]_txVars => IInv'
  <2> SUFFICES ASSUME IInv, [TxNext]_txVars PROVE IInv'
    OBVIOUS
  <2>1. StreamInv'
    BY NonceNext, TypesNext, OrderNext DEF StreamInv
  <2>2. UnfailedInv'
    BY FailuresRemain, UnfailedNext DEF StreamInv
  <2> QED
    BY <2>1, <2>2
<1>3. IInv => TxInv
  <2> SUFFICES ASSUME IInv PROVE TxInv
    OBVIOUS
  <2>1. AcceptedInDataSlot
    BY AcceptedSent DEF UnfailedInv, AcceptedInDataSlot
  <2> QED
    BY <2>1, StreamTyped DEF TxInv
<1> QED
  BY <1>1, <1>2, <1>3, PTL DEF TxSpec

(* Every block the transmitter has moved on from was sent whole: the n     *)
(* fragments of one code word under the announced parameters, however the  *)
(* block was closed.  It needs no assumption on what a failing injection   *)
(* transmits, because it is about runs in which none has failed.           *)
THEOREM ClosedBlocksAreWhole ==
  ASSUME BodiesCover
  PROVE  TxSpec => []ClosedBlocksDecodable
<1> DEFINE Count == failed \in Nat
           IInv == UnfailedInv /\ Count
<1>1. TxInit => IInv
  BY StreamInit DEF StreamInv, UnfailedInv, TxInit
<1>2. IInv /\ [TxNext]_txVars => IInv'
  <2> SUFFICES ASSUME IInv, [TxNext]_txVars PROVE IInv'
    OBVIOUS
  <2>1. failed' = failed \/ failed' = failed + 1
    BY DEF TxNext, SendPacket, SendKeepalive, SendFECOnly, CheckFECTimeout, SetFEC,
           SetFECRestart, SetFECFails, SendSessionKey, Write, WriteFails, NextBlock,
           Announce, AnnounceFault, txVars, InjectFault
  <2>2. failed' \in Nat /\ (failed' = 0 => failed = 0)
    BY <2>1
  <2>3. UnfailedInv'
    BY <2>2, UnfailedNext DEF UnfailedInv
  <2> QED
    BY <2>2, <2>3
<1>3. IInv => ClosedBlocksDecodable
  BY BlocksDecodable DEF UnfailedInv, ClosedBlocksDecodable
<1> QED
  BY <1>1, <1>2, <1>3, PTL DEF TxSpec
=============================================================================
