---------------------------- MODULE WfbFragments ----------------------------
(***************************************************************************)
(* What an FEC fragment carries, and what the erasure decoder makes of a   *)
(* block (pkg/fec/zfex.go, pkg/protocol/packets.go).                       *)
(*                                                                         *)
(* Bytes are abstracted to what the properties tell apart.  A data shard   *)
(* is a payload, an empty packet (the keepalive) or FEC_ONLY padding.  A   *)
(* parity shard is a function of the k data shards it was encoded from,    *)
(* so it is represented by that code word.  Decoding an inconsistent set   *)
(* of shards yields bytes nobody sent: Garbage.                            *)
(***************************************************************************)
EXTENDS Integers, FiniteSets

CONSTANT Bodies          \* everything a fragment may carry, and Garbage

(* FragmentSizes[f] = 0 in the receive ring: no such fragment yet.         *)
Missing == [kind |-> "missing"]

(* WFB_PACKET_FEC_ONLY: closes a block, carries nothing.                   *)
Pad == [kind |-> "pad"]

(* A data packet with PacketSize = 0.                                      *)
Empty == [kind |-> "empty"]

Data(pkt) == [kind |-> "data", pkt |-> pkt]

Parity(word) == [kind |-> "parity", word |-> word]

Garbage == [kind |-> "garbage"]

ASSUME BodiesAssumption ==
  /\ Missing \notin Bodies
  /\ {Pad, Empty, Garbage} \subseteq Bodies
  /\ \A b \in Bodies : b.kind = "parity" =>
       \A f \in DOMAIN b.word : b.word[f] \in Bodies

Present(frags, F) == {f \in F : frags[f] # Missing}

(***************************************************************************)
(* Reconstruct puts the data shards it has in place and fills each gap     *)
(* with the next available parity shard, lowest index first; the parity    *)
(* shards beyond the number of gaps are not looked at.                     *)
(***************************************************************************)
UsedParity(frags, k, n) ==
  LET gaps   == (0 .. k-1) \ Present(frags, 0 .. k-1)
      parity == Present(frags, k .. n-1)
  IN  {f \in parity : Cardinality({g \in parity : g <= f}) <= Cardinality(gaps)}

(***************************************************************************)
(* The shards used determine the data exactly when they belong to one code *)
(* word; only then is what the decoder returns what the sender encoded.    *)
(***************************************************************************)
Consistent(frags, k, n, word) ==
  /\ DOMAIN word = 0 .. k-1
  /\ \A f \in UsedParity(frags, k, n) : frags[f] = Parity(word)
  /\ \A f \in Present(frags, 0 .. k-1) : frags[f] = word[f]

WordsSeen(frags, k, n) ==
  {frags[f].word : f \in {g \in UsedParity(frags, k, n) : frags[g].kind = "parity"}}

(* A recovered shard copied to the wrong gap.                              *)
ReconstructShifted(frags, k, n) ==
  LET words == {w \in WordsSeen(frags, k, n) : Consistent(frags, k, n, w)}
  IN  [f \in DOMAIN frags |->
         IF f >= k \/ frags[f] # Missing THEN frags[f]
         ELSE IF words = {} THEN Garbage
         ELSE (CHOOSE w \in words : TRUE)[(f + 1) % k]]

(* The fragments after Reconstruct and the copy back: gaps among the data  *)
(* shards are filled, everything else is left as it was.                   *)
Reconstruct(frags, k, n) ==
  LET words == {w \in WordsSeen(frags, k, n) : Consistent(frags, k, n, w)}
  IN  [f \in DOMAIN frags |->
         IF f >= k \/ frags[f] # Missing THEN frags[f]
         ELSE IF words = {} THEN Garbage
         ELSE (CHOOSE w \in words : TRUE)[f]]

(* outputFragment drops padding and empty packets; garbage may parse as    *)
(* either, or as a payload.                                                *)
CarriesPayload(body) == body.kind \in {"data", "garbage"}
MayBeDropped(body)   == body.kind \in {"pad", "empty", "garbage"}
=============================================================================
