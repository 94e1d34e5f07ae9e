------------------------------- MODULE MCLink -------------------------------
(* Small instances of WfbLink.                                             *)
EXTENDS WfbLink

MCFecParams == {<<1, 2>>, <<2, 3>>}
MCFecFixed  == {<<2, 3>>}

MCShards == {Empty, Pad} \cup {Data(i) : i \in 1 .. MaxPackets}

MCBodies == MCShards \cup {Garbage} \cup
            {Parity(w) : w \in UNION {[0 .. p[1]-1 -> MCShards] : p \in FecParams}}

NoFaults     == {}
SilentFaults == {"silent"}
=============================================================================
