------------------------------ MODULE MCServer ------------------------------
(* Instances of WfbServer for TLC.                                         *)
EXTENDS WfbServer, TLC

Config(streams, adaptive) == [streams |-> streams, adaptive |-> adaptive]

Settings(compared, others) == [compared |-> compared, others |-> others]

Adapted == Config("video" :> Settings(1, 1), TRUE)

(* From the first to the second the stream changes and the adaptive link   *)
(* is switched off; to the third a stream is added, and one changes where  *)
(* streamsEqual does not look.                                             *)
ThreeConfigs ==
  {Adapted,
   Config("video" :> Settings(2, 1), FALSE),
   Config("video" :> Settings(1, 2) @@ "tunnel" :> Settings(1, 1), TRUE)}

TwoWlans == {0, 1}
=============================================================================
