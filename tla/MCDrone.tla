------------------------------- MODULE MCDrone -------------------------------
(* Instances of WfbPitMode for TLC.                                         *)
EXTENDS WfbPitMode

TwoSettings == {"a", "b"}
TwoChannels == {1, 2}
PageEdits == {"channel", "enabled"}
PartialSaves == {{"camera"}, {"alink"}, {"radio"}}
PowerOf == [a |-> 20, b |-> 25]
LowProfile == {15}
SavedPowers == {1, 20}

Budget(saves, reboots, failures, retunes, pits, saved) ==
  [saves |-> saves, reboots |-> reboots, failures |-> failures,
   retunes |-> retunes, pits |-> pits, ground |-> saved]

(* Two saves that overlap; one save with every fault; pit mode, twice, with *)
(* a save on the drone, or with a fault and saves on the ground station.    *)
Scenarios == {Budget(2, 0, 0, 0, 0, 0), Budget(1, 1, 1, 1, 0, 0), Budget(1, 0, 0, 0, 2, 0),
              Budget(0, 0, 0, 1, 2, 2)}
ASave == {Budget(1, 0, 0, 0, 0, 0)}
=============================================================================
