------------------------------ MODULE WfbPitMode ------------------------------
(***************************************************************************)
(* Pit mode (src/pkg/server/web/pitmode.go): the ground station and the    *)
(* drone turn their power down, and up again, while the drone's            *)
(* configuration, or the ground station's, may be saved.  PitModeState.mu  *)
(* is held for the whole of Enable and Disable; each command on the drone  *)
(* has a connection of its own.                                            *)
(***************************************************************************)
EXTENDS WfbDroneConfig

CONSTANTS
  GroundPowers, FirstGroundPower  \* of the ground station, as saved and at the start

ASSUME PowerAssumption ==
  GroundPowers \subseteq Nat \ {0} /\ FirstGroundPower \in GroundPowers

VARIABLES
  pit,      \* [enabled, gs, drone] of PitModeState, pc of the request that has the lock
  ground,   \* [power] of the ground station's wlans and the manager's configuration,
            \* [config] of the server's, which is the same object if [shared], and as a
            \* history its own power, the one the start or a save asked for last
  strayed   \* history, [ground, drone]: its own power changed while pit mode was on,
            \* or setting it failed, and it has not been set since

pitVars == <<pit, ground, strayed>>
vars == <<droneVars, pitVars>>

PitPower == 1
AssumedPower == 20

Init ==
  /\ DroneInit
  /\ pit = [enabled |-> FALSE, gs |-> 0, drone |-> 0, pc |-> "idle"]
  /\ ground = [power |-> FirstGroundPower, config |-> FirstGroundPower, shared |-> TRUE,
               own |-> FirstGroundPower]
  /\ strayed = [ground |-> FALSE, drone |-> FALSE]

InPitMode == pit.enabled \/ pit.pc # "idle"

(* Manager.GetTXPower and SetTXPower: the configuration holds what the     *)
(* wlans were set to.                                                      *)
GetTXPower == ground.power
SetTXPower(power) ==
  ground' = [ground EXCEPT !.power = power, !.config = IF ground.shared THEN power ELSE @]

(* The ground station's own configuration is saved: a new object, and the  *)
(* power is set if it differs from that in the old one.  A page that       *)
(* fetched its copy in pit mode saves pit mode's power.                    *)
SaveGround ==
  /\ Spends("ground")
  /\ \E power \in GroundPowers :
       ground' = [power |-> IF power # ground.config THEN power ELSE ground.power,
                  config |-> power, shared |-> FALSE, own |-> power]
  /\ strayed' = [strayed EXCEPT !.ground =
                   IF InPitMode THEN @ \/ ground'.own # ground.own
                   ELSE @ /\ ground'.power # ground'.own]
  /\ UNCHANGED <<file, radio, camera, alink, jobs, gsChannel, handler, wanted, broken, pit>>

(* A step of the drone or of a save on it.                                 *)
DroneNoted ==
  /\ strayed' = [strayed EXCEPT !.drone =
                   IF InPitMode THEN @ \/ radio'.own # radio.own
                   ELSE @ /\ radio'.power # radio'.own]
  /\ UNCHANGED <<pit, ground>>

-----------------------------------------------------------------------------
(* Enable: the ground station is turned down first.                         *)
Enable ==
  /\ pit.pc = "idle" /\ ~pit.enabled
  /\ Spends("pits")
  /\ pit' = [pit EXCEPT !.gs = GetTXPower, !.pc = "read"]
  /\ SetTXPower(PitPower)
  /\ UNCHANGED <<file, radio, camera, alink, jobs, gsChannel, handler, wanted, broken, strayed>>

(* getDroneTXPower; 20 dBm are assumed when it fails.                       *)
ReadDrone ==
  /\ pit.pc = "read"
  /\ \/ /\ Reachable
        /\ pit' = [pit EXCEPT !.drone = radio.power, !.pc = "lower"]
        /\ UNCHANGED strayed
     \/ /\ ~Reachable
        /\ pit' = [pit EXCEPT !.drone = AssumedPower, !.pc = "lower"]
        /\ strayed' = [strayed EXCEPT !.drone = @ \/ radio.own # AssumedPower]
  /\ UNCHANGED <<droneVars, ground>>

(* setDroneTXPower(1) runs on the drone.                                    *)
LowerDrone ==
  /\ pit.pc = "lower" /\ Reachable
  /\ radio' = [radio EXCEPT !.power = PitPower]
  /\ pit' = [pit EXCEPT !.pc = "lowered"]
  /\ UNCHANGED <<file, camera, alink, jobs, gsChannel, handler, wanted, broken, left,
                 ground, strayed>>

Enabled ==
  /\ pit.pc = "lowered" /\ Reachable
  /\ pit' = [pit EXCEPT !.enabled = TRUE, !.pc = "idle"]
  /\ UNCHANGED <<droneVars, ground, strayed>>

(* Mutant: the ground station is left at its low power.                     *)
EnableFailsAlone ==
  /\ \/ pit.pc = "lower" /\ ~Reachable
     \/ pit.pc = "lowered" /\ CutOff
  /\ pit' = [pit EXCEPT !.pc = "idle"]
  /\ strayed' = [strayed EXCEPT !.drone = @ \/ pit.pc = "lowered"]
  /\ UNCHANGED <<droneVars, ground>>

(* The drone cannot be reached, or its answer is lost: the ground station  *)
(* is turned up again.                                                     *)
EnableFails ==
  /\ \/ pit.pc = "lower" /\ ~Reachable
     \/ pit.pc = "lowered" /\ CutOff
  /\ SetTXPower(pit.gs)
  /\ pit' = [pit EXCEPT !.pc = "idle"]
  /\ strayed' = [strayed EXCEPT !.drone = @ \/ pit.pc = "lowered"]
  /\ UNCHANGED droneVars

(* Disable; what fails is reported, and pit mode ends nevertheless.         *)
Disable ==
  /\ pit.pc = "idle" /\ pit.enabled
  /\ SetTXPower(pit.gs)
  /\ pit' = [pit EXCEPT !.pc = "raise"]
  /\ UNCHANGED <<droneVars, strayed>>

RaiseDrone ==
  /\ pit.pc = "raise" /\ Reachable
  /\ radio' = [radio EXCEPT !.power = pit.drone]
  /\ pit' = [pit EXCEPT !.pc = "raised"]
  /\ UNCHANGED <<file, camera, alink, jobs, gsChannel, handler, wanted, broken, left,
                 ground, strayed>>

Disabled ==
  /\ \/ pit.pc = "raised" /\ (Reachable \/ CutOff) /\ UNCHANGED strayed
     \/ /\ pit.pc = "raise" /\ ~Reachable
        /\ strayed' = [strayed EXCEPT !.drone = TRUE]
  /\ pit' = [pit EXCEPT !.enabled = FALSE, !.pc = "idle"]
  /\ UNCHANGED <<droneVars, ground>>

PitStep == ReadDrone \/ LowerDrone \/ Enabled \/ EnableFails \/ RaiseDrone \/ Disabled

Next ==
  \/ DroneNext /\ DroneNoted
  \/ SaveGround \/ Enable \/ Disable \/ PitStep

Spec == Init /\ [][Next]_vars

(* Shells run on, and what was sent arrives or its connection times out.   *)
Fairness ==
  /\ WF_vars(DroneRuns /\ DroneNoted)
  /\ \A h \in Handlers : WF_vars(RequestStep(h) /\ DroneNoted)
  /\ WF_vars(PitStep)

FairSpec == Spec /\ Fairness

-----------------------------------------------------------------------------
(***************************************************************************)
(* Properties                                                              *)
(***************************************************************************)
Sections == {"channel", "radio", "camera", "alink", "profiles"}

(* The types; no job is empty, and a command is only waited for by a       *)
(* request that has one.                                                   *)
DroneTypeOK ==
  /\ DOMAIN file = Sections
  /\ file.channel \in Channels /\ radio.channel \in Channels /\ gsChannel \in Channels
  /\ {file.radio, file.camera, file.alink} \subseteq Settings
  /\ file.profiles.strays \in Nat
  /\ radio.params \in Settings \union {"adapted"}
  /\ {radio.power, radio.own, ground.power, ground.own, ground.config} \subseteq Nat
  /\ camera \in Settings
  /\ alink.alink \in Settings \union {"stopped"}
  /\ DOMAIN jobs \subseteq Handlers \X {"line", "wfb", "alink"}
  /\ \A id \in DOMAIN jobs : Len(jobs[id]) \in 1 .. 3
  /\ \A h \in Handlers : handler[h].sent => handler[h].todo # <<>>
  /\ wanted \in (SUBSET BOOLEAN) \ {{}} /\ broken \in BOOLEAN
  /\ pit.pc \in {"idle", "read", "lower", "lowered", "raise", "raised"}
  /\ {pit.enabled, ground.shared, strayed.ground, strayed.drone} \subseteq BOOLEAN

(* On a drone nobody works on, the camera follows its file, and the radio  *)
(* its channel, modulation and code; and no request waits for an answer    *)
(* without a command.                                                      *)
DroneInv == DroneTypeOK /\ RunningFollowsFiles

(* Outside pit mode both sides transmit with their own power: the ground   *)
(* station with the one last saved, also when pit mode could not be        *)
(* enabled, and the drone with the one that wfb-ng or alink_drone set      *)
(* last.  Except that Disable puts back the power from before when another *)
(* was set in pit mode, or 20 dBm were assumed, or a failure left the      *)
(* drone low (the next Enable takes the low power for its own); until the  *)
(* power is set again.                                                     *)
PowerRestored ==
  ~InPitMode =>
    /\ ground.power = ground.own \/ strayed.ground
    /\ radio.power = radio.own \/ strayed.drone

(* Not so in the code: "Disable pit mode? This will restore normal TX      *)
(* power." (web/static/js/app.js:140).  A save of another tx_power that    *)
(* restarts wfb-ng in pit mode is answered and applied, and Disable puts   *)
(* the older power back (pitmode.go:151), though nothing fails.            *)
ConfiguredPowerRestored ==
  Quiet /\ ~broken /\ radio.params # "adapted" /\ ~InPitMode =>
    radio.power = TXPower[file.radio]

(* Nor this: "This will reduce TX power to minimum on GS and drone"        *)
(* (app.js:139).  A restart of wfb-ng by a save, or the next profile of    *)
(* alink_drone, sets the power again, and pit mode stays enabled.          *)
LowInPitMode == pit.enabled /\ pit.pc = "idle" => radio.power = PitPower

(* A request for pit mode is answered, while others wait for its lock.      *)
PitAnswered == pit.pc # "idle" ~> pit.pc = "idle"

(* Both handlers of the web page answer in the end.                         *)
RequestsAnswered == SaveAnswered /\ PitAnswered
=============================================================================
