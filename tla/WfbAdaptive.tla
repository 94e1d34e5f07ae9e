----------------------------- MODULE WfbAdaptive -----------------------------
(***************************************************************************)
(* The adaptive link: a ground station's LinkMonitor that reports once per *)
(* tick over UDP through the radio to the drone's LinkReceiver.  Reports   *)
(* are lost, and come late and out of order by a tick; the ground station  *)
(* stops and comes back.  Time is WfbLinkReceiver's: one tick is an update *)
(* interval.                                                               *)
(***************************************************************************)
EXTENDS WfbLinkReceiver, WfbLinkMonitor

CONSTANT
  Scenarios  \* which parts of the link a behaviour uses, see ScenarioType

(* signals: what the antennas may receive, as int8; losable, restarts,     *)
(* drops, receiver.failures: bounds; slow, lingers, stops, losses: whether *)
(* commands under the lock and those of the encoder take ticks, the        *)
(* monitor stops, the stream loses packets; specials: other programs'      *)
(* messages.                                                               *)
ScenarioType ==
  [receiver : [dynamicFEC : BOOLEAN, idrOnChange : BOOLEAN, failures : Nat],
   monitor  : [idr : BOOLEAN, noise : BOOLEAN],
   signals  : SUBSET SUBSET [rssi : -128 .. 127, snr : -128 .. 127],
   losable  : Nat, restarts : Nat,
   slow : BOOLEAN, lingers : BOOLEAN, stops : BOOLEAN, losses : BOOLEAN, drops : Nat,
   specials : SUBSET [type : {"request_keyframe", "pause_adaptive", "resume_adaptive"},
                      score : {0}, fecChange : {0}, code : Codes \union {NoCode}]]

ASSUME ScenarioAssumption == Scenarios \subseteq ScenarioType

VARIABLES
  scenario,
  signal,     \* the antennas that receive
  lost,       \* the stream's counter of lost packets
  gs,         \* the ground station's monitor: "up" or "stopped"
  due,        \* it has not reported in this tick
  net,        \* reports on the way and in the socket's buffer: [msg, late]
  spent,      \* bound counters: reports lost, restarts, wlan drops
  unrepaired  \* a packet was lost and no keyframe asked for since

worldVars == <<scenario, signal, lost, gs, due, net, spent, unrepaired>>
vars == <<receiverVars, monitorVars, worldVars>>

Init ==
  /\ scenario \in Scenarios
  /\ receiverConfig = scenario.receiver /\ monitorConfig = scenario.monitor
  /\ signal \in scenario.signals
  /\ lost = 0 /\ gs = "up" /\ due = TRUE
  /\ net = {}
  /\ spent = [reports |-> 0, restarts |-> 0, drops |-> 0]
  /\ unrepaired = FALSE
  /\ ReceiverInit /\ MonitorInit

-----------------------------------------------------------------------------
(***************************************************************************)
(* The ground station.  What happens to it matters to its next update      *)
(* only, and is left to happen just before.                                *)
(***************************************************************************)
Around == {m.msg.code : m \in net} \union DOMAIN codes \union {m.code : m \in scenario.specials}

Send(r) == net' = net \union {[msg |-> Report(r.score, r.fecChange, r.code), late |-> 0]}

(* updateLoop: without an antenna there is nothing to report.              *)
MonitorUpdate ==
  /\ gs = "up" /\ due
  /\ due' = FALSE
  /\ \/ signal = {} /\ UNCHANGED <<monitorVars, net>>
     \/ /\ signal # {}
        /\ \E m \in Measured(lost) :
             /\ ProcessAndSend(lost, Around, m)
             /\ Send(ReportSent(signal, lost, Around, m))
  /\ UNCHANGED <<receiverVars, scenario, signal, lost, gs, spent, unrepaired>>

(* One packet of the stream at most between two reports: more make no      *)
(* difference, but for 2^32 of them.                                       *)
StreamLoses ==
  /\ scenario.losses /\ due /\ DeltaLost(lost) = 0
  /\ lost' = (lost + 1) % CounterMod
  /\ unrepaired' = (gs = "up" /\ signal # {})
  /\ UNCHANGED <<receiverVars, monitorVars, scenario, signal, gs, due, net, spent>>

SignalChanges ==
  /\ due
  /\ signal' \in scenario.signals \ {signal}
  /\ UNCHANGED <<receiverVars, monitorVars, scenario, lost, gs, due, net, spent, unrepaired>>

(* Stop, and a new monitor after a restart: requests are forgotten.        *)
MonitorStops ==
  /\ scenario.stops /\ gs = "up" /\ due
  /\ gs' = "stopped" /\ unrepaired' = FALSE
  /\ UNCHANGED <<receiverVars, monitorVars, scenario, signal, lost, due, net, spent>>

MonitorRestarts ==
  /\ gs = "stopped" /\ spent.restarts < scenario.restarts
  /\ gs' = "up" /\ due' = FALSE
  /\ spent' = [spent EXCEPT !.restarts = @ + 1]
  /\ NewMonitor
  /\ UNCHANGED <<receiverVars, scenario, signal, lost, net, unrepaired>>

-----------------------------------------------------------------------------
(***************************************************************************)
(* The way to the drone                                                    *)
(***************************************************************************)
ReportLost(m) ==
  /\ spent.reports < scenario.losable
  /\ spent' = [spent EXCEPT !.reports = @ + 1]
  /\ net' = net \ {m}
  /\ UNCHANGED <<receiverVars, monitorVars, scenario, signal, lost, gs, due, unrepaired>>

ReportArrives(m) ==
  /\ ReceiveReport(m.msg)
  /\ net' = net \ {m}
  /\ UNCHANGED <<monitorVars, scenario, signal, lost, gs, due, spent, unrepaired>>

SpecialArrives(m) ==
  /\ m.type = "pause_adaptive" => ~paused
  /\ m.type = "resume_adaptive" => paused
  /\ ReceiveSpecial(m)
  /\ UNCHANGED <<monitorVars, worldVars>>

Arrives == \E m \in net : ReportArrives(m)

(* The wlan of the drone drops packets, txDroppedLoop finds it.             *)
WlanDrops ==
  /\ spent.drops < scenario.drops
  /\ spent' = [spent EXCEPT !.drops = @ + 1]
  /\ TxDropped
  /\ UNCHANGED <<monitorVars, scenario, signal, lost, gs, due, net, unrepaired>>

DroneStep(A) ==
  /\ A
  /\ unrepaired' = (unrepaired /\ ~KeyframeAsked)
  /\ UNCHANGED <<monitorVars, scenario, signal, lost, gs, due, net, spent>>

(* The ticker of the monitor is exact; a report is read within a tick,     *)
(* unless the receive loop is busy.                                        *)
Tick ==
  /\ gs = "up" => ~due
  /\ ReceiverIdle => \A m \in net : m.late = 0
  /\ scenario.slow \/ ReceiverIdle
  /\ scenario.lingers \/ NoJobs
  /\ ReceiverTick
  /\ due' = (gs = "up")
  /\ net' = {[m EXCEPT !.late = @ + 1] : m \in net}
  /\ UNCHANGED <<monitorVars, scenario, signal, lost, gs, spent, unrepaired>>

Next ==
  \/ MonitorUpdate \/ StreamLoses \/ SignalChanges \/ MonitorStops \/ MonitorRestarts
  \/ \E m \in net : ReportLost(m)
  \/ Arrives
  \/ \E m \in scenario.specials : SpecialArrives(m)
  \/ WlanDrops
  \/ DroneStep(CheckFallback) \/ DroneStep(ReceiverProceeds)
  \/ Tick

Spec == Init /\ [][Next]_vars

(* Time passes; the monitor's ticker fires, what arrived is read, handlers *)
(* and commands go on: each a bounded number of times per tick, so that    *)
(* none waits for the others for ever.  The mutex lets the fallback loop   *)
(* have it in the end.                                                     *)
Fairness ==
  /\ WF_vars(Tick)
  /\ WF_vars(MonitorUpdate \/ Arrives \/ DroneStep(ReceiverProceeds))
  /\ SF_vars(DroneStep(CheckFallback))

FairSpec == Spec /\ Fairness

-----------------------------------------------------------------------------
(***************************************************************************)
(* Properties                                                              *)
(***************************************************************************)
(* The types, and that the score sent stays in its range whatever the      *)
(* noise, and the level of dynamic FEC in the table of divisors.           *)
AdaptiveTypeOK ==
  /\ scenario \in Scenarios /\ signal \in scenario.signals
  /\ profile \in -1 .. Last
  /\ score.smoothed \in 0 .. Precision * Max({MaxScore, ScoreMax})
  /\ score.applied \in 0 .. Precision * MaxScore
  /\ \A f \in DOMAIN age : age[f] \in 0 .. AgeCap[f]
  /\ fallback \in BOOLEAN /\ paused \in BOOLEAN /\ reduced \in BOOLEAN
  /\ fecChange \in -1 .. 5
  /\ DOMAIN codes \subseteq Codes
  /\ keyframeJobs \in Nat /\ encoderJobs \in [DOMAIN Profiles -> Nat]
  /\ lock \in {"free", "receive", "fallback", "drops"} /\ slow \in 0 .. MaxSlow
  /\ Len(commands) \in 0 .. 2 /\ upset \in BOOLEAN
  /\ handling.pc \in {"read", "code", "fec", "select"}
  /\ keyframe.remaining \in 0 .. IDRMax - 1
  /\ keyframe.code = 0 <=> keyframe.remaining = 0
  /\ \A m \in net : /\ m.msg.score \in ScoreMin .. ScoreMax
                    /\ m.msg.fecChange \in 0 .. 5
                    /\ m.late \in 0 .. MaxSlow + 1

(* In fallback mode the safest profile is selected.  A report that was     *)
(* being handled when fallback set in must not raise it: while in fallback *)
(* mode checkFallback does nothing, so nothing would lower it again.       *)
FallbackIsSafest == fallback => profile = 0

(* The bitrate never exceeds what goes with the FEC in force: that of the  *)
(* profile for the profile's code, the divided one for a divided code; so  *)
(* it is when the commands of a change have run, in whatever order the     *)
(* goroutines of other changes came, unless one of its commands failed, an *)
(* encoder command of an earlier change was still running when it began    *)
(* (receiver.go:955 starts them and waits for none), or the profile has no *)
(* code (service_stream.go:310 leaves that of the one before).             *)
Settled == commands = <<>> /\ NoJobs
Goes(bitrate, k, n) ==
  \E i \in DOMAIN Profiles :
    /\ Profiles[i].n = n
    /\ \/ k = Profiles[i].k /\ bitrate <= Profiles[i].bitrate
       \/ \E l \in 1 .. 5 : /\ k = Divided(Profiles[i].k, l)
                           /\ bitrate <= Divided(Profiles[i].bitrate, l)
LoadFits == Settled /\ ~upset /\ profile >= 0 => Goes(inForce.bitrate, inForce.k, inForce.n)

(* What the code does not do, though executeFECAndBitrate runs its         *)
(* commands "in the correct order" (receiver.go:763), the FEC first when   *)
(* the bitrate grows (:767): no command of a change leaves more than goes  *)
(* with the FEC in force.  It compares with the profile's bitrate (:766),  *)
(* which no change exceeds: the bitrate that goes with a divided code      *)
(* grows before the code does, when wlan drops reduce the profile's        *)
(* bitrate or restore it, and when the level of dynamic FEC falls.         *)
ChangesInOrder ==
  [][commands' # commands /\ ~upset' /\ Goes(inForce.bitrate, inForce.k, inForce.n)
       => Goes(inForce'.bitrate, inForce'.k, inForce'.n)]_vars

(* Scores, ages and reports stay in their ranges, bitrate and FEC together. *)
AdaptiveInv == AdaptiveTypeOK /\ LoadFits

(* A ground station that falls silent leaves the drone on the safest       *)
(* profile, whatever it was doing, unless adaptation is paused.            *)
SilenceFallsBack ==
  (gs = "stopped" /\ ~paused) ~> (profile = 0 \/ gs = "up" \/ paused)

Reporting == signal # {} /\ gs = "up" /\ ~paused /\ ~monitorConfig.noise /\ slow = 0
AtItsProfile ==
  LET exact == Clamped(Precision * RawScore(signal))
      below == Clamped(exact - 1)   \* the largest float below
  IN \E s \in {exact, below} : profile = Matching(Truncated(s)) \/ ~Significant(s)

(* A signal that stays, with a receiver that keeps up, leads to its        *)
(* profile, unless it is within the hysteresis of the score applied last:  *)
(* neither the hold timers nor the smoothing nor a fallback keep the drone *)
(* elsewhere.  For a score that is the least of its profile's range this   *)
(* may be the profile below: a smoothed score that grows stops just under  *)
(* it, and is truncated (receiver.go:839, 855).                            *)
SteadyScoreReached ==
  (<>[]Reporting /\ <>[][signal' = signal]_vars) => <>[](signal # {} => AtItsProfile)

(* After a loss the encoder is asked for a keyframe, although reports are  *)
(* lost, requests limited, and their code forgotten: unless the profile's  *)
(* groups of pictures are short enough, adaptation is paused, or the       *)
(* ground station stops.                                                   *)
LossIsRepaired ==
  (unrepaired /\ monitorConfig.idr) ~>
    (~unrepaired \/ paused \/ gs = "stopped" \/ signal = {} \/ Current.gop \in 1 .. 5)
=============================================================================
