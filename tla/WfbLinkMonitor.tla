---------------------------- MODULE WfbLinkMonitor ----------------------------
(***************************************************************************)
(* The ground station's side of the adaptive link: LinkMonitor             *)
(* (src/pkg/adaptive/link.go), with the statistics the server hands it     *)
(* (startAdaptiveLink in src/pkg/server/server.go).  One goroutine turns   *)
(* the statistics of the antennas and of the video stream into a report    *)
(* per update interval.                                                    *)
(*                                                                         *)
(* Scores, percentages and noise are integers of a coarser scale.          *)
(***************************************************************************)
EXTENDS Integers, FiniteSets, FiniteSetsExt

CONSTANTS
  ScoreMin, ScoreMax,
  RSSIMin, RSSIMax, SNRMin, SNRMax,
  MinNoise, MaxNoise,        \* of the penalty; those of the FEC change are the same
  NoiseCeiling,              \* bound: the largest error ratio
  IDRMax,                    \* IDRMaxMessages
  CounterMod,                \* the counters are uint32
  Codes                      \* keyframe codes, small numbers

ASSUME MonitorAssumption ==
  /\ {ScoreMin, ScoreMax, MinNoise, MaxNoise, NoiseCeiling} \subseteq Nat
  /\ {RSSIMin, RSSIMax, SNRMin, SNRMax} \subseteq Int
  /\ ScoreMin <= ScoreMax /\ RSSIMin < RSSIMax /\ SNRMin < SNRMax /\ MinNoise < MaxNoise
  /\ IDRMax \in Nat \ {0} /\ CounterMod \in Nat \ {0, 1}
  /\ Codes \subseteq Nat \ {0} /\ IsFiniteSet(Codes)

VARIABLES
  monitorConfig, \* [idr, noise]: AllowIDR; AllowPenalty and AllowFECIncrease
  prevLost,      \* prevLost
  kalman,        \* kalmanEstimate
  keyframe       \* [code, remaining]

monitorVars == <<monitorConfig, prevLost, kalman, keyframe>>

Silent == [code |-> 0, remaining |-> 0]

MonitorInit ==
  /\ prevLost = 0
  /\ kalman = 0
  /\ keyframe = Silent

(* NewLinkMonitor for the same configuration, as after a restart.          *)
NewMonitor == prevLost' = 0 /\ kalman' = 0 /\ keyframe' = Silent /\ UNCHANGED monitorConfig

-----------------------------------------------------------------------------
(* normalize, in percent                                                    *)
Normalize(value, lo, hi) ==
  Max({0, Min({100, (100 * (value - lo)) \div (hi - lo)})})

(* The combined score of the antennas, [rssi, snr] each, equal weights.    *)
RawScore(antennas) ==
  LET rssi == Max({a.rssi : a \in antennas})
      snr  == Max({a.snr : a \in antennas})
      percent == (Normalize(snr, SNRMin, SNRMax) + Normalize(rssi, RSSIMin, RSSIMax)) \div 2
  IN ScoreMin + (percent * (ScoreMax - ScoreMin)) \div 100

(* The share of the score that noise takes away, in percent, with the      *)
(* exponent 0.5 as pow approximates it.                                    *)
Deduction(noise) ==
  IF noise <= MinNoise THEN 0
  ELSE Min({100, 50 + (50 * (noise - MinNoise)) \div (MaxNoise - MinNoise)})

FinalScore(raw, noise) ==
  IF monitorConfig.noise THEN ScoreMin + ((raw - ScoreMin) * (100 - Deduction(noise))) \div 100
                         ELSE raw

FECChange(noise) ==
  IF ~monitorConfig.noise \/ noise <= MinNoise THEN 0
  ELSE IF noise >= MaxNoise THEN 5
  ELSE (5 * (noise - MinNoise)) \div (MaxNoise - MinNoise)

(* kalmanFilterUpdate: the gain is between 0 and 1, so the new estimate is *)
(* somewhere between the old one and the measurement.                      *)
Between(a, b) == Min({a, b}) .. Max({a, b})

(* Lost packets since the last update.                                      *)
DeltaLost(lost) == (lost - prevLost) % CounterMod

(* generateKeyframeCode: random, so taken to differ from the codes around. *)
FreshCode(around) == CHOOSE c \in Codes \ around : TRUE

(* Mutant: no new request while one is being sent.                         *)
RequestedOnce(lost, around) ==
  IF DeltaLost(lost) > 0 /\ monitorConfig.idr /\ keyframe.remaining = 0
    THEN [code |-> FreshCode(around), remaining |-> IDRMax]
    ELSE keyframe

(* The keyframe request after this update's loss, before it is sent.       *)
Requested(lost, around) ==
  IF DeltaLost(lost) > 0 /\ monitorConfig.idr
    THEN [code |-> FreshCode(around \union {keyframe.code}), remaining |-> IDRMax]
    ELSE keyframe

AfterSending(k) ==
  IF k.remaining <= 1 THEN Silent ELSE [k EXCEPT !.remaining = @ - 1]

(* What an update may find: the noise it uses, and the estimate it keeps.  *)
(* Without packets since the last update there is no measurement and the   *)
(* noise is 0 for this report.                                             *)
Measured(lost) ==
  LET least == IF DeltaLost(lost) > 0 THEN 1 ELSE 0
  IN IF ~monitorConfig.noise THEN {[noise |-> 0, estimate |-> kalman]}
     ELSE {[noise |-> e, estimate |-> e] :
             e \in UNION {Between(kalman, ratio) : ratio \in least .. NoiseCeiling}}
          \union {[noise |-> 0, estimate |-> kalman]}

(* processAndSend with an antenna at least: the report it sends, ...        *)
ReportSent(antennas, lost, around, m) ==
  [score |-> FinalScore(RawScore(antennas), m.noise), fecChange |-> FECChange(m.noise),
   code |-> Requested(lost, around).code]

(* ... and what it leaves.                                                  *)
ProcessAndSend(lost, around, m) ==
  /\ kalman' = m.estimate
  /\ prevLost' = lost
  /\ keyframe' = AfterSending(Requested(lost, around))
  /\ UNCHANGED monitorConfig
=============================================================================
