-------------------------- MODULE WfbAdaptiveProofs --------------------------
(***************************************************************************)
(* Proofs about WfbAdaptive, for all profiles, scores, timeouts, signals   *)
(* and noise: fallback mode means the safest profile, if a report is       *)
(* handled before fallback mode may be left again (PromptAssumption); and, *)
(* if keyframe codes are not used up, scores, ages and reports stay in     *)
(* their ranges, and the bitrate goes with the FEC when the commands of a  *)
(* change have run, none failed and no older encoder command ran on.       *)
(***************************************************************************)
EXTENDS WfbAdaptive, SequenceTheorems, WellFoundedInduction, TLAPS

AgeTypes == /\ age \in [{"message", "change", "entry", "keyframe", "fec", "drop"} -> Nat]
            /\ slow \in 0 .. MaxSlow

HandlingType == handling \in [pc : {"read", "code", "fec", "select"}, msg : {handling.msg}]

(* A report is handled no longer than the receiver has been busy: not at   *)
(* all when it arrives, and both grow with each tick.                      *)
HandledSince == handling.pc # "read" => age.message <= slow

(* A report that is handled in fallback mode arrived before it, for any    *)
(* that comes later is ignored or ends it: it took the timeout for         *)
(* fallback to set in, and the time since then.                            *)
HandledAcross ==
  handling.pc # "read" /\ fallback => FallbackTimeout + 1 + age.change <= slow

FallbackInv ==
  AgeTypes /\ HandlingType /\ HandledSince /\ HandledAcross /\ FallbackIsSafest

-----------------------------------------------------------------------------
LEMMA Times ==
  /\ FallbackTimeout \in Nat /\ FallbackHold \in Nat /\ MaxSlow \in Nat
  /\ HoldUp \in Nat /\ HoldDown \in Nat /\ MinBetween \in Nat
  /\ KeyframeInterval \in Nat /\ FECInterval \in Nat /\ RestoreDelay \in Nat
  BY ReceiverAssumption

LEMMA MinOfTwo ==
  ASSUME NEW a \in Nat, NEW b \in Nat
  PROVE  Min({a, b}) \in Nat /\ Min({a, b}) <= a
  <1>1. \E x \in {a, b} : \A y \in {a, b} : x <= y
    OBVIOUS
  <1>2. Min({a, b}) \in {a, b} /\ \A y \in {a, b} : Min({a, b}) <= y
    BY <1>1 DEF Min
  <1> QED
    BY <1>2

LEMMA MaxOfFour ==
  ASSUME NEW a \in Nat, NEW b \in Nat, NEW c \in Nat, NEW d \in Nat
  PROVE  Max({a, b, c, d}) \in Nat
  <1>1. \E x \in {a, b, c, d} : \A y \in {a, b, c, d} : x >= y
    OBVIOUS
  <1>2. Max({a, b, c, d}) \in {a, b, c, d}
    BY <1>1 DEF Max
  <1> QED
    BY <1>2

LEMMA CapTypes == AgeCap \in [{"message", "change", "entry", "keyframe", "fec", "drop"} -> Nat]
  <1>1. Max({HoldUp, HoldDown, MinBetween, FallbackHold}) \in Nat
    BY Times, MaxOfFour
  <1> QED
    BY <1>1, Times DEF AgeCap

-----------------------------------------------------------------------------
LEMMA InitFallback == Init => FallbackInv
  <1> SUFFICES ASSUME Init PROVE FallbackInv
    OBVIOUS
  <1>1. /\ age = [AgeCap EXCEPT !.message = 0] /\ slow = 0
        /\ handling = [pc |-> "read", msg |-> Special("none")] /\ fallback = FALSE
    BY DEF Init, ReceiverInit, Reading
  <1>2. AgeTypes
    BY <1>1, CapTypes, Times DEF AgeTypes
  <1> QED
    BY <1>1, <1>2 DEF FallbackInv, HandlingType, HandledSince, HandledAcross, FallbackIsSafest

(* What another machine does, and what leaves the five variables alone.    *)
LEMMA NotInvolved ==
  ASSUME FallbackInv, UNCHANGED <<age, slow, handling, fallback, profile>>
  PROVE  FallbackInv'
  BY DEF FallbackInv, AgeTypes, HandlingType, HandledSince, HandledAcross, FallbackIsSafest

(* A tick makes nothing older by more than one, and the receiver busy for  *)
(* one more.                                                               *)
LEMMA TickKeeps ==
  ASSUME FallbackInv, ReceiverTick
  PROVE  FallbackInv'
  <1>1. \A f \in DOMAIN age : Min({age[f] + 1, AgeCap[f]}) \in Nat
                              /\ Min({age[f] + 1, AgeCap[f]}) <= age[f] + 1
    BY CapTypes, MinOfTwo DEF FallbackInv, AgeTypes
  <1>2. /\ age' = [f \in DOMAIN age |-> Min({age[f] + 1, AgeCap[f]})]
        /\ UNCHANGED <<profile, fallback, handling>>
    BY DEF ReceiverTick
  <1>3. /\ age' \in [{"message", "change", "entry", "keyframe", "fec", "drop"} -> Nat]
        /\ age'.message <= age.message + 1 /\ age'.change <= age.change + 1
    BY <1>1, <1>2 DEF FallbackInv, AgeTypes
  <1>4. /\ slow' \in 0 .. MaxSlow
        /\ handling.pc # "read" => slow' = slow + 1
    BY Times DEF ReceiverTick, ReceiverIdle, FallbackInv, AgeTypes
  <1> QED
    BY <1>2, <1>3, <1>4, Times DEF FallbackInv, AgeTypes, HandlingType, HandledSince,
       HandledAcross, FallbackIsSafest

LEMMA CheckFallbackKeeps ==
  ASSUME FallbackInv, CheckFallback
  PROVE  FallbackInv'
  <1>1. /\ age' = [age EXCEPT !.entry = 0, !.change = 0] /\ fallback' = TRUE
        /\ profile' = 0 /\ UNCHANGED <<handling, slow>> /\ age.message > FallbackTimeout
    BY DEF CheckFallback, ApplyProfile
  <1>2. age' \in [{"message", "change", "entry", "keyframe", "fec", "drop"} -> Nat]
        /\ age'.message = age.message /\ age'.change = 0
    BY <1>1 DEF FallbackInv, AgeTypes
  <1> QED
    BY <1>1, <1>2, Times DEF FallbackInv, AgeTypes, HandlingType, HandledSince, HandledAcross,
       FallbackIsSafest

(* A report is ignored, or ends fallback mode before it is handled.        *)
LEMMA ReceiveKeeps ==
  ASSUME FallbackInv, NEW msg, ReceiveReport(msg)
  PROVE  FallbackInv'
  <1> DEFINE ignored == paused \/ (fallback /\ age.entry < FallbackHold)
  <1>1. /\ age' = [age EXCEPT !.message = 0,
                              !.entry = IF ~ignored /\ fallback THEN FallbackHold ELSE @]
        /\ handling' = IF ignored THEN Reading
                       ELSE [pc |-> IF msg.code # NoCode THEN "code" ELSE "fec", msg |-> msg]
        /\ fallback' = (fallback /\ ~(~ignored /\ fallback))
        /\ UNCHANGED <<profile, slow>>
    BY DEF ReceiveReport
  <1>2. age' \in [{"message", "change", "entry", "keyframe", "fec", "drop"} -> Nat]
        /\ age'.message = 0
    BY <1>1, Times DEF FallbackInv, AgeTypes
  <1>3. HandlingType'
    BY <1>1 DEF HandlingType, Reading
  <1>4. handling'.pc # "read" => ~ignored
    BY <1>1 DEF Reading
  <1>5. fallback' => fallback /\ ignored
    BY <1>1
  <1>6. HandledAcross'
    BY <1>4, <1>5 DEF HandledAcross
  <1>7. HandledSince' /\ AgeTypes'
    BY <1>1, <1>2 DEF FallbackInv, AgeTypes, HandledSince
  <1>8. FallbackIsSafest'
    BY <1>1, <1>5 DEF FallbackInv, FallbackIsSafest
  <1> QED
    BY <1>3, <1>6, <1>7, <1>8 DEF FallbackInv

(* The only step that may raise the profile: in fallback mode its hold     *)
(* time has not passed, by the time the report took.                       *)
LEMMA SelectKeeps ==
  ASSUME FallbackInv, SelectAndApplyProfile
  PROVE  FallbackInv'
  <1>1. handling.pc = "select" /\ handling' = Reading /\ UNCHANGED <<fallback, slow>>
    BY DEF SelectAndApplyProfile, ApplyProfile
  <1>2. ASSUME fallback, NEW i, NEW s PROVE ~MayChange(i, s)
    <2>1. FallbackTimeout + 1 + age.change <= MaxSlow
      BY <1>1, <1>2, Times DEF FallbackInv, HandledAcross, AgeTypes
    <2>2. age.change < FallbackHold
      BY <2>1, PromptAssumption, Times DEF FallbackInv, AgeTypes
    <2>3. profile = 0 /\ Hold(i) = FallbackHold
      BY <1>2 DEF FallbackInv, FallbackIsSafest, Hold
    <2>4. age.change \in Nat
      BY DEF FallbackInv, AgeTypes
    <2> QED
      BY <2>2, <2>3, <2>4, Times DEF MayChange
  <1>3. fallback => profile' = profile
    BY <1>2 DEF SelectAndApplyProfile
  <1>4. age' \in {age, [age EXCEPT !.change = 0]}
    BY DEF SelectAndApplyProfile
  <1>5. AgeTypes'
    BY <1>1, <1>4 DEF FallbackInv, AgeTypes
  <1> QED
    BY <1>1, <1>3, <1>5 DEF FallbackInv, HandlingType, HandledSince, HandledAcross,
       FallbackIsSafest, Reading

(* The steps in between, which take no time.                               *)
LEMMA HandlingKeeps ==
  ASSUME FallbackInv, HandleKeyframeCode \/ HandleDynamicFEC
  PROVE  FallbackInv'
  <1>1. /\ handling.pc # "read" /\ UNCHANGED <<fallback, slow, profile>>
        /\ \/ handling' = [handling EXCEPT !.pc = "fec"]
           \/ handling' = [handling EXCEPT !.pc = "select"]
        /\ age' \in {age, [age EXCEPT !.fec = 0]}
    BY DEF HandleKeyframeCode, HandleDynamicFEC
  <1>2. AgeTypes' /\ age'.message = age.message /\ age'.change = age.change
    BY <1>1 DEF FallbackInv, AgeTypes
  <1>3. HandlingType' /\ handling'.pc # "read"
    BY <1>1 DEF FallbackInv, HandlingType
  <1> QED
    BY <1>1, <1>2, <1>3 DEF FallbackInv, HandledSince, HandledAcross, FallbackIsSafest

(* The goroutines that do not touch the profile.                           *)
LEMMA OthersKeep ==
  ASSUME FallbackInv,
         \/ TxDropped \/ RestoreBitrate \/ ExecuteKeyframeCommand \/ Unlock
         \/ \E works : RunCommand(works)
         \/ \E i, works : ExecuteEncoderCommand(i, works)
  PROVE  FallbackInv'
  <1>1. UNCHANGED <<handling, fallback, slow, profile>>
    BY DEF TxDropped, RestoreBitrate, ExecuteKeyframeCommand, Unlock, RunCommand,
       ExecuteEncoderCommand
  <1>2. age' \in {age, [age EXCEPT !.drop = 0], [age EXCEPT !.keyframe = 0]}
    BY DEF TxDropped, RestoreBitrate, ExecuteKeyframeCommand, Unlock, RunCommand,
       ExecuteEncoderCommand
  <1>3. AgeTypes' /\ age'.message = age.message /\ age'.change = age.change
    BY <1>1, <1>2 DEF FallbackInv, AgeTypes
  <1> QED
    BY <1>1, <1>3 DEF FallbackInv, HandlingType, HandledSince, HandledAcross, FallbackIsSafest

LEMMA ProceedsKeeps ==
  ASSUME FallbackInv, ReceiverProceeds
  PROVE  FallbackInv'
  BY HandlingKeeps, SelectKeeps, OthersKeep DEF ReceiverProceeds

LEMMA NextFallback == FallbackInv /\ [Next]_vars => FallbackInv'
  <1> SUFFICES ASSUME FallbackInv, [Next]_vars PROVE FallbackInv'
    OBVIOUS
  <1>1. CASE MonitorUpdate \/ StreamLoses \/ SignalChanges \/ MonitorStops \/ MonitorRestarts
    BY <1>1, NotInvolved
       DEF MonitorUpdate, StreamLoses, SignalChanges, MonitorStops, MonitorRestarts, receiverVars
  <1>2. ASSUME NEW m \in net, ReportLost(m) PROVE FallbackInv'
    BY <1>2, NotInvolved DEF ReportLost, receiverVars
  <1>3. CASE Arrives
    BY <1>3, ReceiveKeeps DEF Arrives, ReportArrives
  <1>4. ASSUME NEW t \in scenario.specials, SpecialArrives(t) PROVE FallbackInv'
    BY <1>4, NotInvolved DEF SpecialArrives, ReceiveSpecial
  <1>5. CASE WlanDrops
    BY <1>5, OthersKeep DEF WlanDrops
  <1>6. CASE DroneStep(CheckFallback)
    BY <1>6, CheckFallbackKeeps DEF DroneStep
  <1>7. CASE DroneStep(ReceiverProceeds)
    BY <1>7, ProceedsKeeps DEF DroneStep
  <1>8. CASE Tick
    BY <1>8, TickKeeps DEF Tick
  <1>9. CASE UNCHANGED vars
    BY <1>9, NotInvolved DEF vars, receiverVars
  <1> QED
    BY <1>1, <1>2, <1>3, <1>4, <1>5, <1>6, <1>7, <1>8, <1>9 DEF Next

(* In fallback mode the safest profile is selected, although a report that *)
(* was being handled when it set in goes on.                               *)
THEOREM FallbackHolds == Spec => []FallbackIsSafest
<1>1. FallbackInv => FallbackIsSafest
  BY DEF FallbackInv
<1> QED
  BY <1>1, InitFallback, NextFallback, PTL DEF Spec

-----------------------------------------------------------------------------
(***************************************************************************)
(* The ranges, and bitrate and FEC together.                               *)
(***************************************************************************)
(* A report as a monitor sends it.                                         *)
ReportOK(msg) ==
  /\ msg.type = "report" /\ msg.score \in ScoreMin .. ScoreMax
  /\ msg.fecChange \in 0 .. 5 /\ msg.code \in Codes \union {NoCode}

(* Reports on the way are late because the receiver is busy.               *)
OnTheWay ==
  \A m \in net : /\ m = [msg |-> m.msg, late |-> m.late]
                 /\ ReportOK(m.msg) /\ m.late \in 0 .. slow + 1

InHand ==
  /\ handling.pc # "read" => ReportOK(handling.msg)
  /\ handling.pc = "code" => handling.msg.code # NoCode

Smoothest == Precision * Max({MaxScore, ScoreMax})
ScoreType == [smoothed : 0 .. Smoothest, initialized : BOOLEAN, applied : 0 .. Precision * MaxScore]

SelectionTypes ==
  /\ profile \in -1 .. Last
  /\ score \in ScoreType
  /\ \A f \in DOMAIN age : age[f] <= AgeCap[f]
  /\ fallback \in BOOLEAN /\ paused \in BOOLEAN
  /\ fecChange \in -1 .. 5

ForceType == [k : Nat, n : Nat, bitrate : Nat]
CommandType == [sets : {"fec", "bitrate"}, k : Nat, n : Nat, bitrate : Nat]

ChangeTypes ==
  /\ inForce \in ForceType
  /\ commands \in Seq(CommandType) /\ Len(commands) \in 0 .. 2
  /\ encoderJobs \in [DOMAIN Profiles -> Nat]
  /\ upset \in BOOLEAN /\ reduced \in BOOLEAN
  /\ lock \in {"free", "receive", "fallback", "drops"}

CodeTypes == DOMAIN codes \subseteq Codes /\ keyframeJobs \in Nat

MonitorTypes ==
  /\ scenario \in Scenarios /\ signal \in scenario.signals
  /\ kalman \in Nat
  /\ keyframe \in [code : Codes \union {NoCode}, remaining : 0 .. IDRMax - 1]
  /\ keyframe.code = NoCode <=> keyframe.remaining = 0

(* Its own code and bitrate at most, or both divided.                      *)
Fits(b, k, n, p) ==
  /\ n = p.n
  /\ \/ k = p.k /\ b <= p.bitrate
     \/ \E l \in 1 .. 5 : k = Divided(p.k, l) /\ b <= Divided(p.bitrate, l)

(* A change that goes undisturbed: done; with the encoder's command to     *)
(* come, the code being already the new one's; or with two commands to     *)
(* run, or one when the other's value is in force.  A code that is refused *)
(* leaves the one in force.                                                *)
Done ==
  /\ NoJobs /\ commands = <<>>
  /\ profile >= 0 => /\ IsCode(inForce.k, inForce.n)
                     /\ Fits(inForce.bitrate, inForce.k, inForce.n, Profiles[profile])
EncoderToCome ==
  /\ commands = <<>> /\ profile \in DOMAIN Profiles
  /\ encoderJobs = [i \in DOMAIN Profiles |-> IF i = profile THEN 1 ELSE 0]
  /\ inForce.k = Profiles[profile].k /\ inForce.n = Profiles[profile].n
  /\ IsCode(inForce.k, inForce.n)
Sets(what, c) == [sets |-> what, k |-> c.k, n |-> c.n, bitrate |-> c.bitrate]
InForce(c) == inForce.k = c.k /\ inForce.n = c.n
Brings(d, c) ==
  /\ d.bitrate = c.bitrate
  /\ IsCode(d.k, d.n) => d.k = c.k /\ d.n = c.n
  /\ ~IsCode(d.k, d.n) => InForce(c)
CommandsToCome ==
  /\ NoJobs /\ profile \in DOMAIN Profiles
  /\ \E c, d \in ForceType :
       /\ IsCode(c.k, c.n) /\ Fits(c.bitrate, c.k, c.n, Profiles[profile])
       /\ Brings(d, c)
       /\ \/ commands = <<Sets("fec", d), Sets("bitrate", d)>>
          \/ commands = <<Sets("bitrate", d), Sets("fec", d)>>
          \/ commands = <<Sets("bitrate", d)>> /\ InForce(c)
          \/ commands = <<Sets("fec", d)>> /\ inForce.bitrate = c.bitrate

LoadInv ==
  /\ commands # <<>> => ~Free
  /\ ~upset => Done \/ EncoderToCome \/ CommandsToCome

TypesInv == OnTheWay /\ InHand /\ SelectionTypes /\ CodeTypes /\ ChangeTypes /\ MonitorTypes

(* Nobody uses some of the random codes.                                   *)
CodesLeft == Codes \ (Around \union {keyframe.code}) # {}

-----------------------------------------------------------------------------
(* Minima and maxima.                                                      *)
LEMMA LeastExists ==
  ASSUME NEW T \in SUBSET Nat, T # {}
  PROVE  \E x \in T : \A y \in T : x <= y
  <1> DEFINE R == OpToRel(<, Nat)
  <1>1. IsWellFoundedOn(R, Nat)
    BY NatLessThanWellFounded
  <1>2. \A x, y \in Nat : <<y, x>> \in R <=> y < x
    BY DEF OpToRel
  <1>3. T \subseteq Nat
    OBVIOUS
  <1> HIDE DEF R
  <1>4. PICK x \in T : \A y \in T : ~(<<y, x>> \in R)
    BY <1>1, <1>3, WFMin
  <1>5. ASSUME NEW y \in T PROVE x <= y
    <2>1. x \in Nat /\ y \in Nat /\ ~(<<y, x>> \in R)
      BY <1>3, <1>4
    <2>2. ~(y < x)
      BY <1>2, <2>1
    <2> QED
      BY <2>1, <2>2
  <1> QED
    BY <1>5

LEMMA MinOfNaturals ==
  ASSUME NEW T \in SUBSET Nat, T # {}
  PROVE  Min(T) \in T
  BY LeastExists DEF Min

(* Of numbers below a bound, as those of a byte.                           *)
LEMMA MaxOfBounded ==
  ASSUME NEW T \in SUBSET (-128 .. 127), T # {}
  PROVE  Max(T) \in T
  <1> DEFINE D == {d \in Nat : 127 - d \in T}
  <1>1. D \in SUBSET Nat /\ D # {}
    <2>1. PICK x \in T : TRUE
      OBVIOUS
    <2>2. 127 - x \in Nat /\ 127 - (127 - x) = x
      OBVIOUS
    <2>3. 127 - x \in D
      BY <2>2
    <2> QED
      BY <2>3
  <1>2. PICK d \in D : \A e \in D : d <= e
    <2> HIDE DEF D
    <2> QED
      BY <1>1, LeastExists
  <1>3. 127 - d \in T /\ d \in Nat
    OBVIOUS
  <1>4. ASSUME NEW y \in T PROVE 127 - d >= y
    <2>1. y \in -128 .. 127
      OBVIOUS
    <2>2. 127 - y \in Nat /\ 127 - (127 - y) = y
      BY <2>1
    <2>3. 127 - y \in D
      BY <2>2
    <2>4. d <= 127 - y
      BY <1>2, <2>3
    <2> QED
      BY <1>3, <2>1, <2>4
  <1>5. \E x \in T : \A y \in T : x >= y
    BY <1>3, <1>4
  <1> QED
    BY <1>5 DEF Max

LEMMA MinMaxOfTwo ==
  ASSUME NEW a \in Int, NEW b \in Int
  PROVE  /\ Min({a, b}) = IF a <= b THEN a ELSE b
         /\ Max({a, b}) = IF a >= b THEN a ELSE b
  <1>1. \E x \in {a, b} : \A y \in {a, b} : x <= y
    OBVIOUS
  <1>2. Min({a, b}) \in {a, b} /\ \A y \in {a, b} : Min({a, b}) <= y
    BY <1>1 DEF Min
  <1>3. \E x \in {a, b} : \A y \in {a, b} : x >= y
    OBVIOUS
  <1>4. Max({a, b}) \in {a, b} /\ \A y \in {a, b} : Max({a, b}) >= y
    BY <1>3 DEF Max
  <1> QED
    BY <1>2, <1>4

LEMMA ScoreTypes ==
  /\ MinScore \in Nat \ {0} /\ MaxScore \in Nat /\ MinScore <= MaxScore
  /\ ScoreMin \in Nat /\ ScoreMax \in Nat /\ ScoreMin <= ScoreMax
  /\ Smoothest \in Nat /\ Precision * MaxScore <= Smoothest /\ Precision * ScoreMax <= Smoothest
  /\ Last \in Nat /\ DOMAIN Profiles = 0 .. Last
  <1>1. /\ MinScore \in Nat \ {0} /\ MaxScore \in Nat /\ MinScore <= MaxScore
        /\ ScoreMin \in Nat /\ ScoreMax \in Nat /\ ScoreMin <= ScoreMax
        /\ Last \in Nat /\ DOMAIN Profiles = 0 .. Last
    BY ReceiverAssumption, MonitorAssumption
  <1>2. Smoothest = Precision * IF MaxScore >= ScoreMax THEN MaxScore ELSE ScoreMax
    <2>1. MaxScore \in Int /\ ScoreMax \in Int
      BY <1>1
    <2>2. Max({MaxScore, ScoreMax}) = IF MaxScore >= ScoreMax THEN MaxScore ELSE ScoreMax
      BY ONLY <2>1, MinMaxOfTwo
    <2> QED
      BY <2>2 DEF Smoothest
  <1> QED
    BY <1>1, <1>2 DEF Precision

(* Quotients and parts.                                                    *)
LEMMA Quotient ==
  ASSUME NEW a \in Nat, NEW d \in Nat \ {0}, NEW c \in Nat, a <= c * d
  PROVE  a \div d \in 0 .. c
  OBVIOUS

LEMMA QuotientMonotone ==
  ASSUME NEW a \in Nat, NEW d \in Nat \ {0}, NEW e \in Nat \ {0}, d <= e
  PROVE  a \div e <= a \div d /\ a \div e \in Nat /\ a \div d \in Nat
  OBVIOUS

LEMMA Product ==
  ASSUME NEW a \in Nat, NEW b \in Nat, NEW c \in Nat, b <= c
  PROVE  a * b \in Nat /\ a * b <= a * c
  OBVIOUS

(* The share b of c of a number.                                           *)
LEMMA PartOf ==
  ASSUME NEW a \in Nat, NEW b \in Nat, NEW c \in Nat \ {0}, b <= c
  PROVE  (a * b) \div c \in 0 .. a
  BY Product, Quotient

(* The levels of dynamic FEC divide more and more.                         *)
LEMMA DividedMonotone ==
  ASSUME NEW x \in Nat, NEW l \in 1 .. 5, NEW f \in 1 .. 5, l <= f
  PROVE  /\ Divided(x, f) \in Nat /\ Divided(x, l) \in Nat
         /\ Divided(x, f) <= Divided(x, l)
  <1>1. \A i \in 1 .. 5 : Denominator[i] \in Nat \ {0}
    BY DEF Denominator
  <1>2. Denominator[l] <= Denominator[f]
    BY DEF Denominator
  <1>3. x * 100 \in Nat
    OBVIOUS
  <1> QED
    BY <1>1, <1>2, <1>3, QuotientMonotone DEF Divided
-----------------------------------------------------------------------------
(* What a monitor sends.                                                   *)
LEMMA MonitorConstants ==
  /\ RSSIMin \in Int /\ RSSIMax \in Int /\ RSSIMin < RSSIMax
  /\ SNRMin \in Int /\ SNRMax \in Int /\ SNRMin < SNRMax
  /\ MinNoise \in Nat /\ MaxNoise \in Nat /\ MinNoise < MaxNoise
  /\ NoiseCeiling \in Nat /\ IDRMax \in Nat \ {0}
  /\ Codes \subseteq Nat \ {0}
  BY MonitorAssumption

LEMMA NormalizeRange ==
  ASSUME NEW value \in Int, NEW lo \in Int, NEW hi \in Int, lo < hi
  PROVE  Normalize(value, lo, hi) \in 0 .. 100
  <1>1. PICK e : e = (100 * (value - lo)) \div (hi - lo)
    OBVIOUS
  <1>2. e \in Int
    <2>1. 100 * (value - lo) \in Int /\ hi - lo \in Nat \ {0}
      OBVIOUS
    <2> QED
      BY <1>1, <2>1
  <1>3. PICK m : m = Min({100, e})
    OBVIOUS
  <1>4. m \in Int /\ m <= 100
    <2>1. Min({100, e}) = IF 100 <= e THEN 100 ELSE e
      BY ONLY <1>2, MinMaxOfTwo
    <2> QED
      BY <1>2, <1>3, <2>1
  <1>5. Max({0, m}) = IF 0 >= m THEN 0 ELSE m
    BY ONLY <1>4, MinMaxOfTwo
  <1>6. Normalize(value, lo, hi) = Max({0, m})
    BY <1>1, <1>3 DEF Normalize
  <1> QED
    BY <1>4, <1>5, <1>6

LEMMA RawScoreRange ==
  ASSUME NEW A \in SUBSET [rssi : -128 .. 127, snr : -128 .. 127], A # {}
  PROVE  RawScore(A) \in ScoreMin .. ScoreMax
  <1>1. PICK rssi \in -128 .. 127 : rssi = Max({a.rssi : a \in A})
    <2>1. {a.rssi : a \in A} \in SUBSET (-128 .. 127) /\ {a.rssi : a \in A} # {}
      OBVIOUS
    <2>2. Max({a.rssi : a \in A}) \in {a.rssi : a \in A}
      BY <2>1, MaxOfBounded
    <2> QED
      BY <2>1, <2>2
  <1>2. PICK snr \in -128 .. 127 : snr = Max({a.snr : a \in A})
    <2>1. {a.snr : a \in A} \in SUBSET (-128 .. 127) /\ {a.snr : a \in A} # {}
      OBVIOUS
    <2>2. Max({a.snr : a \in A}) \in {a.snr : a \in A}
      BY <2>1, MaxOfBounded
    <2> QED
      BY <2>1, <2>2
  <1>3. PICK p \in 0 .. 100 :
          p = (Normalize(snr, SNRMin, SNRMax) + Normalize(rssi, RSSIMin, RSSIMax)) \div 2
    <2>1. Normalize(snr, SNRMin, SNRMax) \in 0 .. 100
      <3>1. snr \in Int /\ SNRMin \in Int /\ SNRMax \in Int /\ SNRMin < SNRMax
        BY MonitorConstants
      <3> QED
        BY ONLY <3>1, NormalizeRange
    <2>2. Normalize(rssi, RSSIMin, RSSIMax) \in 0 .. 100
      <3>1. rssi \in Int /\ RSSIMin \in Int /\ RSSIMax \in Int /\ RSSIMin < RSSIMax
        BY MonitorConstants
      <3> QED
        BY ONLY <3>1, NormalizeRange
    <2> QED
      BY <2>1, <2>2
  <1>4. RawScore(A) = ScoreMin + (p * (ScoreMax - ScoreMin)) \div 100
    BY <1>1, <1>2, <1>3 DEF RawScore
  <1>5. PICK w \in Nat : w = ScoreMax - ScoreMin
    BY ScoreTypes
  <1>6. p * w = w * p /\ (w * p) \div 100 \in 0 .. w
    <2>1. p \in Nat /\ p <= 100
      OBVIOUS
    <2> QED
      BY <2>1, PartOf
  <1> QED
    BY <1>4, <1>5, <1>6, ScoreTypes

LEMMA DeductionRange ==
  ASSUME NEW noise \in Nat
  PROVE  Deduction(noise) \in 0 .. 100
  <1>1. CASE noise <= MinNoise
    BY <1>1 DEF Deduction
  <1>2. CASE noise > MinNoise
    <2>1. PICK q : q = (50 * (noise - MinNoise)) \div (MaxNoise - MinNoise)
      OBVIOUS
    <2>2. q \in Nat
      <3>1. 50 * (noise - MinNoise) \in Nat /\ MaxNoise - MinNoise \in Nat \ {0}
        BY <1>2, MonitorConstants
      <3> QED
        BY <2>1, <3>1
    <2>3. PICK s \in Nat : s = 50 + q
      BY <2>2
    <2>4. Min({100, s}) = IF 100 <= s THEN 100 ELSE s
      BY ONLY <2>3, MinMaxOfTwo
    <2>5. Deduction(noise) = Min({100, s})
      BY <1>2, <2>1, <2>3, MonitorConstants DEF Deduction
    <2> QED
      BY <2>3, <2>4, <2>5
  <1> QED
    BY <1>1, <1>2, MonitorConstants

LEMMA FinalScoreRange ==
  ASSUME NEW raw \in ScoreMin .. ScoreMax, NEW noise \in Nat
  PROVE  FinalScore(raw, noise) \in ScoreMin .. ScoreMax
  <1>1. CASE ~monitorConfig.noise
    BY <1>1 DEF FinalScore
  <1>2. CASE monitorConfig.noise
    <2>1. PICK d \in 0 .. 100 : d = Deduction(noise)
      BY DeductionRange
    <2>2. PICK w \in Nat : w = raw - ScoreMin
      BY ScoreTypes
    <2>3. PICK r \in Nat : r = 100 - d /\ r <= 100
      BY <2>1
    <2>4. (w * r) \div 100 \in 0 .. w
      BY <2>3, PartOf
    <2>5. FinalScore(raw, noise) = ScoreMin + (w * r) \div 100
      BY <1>2, <2>1, <2>2, <2>3 DEF FinalScore
    <2> QED
      BY <2>2, <2>4, <2>5, ScoreTypes
  <1> QED
    BY <1>1, <1>2

LEMMA FECChangeRange ==
  ASSUME NEW noise \in Nat
  PROVE  FECChange(noise) \in 0 .. 5
  <1>1. CASE ~monitorConfig.noise \/ noise <= MinNoise
    BY <1>1 DEF FECChange
  <1>2. CASE monitorConfig.noise /\ noise > MinNoise /\ noise >= MaxNoise
    <2>1. ~(noise <= MinNoise)
      BY <1>2, MonitorConstants
    <2> QED
      BY <1>2, <2>1 DEF FECChange
  <1>3. CASE monitorConfig.noise /\ noise > MinNoise /\ noise < MaxNoise
    <2>1. PICK a \in Nat, d \in Nat \ {0} : a = 5 * (noise - MinNoise) /\ d = MaxNoise - MinNoise
      BY <1>3, MonitorConstants
    <2>2. a <= 5 * d
      BY <1>3, <2>1, MonitorConstants
    <2>3. a \div d \in 0 .. 5
      BY <2>2, Quotient
    <2>4. ~(noise <= MinNoise) /\ ~(noise >= MaxNoise)
      BY <1>3, MonitorConstants
    <2>5. FECChange(noise) = a \div d
      BY <1>3, <2>1, <2>4 DEF FECChange
    <2> QED
      BY <2>3, <2>5
  <1>4. noise <= MinNoise \/ noise > MinNoise
    BY MonitorConstants
  <1>5. noise >= MaxNoise \/ noise < MaxNoise
    BY MonitorConstants
  <1> QED
    BY <1>1, <1>2, <1>3, <1>4, <1>5

LEMMA BetweenRange ==
  ASSUME NEW a \in Nat, NEW b \in Nat, NEW e \in Between(a, b)
  PROVE  e \in Nat
  <1>1. /\ Min({a, b}) = IF a <= b THEN a ELSE b
        /\ Max({a, b}) = IF a >= b THEN a ELSE b
    <2>1. a \in Int /\ b \in Int
      OBVIOUS
    <2> QED
      BY ONLY <2>1, MinMaxOfTwo
  <1>2. e \in (IF a <= b THEN a ELSE b) .. (IF a >= b THEN a ELSE b)
    BY <1>1 DEF Between
  <1> QED
    BY <1>2

LEMMA MeasuredTypes ==
  ASSUME kalman \in Nat, NEW m \in Measured(lost)
  PROVE  m.noise \in Nat /\ m.estimate \in Nat
  <1> DEFINE least == IF DeltaLost(lost) > 0 THEN 1 ELSE 0
  <1>1. \/ m = [noise |-> 0, estimate |-> kalman]
        \/ \E ratio \in least .. NoiseCeiling : \E e \in Between(kalman, ratio) :
             m = [noise |-> e, estimate |-> e]
    BY DEF Measured
  <1>2. CASE m = [noise |-> 0, estimate |-> kalman]
    BY <1>2
  <1>3. ASSUME NEW ratio \in least .. NoiseCeiling, NEW e \in Between(kalman, ratio),
               m = [noise |-> e, estimate |-> e]
        PROVE  m.noise \in Nat /\ m.estimate \in Nat
    <2>1. ratio \in Nat
      BY MonitorConstants
    <2>2. e \in Nat
      BY <2>1, BetweenRange
    <2> QED
      BY <1>3, <2>2
  <1> QED
    BY <1>1, <1>2, <1>3

(* A request has a code that nobody uses.                                  *)
LEMMA RequestedTypes ==
  ASSUME CodesLeft, MonitorTypes, NEW k, k = Requested(lost, Around)
  PROVE  /\ k.code \in Codes \union {NoCode} /\ k.remaining \in 0 .. IDRMax
         /\ k.code = NoCode <=> k.remaining = 0
         /\ k = [code |-> k.code, remaining |-> k.remaining]
  <1>1. FreshCode(Around \union {keyframe.code}) \in Codes
    BY DEF FreshCode, CodesLeft
  <1>2. \A c \in Codes : c # NoCode
    BY MonitorConstants DEF NoCode
  <1>3. keyframe = [code |-> keyframe.code, remaining |-> keyframe.remaining]
    BY DEF MonitorTypes
  <1>4. CASE k = [code |-> FreshCode(Around \union {keyframe.code}), remaining |-> IDRMax]
    <2>1. PICK c \in Codes : k = [code |-> c, remaining |-> IDRMax]
      BY <1>1, <1>4
    <2>2. k.code = c /\ k.remaining = IDRMax
      BY <2>1
    <2>3. c # NoCode /\ IDRMax \in 0 .. IDRMax /\ IDRMax # 0
      BY <1>2, MonitorConstants
    <2> QED
      BY <2>1, <2>2, <2>3
  <1>5. CASE k = keyframe
    BY <1>3, <1>5, MonitorConstants DEF MonitorTypes
  <1>6. \/ k = [code |-> FreshCode(Around \union {keyframe.code}), remaining |-> IDRMax]
        \/ k = keyframe
    BY Zenon DEF Requested
  <1> QED
    BY <1>4, <1>5, <1>6

LEMMA AfterSendingTypes ==
  ASSUME NEW k, k.code \in Codes \union {NoCode}, k.remaining \in 0 .. IDRMax,
         k.code = NoCode <=> k.remaining = 0,
         k = [code |-> k.code, remaining |-> k.remaining]
  PROVE  /\ AfterSending(k) \in [code : Codes \union {NoCode}, remaining : 0 .. IDRMax - 1]
         /\ AfterSending(k).code = NoCode <=> AfterSending(k).remaining = 0
  <1>1. CASE k.remaining <= 1
    BY <1>1, MonitorConstants DEF AfterSending, Silent, NoCode
  <1>2. CASE k.remaining > 1
    <2>1. AfterSending(k) = [code |-> k.code, remaining |-> k.remaining - 1]
      BY <1>2, MonitorConstants DEF AfterSending
    <2> QED
      BY <1>2, <2>1, MonitorConstants
  <1> QED
    BY <1>1, <1>2, MonitorConstants

(* A report that is sent is one, and what the monitor keeps has its types. *)
LEMMA UpdateTypes ==
  ASSUME CodesLeft, MonitorTypes, signal # {}, NEW m \in Measured(lost),
         ProcessAndSend(lost, Around, m)
  PROVE  /\ LET r == ReportSent(signal, lost, Around, m)
            IN  ReportOK(Report(r.score, r.fecChange, r.code))
         /\ kalman' \in Nat
         /\ keyframe' \in [code : Codes \union {NoCode}, remaining : 0 .. IDRMax - 1]
         /\ keyframe'.code = NoCode <=> keyframe'.remaining = 0
  <1>1. m.noise \in Nat /\ m.estimate \in Nat
    BY MeasuredTypes DEF MonitorTypes
  <1>2. signal \in SUBSET [rssi : -128 .. 127, snr : -128 .. 127]
    BY ScenarioAssumption DEF MonitorTypes, ScenarioType
  <1>3. FinalScore(RawScore(signal), m.noise) \in ScoreMin .. ScoreMax
    BY <1>1, <1>2, RawScoreRange, FinalScoreRange
  <1>4. FECChange(m.noise) \in 0 .. 5
    BY <1>1, FECChangeRange
  <1>5. PICK k : k = Requested(lost, Around)
    OBVIOUS
  <1>6. /\ k.code \in Codes \union {NoCode} /\ k.remaining \in 0 .. IDRMax
        /\ k.code = NoCode <=> k.remaining = 0
        /\ k = [code |-> k.code, remaining |-> k.remaining]
    BY <1>5, RequestedTypes
  <1>7. LET r == ReportSent(signal, lost, Around, m)
        IN  ReportOK(Report(r.score, r.fecChange, r.code))
    BY <1>3, <1>4, <1>5, <1>6 DEF ReportSent, Report, ReportOK
  <1>8. kalman' = m.estimate /\ keyframe' = AfterSending(k)
    BY <1>5 DEF ProcessAndSend
  <1> QED
    BY <1>1, <1>6, <1>7, <1>8, AfterSendingTypes
-----------------------------------------------------------------------------
(* What the receiver selects.                                              *)
LEMMA LeftRange ==
  ASSUME NEW d \in Nat, NEW left \in Left(d)
  PROVE  left \in 0 .. d
  <1>1. PICK u \in Nat : u = SmoothUp - 1 /\ SmoothUp \in Nat \ {0} /\ u <= SmoothUp
    BY ReceiverAssumption
  <1>2. PICK whole : whole = (d * u) \div SmoothUp
    OBVIOUS
  <1>3. whole \in 0 .. d
    BY <1>1, <1>2, PartOf
  <1>4. left = whole \/ (left = whole + 1 /\ whole * SmoothUp < d * u)
    BY <1>1, <1>2 DEF Left
  <1>5. d * u <= d * SmoothUp
    BY <1>1, Product
  <1>6. whole = d => ~(whole * SmoothUp < d * u)
    BY <1>1, <1>5
  <1> QED
    BY <1>3, <1>4, <1>6

LEMMA SmoothedRange ==
  ASSUME SelectionTypes, NEW raw \in 0 .. ScoreMax, NEW x \in Smoothed(raw)
  PROVE  x \in 0 .. Smoothest
  <1> PICK s \in 0 .. Smoothest : s = score.smoothed
    BY DEF SelectionTypes, ScoreType
  <1> PICK exact : exact = Precision * raw
    OBVIOUS
  <1>1. exact \in Nat /\ exact <= Smoothest /\ s \in Nat /\ s <= Smoothest /\ Smoothest \in Nat
    BY ScoreTypes DEF Precision
  <1>2. \/ x = exact
        \/ exact >= s /\ \E left \in Left(exact - s) : x = exact - left
        \/ ~(exact >= s) /\ \E left \in Left(s - exact) : x = exact + left
    BY Zenon DEF Smoothed
  <1>3. ASSUME exact >= s, NEW left \in Left(exact - s), x = exact - left
        PROVE  x \in 0 .. Smoothest
    <2>1. PICK d \in Nat : d = exact - s
      BY <1>1, <1>3
    <2>2. left \in 0 .. d
      BY <1>3, <2>1, LeftRange
    <2> QED
      BY <1>1, <1>3, <2>1, <2>2
  <1>4. ASSUME ~(exact >= s), NEW left \in Left(s - exact), x = exact + left
        PROVE  x \in 0 .. Smoothest
    <2>1. PICK d \in Nat : d = s - exact
      BY <1>1, <1>4
    <2>2. left \in 0 .. d
      BY <1>4, <2>1, LeftRange
    <2> QED
      BY <1>1, <1>4, <2>1, <2>2
  <1> QED
    BY <1>1, <1>2, <1>3, <1>4

LEMMA ClampedRange ==
  ASSUME NEW s \in Nat
  PROVE  Clamped(s) \in 0 .. Precision * MaxScore
  <1>1. PICK least \in Nat, most \in Nat :
          least = Precision * MinScore /\ most = Precision * MaxScore /\ least <= most
    BY ScoreTypes DEF Precision
  <1>2. s \in Int /\ least \in Int /\ most \in Int
    OBVIOUS
  <1>3. PICK m \in Int : m = Min({most, s}) /\ m <= most
    <2>1. Min({most, s}) = IF most <= s THEN most ELSE s
      BY ONLY <1>2, MinMaxOfTwo
    <2> QED
      BY <1>2, <2>1
  <1>4. Max({least, m}) = IF least >= m THEN least ELSE m
    BY ONLY <1>2, <1>3, MinMaxOfTwo
  <1> QED
    BY <1>1, <1>3, <1>4 DEF Clamped

LEMMA MatchingIsProfile == \A s : Matching(s) \in DOMAIN Profiles
  <1> TAKE s
  <1> PICK hits : hits = {i \in DOMAIN Profiles : Profiles[i].min <= s /\ s <= Profiles[i].max}
    OBVIOUS
  <1>1. CASE hits = {}
    BY <1>1, ScoreTypes DEF Matching
  <1>2. CASE hits # {}
    <2>1. hits \in SUBSET Nat /\ hits \subseteq DOMAIN Profiles
      BY ScoreTypes
    <2>2. Min(hits) \in hits
      BY <1>2, <2>1, MinOfNaturals
    <2> QED
      BY <1>2, <2>1, <2>2 DEF Matching
  <1> QED
    BY <1>1, <1>2

LEMMA ProfileTypes ==
  \A i \in DOMAIN Profiles :
    /\ i \in Nat /\ i \in -1 .. Last
    /\ Profiles[i].k \in Nat /\ Profiles[i].n \in Nat /\ Profiles[i].bitrate \in Nat
  <1> TAKE i \in DOMAIN Profiles
  <1>1. Profiles[i] \in [min : Int, max : Int, k : Nat, n : Nat, bitrate : Nat, gop : Nat]
    BY ReceiverAssumption
  <1>2. i \in Nat /\ i \in -1 .. Last
    BY ScoreTypes
  <1> QED
    BY <1>1, <1>2

LEMMA CurrentTypes ==
  ASSUME SelectionTypes
  PROVE  Current.k \in Nat /\ Current.n \in Nat /\ Current.bitrate \in Nat
  <1>1. profile \in -1 .. Last
    BY DEF SelectionTypes
  <1>2. CASE profile < 0
    BY <1>2 DEF Current
  <1>3. CASE ~(profile < 0)
    <2>1. profile \in DOMAIN Profiles
      BY <1>1, <1>3, ScoreTypes
    <2> QED
      BY <1>3, <2>1, ProfileTypes DEF Current
  <1> QED
    BY <1>2, <1>3

LEMMA JobsTypes ==
  ASSUME CodeTypes, NEW condition, RequestKeyframe(condition)
  PROVE  keyframeJobs' \in Nat
  BY DEF CodeTypes, RequestKeyframe

LEMMA ApplySelects ==
  ASSUME CodeTypes, NEW i \in DOMAIN Profiles, NEW who, ApplyProfile(i, who)
  PROVE  profile' \in -1 .. Last /\ keyframeJobs' \in Nat
  <1>1. i \in -1 .. Last /\ profile' = i
    BY ProfileTypes DEF ApplyProfile
  <1>2. keyframeJobs' \in Nat
    BY JobsTypes DEF ApplyProfile
  <1> QED
    BY <1>1, <1>2

(* Ages that are kept, or start again.                                     *)
LEMMA AgesStay ==
  ASSUME FallbackInv, SelectionTypes,
         \/ age' = age
         \/ \E f : age' = [age EXCEPT ![f] = 0]
         \/ \E f, g : age' = [age EXCEPT ![f] = 0, ![g] = 0]
         \/ age' = [age EXCEPT !.message = 0, !.entry = FallbackHold]
  PROVE  \A f \in DOMAIN age' : age'[f] <= AgeCap[f]
  <1>1. /\ age \in [{"message", "change", "entry", "keyframe", "fec", "drop"} -> Nat]
        /\ \A f \in DOMAIN age : age[f] <= AgeCap[f] /\ 0 <= AgeCap[f]
    BY CapTypes DEF FallbackInv, AgeTypes, SelectionTypes
  <1>2. AgeCap.entry = FallbackHold /\ FallbackHold \in Nat
    BY Times DEF AgeCap
  <1>3. CASE age' = age
    BY <1>1, <1>3
  <1>4. ASSUME NEW f, age' = [age EXCEPT ![f] = 0]
        PROVE  \A x \in DOMAIN age' : age'[x] <= AgeCap[x]
    BY <1>1, <1>4
  <1>5. ASSUME NEW f, NEW g, age' = [age EXCEPT ![f] = 0, ![g] = 0]
        PROVE  \A x \in DOMAIN age' : age'[x] <= AgeCap[x]
    BY <1>1, <1>5
  <1>6. CASE age' = [age EXCEPT !.message = 0, !.entry = FallbackHold]
    <2>1. DOMAIN age' = DOMAIN age
      BY <1>6
    <2>2. ASSUME NEW x \in DOMAIN age PROVE age'[x] \in {age[x], 0} \/ (x = "entry" /\ age'[x] = FallbackHold)
      BY <1>1, <1>6
    <2>3. AgeCap["entry"] = FallbackHold
      BY <1>2
    <2> QED
      BY <1>1, <1>2, <2>1, <2>2, <2>3
  <1> QED
    BY <1>3, <1>4, <1>5, <1>6
-----------------------------------------------------------------------------
(* The receiver's steps.                                                   *)
DroneTypes == InHand /\ SelectionTypes /\ CodeTypes

LEMMA FallbackTypes ==
  ASSUME FallbackInv, DroneTypes, CheckFallback
  PROVE  DroneTypes'
  <1>1. /\ fallback' = TRUE /\ age' = [age EXCEPT !.entry = 0, !.change = 0]
        /\ score' = [smoothed |-> Precision * (MinScore - 1), initialized |-> TRUE,
                     applied |-> Precision * (MinScore - 1)]
        /\ ApplyProfile(0, "fallback")
        /\ UNCHANGED <<paused, fecChange, codes, handling>>
    BY DEF CheckFallback
  <1>2. profile' \in -1 .. Last /\ keyframeJobs' \in Nat
    <2>1. 0 \in DOMAIN Profiles
      BY ScoreTypes
    <2> QED
      BY <1>1, <2>1, ApplySelects DEF DroneTypes
  <1>3. score' \in ScoreType
    <2>1. /\ Precision * (MinScore - 1) \in 0 .. Smoothest
          /\ Precision * (MinScore - 1) \in 0 .. Precision * MaxScore
      BY ScoreTypes DEF Precision
    <2> QED
      BY <1>1, <2>1 DEF ScoreType
  <1>4. \A f \in DOMAIN age' : age'[f] <= AgeCap[f]
    BY <1>1, AgesStay DEF DroneTypes
  <1> QED
    BY <1>1, <1>2, <1>3, <1>4 DEF DroneTypes, InHand, SelectionTypes, CodeTypes

LEMMA ReceiveTypes ==
  ASSUME FallbackInv, DroneTypes, NEW msg, ReportOK(msg), ReceiveReport(msg)
  PROVE  DroneTypes'
  <1> DEFINE ignored == paused \/ (fallback /\ age.entry < FallbackHold)
  <1>1. /\ fallback' = (fallback /\ ~(~ignored /\ fallback))
        /\ age' = [age EXCEPT !.message = 0,
                              !.entry = IF ~ignored /\ fallback THEN FallbackHold ELSE @]
        /\ handling' = IF ignored THEN Reading
                       ELSE [pc |-> IF msg.code # NoCode THEN "code" ELSE "fec", msg |-> msg]
        /\ UNCHANGED <<profile, score, paused, fecChange, codes, slow, keyframeJobs>>
    BY DEF ReceiveReport
  <1> HIDE DEF ignored
  <1>2. fallback' \in BOOLEAN
    BY <1>1
  <1>3. \A f \in DOMAIN age' : age'[f] <= AgeCap[f]
    <2>1. CASE ~ignored /\ fallback
      BY <1>1, <2>1, AgesStay DEF DroneTypes
    <2>2. CASE ~(~ignored /\ fallback)
      <3>1. age' = [age EXCEPT !["message"] = 0]
        BY <1>1, <2>2 DEF FallbackInv, AgeTypes
      <3> QED
        BY <3>1, AgesStay DEF DroneTypes
    <2> QED
      BY <2>1, <2>2
  <1>4. InHand'
    <2>1. CASE ignored
      BY <1>1, <2>1 DEF InHand, Reading
    <2>2. CASE ~ignored
      BY <1>1, <2>2 DEF InHand
    <2> QED
      BY <2>1, <2>2
  <1> QED
    BY <1>1, <1>2, <1>3, <1>4 DEF DroneTypes, SelectionTypes, CodeTypes

LEMMA KeyframeTypes ==
  ASSUME CodeTypes, NEW code \in Codes, KeyframeCode(code)
  PROVE  CodeTypes'
  <1>1. keyframeJobs' \in Nat
    BY JobsTypes DEF KeyframeCode
  <1>2. DOMAIN Valid \subseteq DOMAIN codes
    BY DEF Valid
  <1>3. DOMAIN codes' = DOMAIN Valid \union {x \in {code} : Taken(x)}
    BY DEF KeyframeCode
  <1> QED
    BY <1>1, <1>2, <1>3 DEF CodeTypes

(* What leaves the selection alone.                                        *)
LEMMA SelectionStays ==
  ASSUME SelectionTypes,
         UNCHANGED <<profile, score, fallback, paused, fecChange, age>>
  PROVE  SelectionTypes'
  BY DEF SelectionTypes

LEMMA SpecialTypes ==
  ASSUME FallbackInv, DroneTypes, NEW msg, msg.code \in Codes \union {NoCode}, ReceiveSpecial(msg)
  PROVE  DroneTypes'
  <1>1. /\ \/ msg.code # NoCode /\ KeyframeCode(msg.code) /\ UNCHANGED paused
           \/ paused' \in BOOLEAN /\ UNCHANGED <<codes, keyframeJobs>>
        /\ UNCHANGED <<profile, score, fallback, age, fecChange, handling>>
    BY DEF ReceiveSpecial
  <1>2. CodeTypes'
    BY <1>1, KeyframeTypes DEF DroneTypes, CodeTypes
  <1>3. SelectionTypes'
    BY <1>1 DEF DroneTypes, SelectionTypes
  <1> QED
    BY <1>1, <1>2, <1>3 DEF DroneTypes, InHand

LEMMA HandleCodeTypes ==
  ASSUME FallbackInv, DroneTypes, HandleKeyframeCode
  PROVE  DroneTypes'
  <1>1. /\ handling.pc = "code" /\ KeyframeCode(handling.msg.code)
        /\ handling' = [handling EXCEPT !.pc = "fec"]
        /\ UNCHANGED <<profile, score, fallback, paused, age, fecChange>>
    BY DEF HandleKeyframeCode
  <1>2. handling.msg.code \in Codes
    BY <1>1 DEF DroneTypes, InHand, ReportOK
  <1>3. InHand'
    BY <1>1 DEF FallbackInv, HandlingType, DroneTypes, InHand
  <1> QED
    BY <1>1, <1>2, <1>3, KeyframeTypes, SelectionStays DEF DroneTypes

LEMMA DynamicFECTypes ==
  ASSUME FallbackInv, DroneTypes, HandleDynamicFEC
  PROVE  DroneTypes'
  <1> DEFINE f       == handling.msg.fecChange
             changes == /\ receiverConfig.dynamicFEC
                        /\ f # fecChange
                        /\ f > 0 => age.fec >= FECInterval
             applies == changes /\ f \in 1 .. 5 /\ Current.k > 0 /\ Current.n > 0
  <1>1. /\ handling.pc = "fec"
        /\ fecChange' = IF changes THEN f ELSE fecChange
        /\ age' = IF applies THEN [age EXCEPT !.fec = 0] ELSE age
        /\ handling' = [handling EXCEPT !.pc = "select"]
        /\ UNCHANGED <<profile, score, fallback, paused, codes, keyframeJobs>>
    BY DEF HandleDynamicFEC
  <1>2. f \in 0 .. 5
    BY <1>1 DEF DroneTypes, InHand, ReportOK
  <1>3. fecChange' \in -1 .. 5
    <2>1. fecChange' = f \/ fecChange' = fecChange
      BY <1>1
    <2> QED
      BY <1>2, <2>1 DEF DroneTypes, SelectionTypes
  <1>4. \A x \in DOMAIN age' : age'[x] <= AgeCap[x]
    <2>1. age' = [age EXCEPT !["fec"] = 0] \/ age' = age
      BY <1>1
    <2> QED
      BY <2>1, AgesStay DEF DroneTypes
  <1>5. InHand'
    BY <1>1 DEF FallbackInv, HandlingType, DroneTypes, InHand
  <1> QED
    BY <1>1, <1>3, <1>4, <1>5 DEF DroneTypes, SelectionTypes, CodeTypes

LEMMA SelectTypes ==
  ASSUME FallbackInv, DroneTypes, SelectAndApplyProfile
  PROVE  DroneTypes'
  <1>1. handling.pc = "select" /\ handling' = Reading /\ UNCHANGED <<fallback, paused, fecChange, codes>>
    BY DEF SelectAndApplyProfile
  <1>2. PICK raw : raw = handling.msg.score
    OBVIOUS
  <1>3. raw \in 0 .. ScoreMax
    BY <1>1, <1>2, ScoreTypes DEF DroneTypes, InHand, ReportOK
  <1>4. PICK smoothed \in Smoothed(raw) :
          \/ /\ score' = [smoothed |-> smoothed, initialized |-> TRUE, applied |-> Clamped(smoothed)]
             /\ age' = [age EXCEPT !.change = 0]
             /\ ApplyProfile(Matching(Truncated(Clamped(smoothed))), "receive")
          \/ /\ score' = [score EXCEPT !.smoothed = smoothed, !.initialized = TRUE]
             /\ UNCHANGED <<profile, age, keyframeJobs>>
    BY <1>2 DEF SelectAndApplyProfile
  <1>5. smoothed \in 0 .. Smoothest
    BY <1>3, SmoothedRange DEF DroneTypes
  <1>6. PICK s : s = Clamped(smoothed)
    OBVIOUS
  <1>7. s \in 0 .. Precision * MaxScore
    <2>1. smoothed \in Nat
      BY <1>5, ScoreTypes
    <2> QED
      BY <1>6, <2>1, ClampedRange
  <1>8. PICK i : i = Matching(Truncated(s))
    OBVIOUS
  <1>9. i \in DOMAIN Profiles
    BY <1>8, MatchingIsProfile
  <1>10. score' \in ScoreType
    <2>1. CASE score' = [smoothed |-> smoothed, initialized |-> TRUE, applied |-> Clamped(smoothed)]
      BY <1>5, <1>6, <1>7, <2>1 DEF ScoreType
    <2>2. CASE score' = [score EXCEPT !.smoothed = smoothed, !.initialized = TRUE]
      BY <1>5, <2>2 DEF DroneTypes, SelectionTypes, ScoreType
    <2> QED
      BY <1>4, <2>1, <2>2
  <1>11. profile' \in -1 .. Last /\ keyframeJobs' \in Nat
    <2>1. CASE ApplyProfile(i, "receive")
      BY <1>9, <2>1, ApplySelects DEF DroneTypes
    <2>2. CASE UNCHANGED <<profile, age, keyframeJobs>>
      BY <2>2 DEF DroneTypes, SelectionTypes, CodeTypes
    <2> QED
      BY <1>4, <1>6, <1>8, <2>1, <2>2
  <1>12. \A f \in DOMAIN age' : age'[f] <= AgeCap[f]
    <2>1. age' = [age EXCEPT !["change"] = 0] \/ age' = age
      BY <1>4
    <2> QED
      BY <2>1, AgesStay DEF DroneTypes
  <1> QED
    BY <1>1, <1>10, <1>11, <1>12 DEF DroneTypes, InHand, Reading, SelectionTypes, CodeTypes

(* What changes ages and keyframe jobs at most.                             *)
LEMMA OtherTypes ==
  ASSUME FallbackInv, DroneTypes,
         \/ TxDropped \/ RestoreBitrate \/ ExecuteKeyframeCommand \/ Unlock
         \/ \E works : RunCommand(works)
         \/ \E i, works : ExecuteEncoderCommand(i, works)
  PROVE  DroneTypes'
  <1>1. UNCHANGED <<profile, score, fallback, paused, fecChange, codes, handling>>
    BY DEF TxDropped, RestoreBitrate, ExecuteKeyframeCommand, Unlock, RunCommand,
       ExecuteEncoderCommand
  <1>2. age' \in {age, [age EXCEPT !["drop"] = 0], [age EXCEPT !["keyframe"] = 0]}
    BY DEF TxDropped, RestoreBitrate, ExecuteKeyframeCommand, Unlock, RunCommand,
       ExecuteEncoderCommand
  <1>3. keyframeJobs' \in Nat
    <2>1. CASE TxDropped
      BY <2>1, JobsTypes DEF TxDropped, DroneTypes
    <2>2. CASE ExecuteKeyframeCommand
      BY <2>2 DEF ExecuteKeyframeCommand, DroneTypes, CodeTypes
    <2>3. CASE keyframeJobs' = keyframeJobs
      BY <2>3 DEF DroneTypes, CodeTypes
    <2> QED
      BY <2>1, <2>2, <2>3 DEF RestoreBitrate, Unlock, RunCommand, ExecuteEncoderCommand
  <1>4. \A f \in DOMAIN age' : age'[f] <= AgeCap[f]
    BY <1>2, AgesStay DEF DroneTypes
  <1> QED
    BY <1>1, <1>3, <1>4 DEF DroneTypes, InHand, SelectionTypes, CodeTypes

LEMMA TickTypes ==
  ASSUME FallbackInv, DroneTypes, ReceiverTick
  PROVE  DroneTypes'
  <1>1. /\ age' = [f \in DOMAIN age |-> Min({age[f] + 1, AgeCap[f]})]
        /\ DOMAIN codes' \subseteq DOMAIN codes
        /\ UNCHANGED <<profile, score, fallback, paused, fecChange, handling, keyframeJobs>>
    BY DEF ReceiverTick
  <1>2. ASSUME NEW f \in DOMAIN age PROVE Min({age[f] + 1, AgeCap[f]}) <= AgeCap[f]
    <2>1. PICK a \in Int : a = age[f] + 1
      BY DEF FallbackInv, AgeTypes
    <2>2. PICK c \in Int : c = AgeCap[f]
      BY CapTypes DEF FallbackInv, AgeTypes
    <2>3. Min({a, c}) = IF a <= c THEN a ELSE c
      BY MinMaxOfTwo
    <2> QED
      BY <2>1, <2>2, <2>3
  <1>3. \A f \in DOMAIN age' : age'[f] <= AgeCap[f]
    BY <1>1, <1>2
  <1> QED
    BY <1>1, <1>3 DEF DroneTypes, InHand, SelectionTypes, CodeTypes

LEMMA ProceedsTypes ==
  ASSUME FallbackInv, DroneTypes, ReceiverProceeds
  PROVE  DroneTypes'
  BY HandleCodeTypes, DynamicFECTypes, SelectTypes, OtherTypes DEF ReceiverProceeds

-----------------------------------------------------------------------------
(***************************************************************************)
(* Bitrate and FEC go together.                                            *)
(***************************************************************************)
LEMMA ChangeStays ==
  ASSUME ChangeTypes, LoadInv, UNCHANGED <<profile, changeVars>>
  PROVE  ChangeTypes' /\ LoadInv'
  <1>1. UNCHANGED <<profile, reduced, inForce, lock, commands, upset, encoderJobs>>
    BY DEF changeVars
  <1>2. ChangeTypes'
    BY <1>1 DEF ChangeTypes
  <1>3. (Done <=> Done') /\ (EncoderToCome <=> EncoderToCome') /\ (CommandsToCome <=> CommandsToCome')
    BY <1>1 DEF Done, EncoderToCome, CommandsToCome, NoJobs, Brings, InForce
  <1> QED
    BY <1>1, <1>2, <1>3 DEF LoadInv, Free

LEMMA SelectedProfile ==
  ASSUME SelectionTypes, profile >= 0
  PROVE  /\ profile \in DOMAIN Profiles /\ Current = Profiles[profile]
         /\ Current.k \in Nat /\ Current.n \in Nat /\ Current.bitrate \in Nat
  <1>1. profile \in -1 .. Last
    BY DEF SelectionTypes
  <1>2. profile \in DOMAIN Profiles
    BY <1>1, ScoreTypes
  <1>3. Current = Profiles[profile]
    BY <1>1 DEF Current
  <1> QED
    BY <1>2, <1>3, ProfileTypes

(* A profile is applied: its encoder command is to come.                   *)
LEMMA ApplyLoad ==
  ASSUME ChangeTypes, LoadInv, Free, NEW i \in DOMAIN Profiles,
         NEW who \in {"receive", "fallback"}, ApplyProfile(i, who)
  PROVE  ChangeTypes' /\ LoadInv'
  <1>1. commands = <<>> /\ commands' = <<>>
    BY DEF LoadInv, ApplyProfile
  <1>2. PICK works \in Outcomes :
          /\ inForce' = IF works /\ IsCode(Profiles[i].k, Profiles[i].n)
                          THEN WithFEC(Profiles[i].k, Profiles[i].n) ELSE inForce
          /\ upset' = ~(works /\ IsCode(Profiles[i].k, Profiles[i].n) /\ NoJobs)
    BY DEF ApplyProfile
  <1>3. /\ profile' = i /\ reduced' = FALSE /\ lock' = who
        /\ encoderJobs' = [encoderJobs EXCEPT ![i] = @ + 1]
    BY DEF ApplyProfile
  <1>4. Profiles[i].k \in Nat /\ Profiles[i].n \in Nat
    BY ProfileTypes
  <1>5. /\ WithFEC(Profiles[i].k, Profiles[i].n) \in ForceType
        /\ WithFEC(Profiles[i].k, Profiles[i].n).k = Profiles[i].k
        /\ WithFEC(Profiles[i].k, Profiles[i].n).n = Profiles[i].n
    BY <1>4 DEF WithFEC, ChangeTypes, ForceType
  <1>6. inForce' \in ForceType
    BY <1>2, <1>5, Zenon DEF ChangeTypes
  <1>7. encoderJobs' \in [DOMAIN Profiles -> Nat]
    BY <1>3 DEF ChangeTypes
  <1>8. upset' \in BOOLEAN /\ reduced' \in BOOLEAN
    BY <1>2, <1>3, Zenon
  <1>9. ChangeTypes'
    <2>1. commands' \in Seq(CommandType) /\ Len(commands') \in 0 .. 2
      BY <1>1 DEF ChangeTypes
    <2>2. lock' \in {"free", "receive", "fallback", "drops"}
      BY <1>3
    <2> QED
      BY <1>6, <1>7, <1>8, <2>1, <2>2 DEF ChangeTypes
  <1>10. ASSUME ~upset' PROVE EncoderToCome'
    <2>1. NoJobs /\ inForce' = WithFEC(Profiles[i].k, Profiles[i].n)
      BY <1>2, <1>10, Zenon
    <2>3. IsCode(inForce'.k, inForce'.n)
      <3>1. IsCode(Profiles[i].k, Profiles[i].n)
        BY <1>2, <1>10, Zenon
      <3> QED
        BY <1>5, <2>1, <3>1
    <2>2. encoderJobs' = [j \in DOMAIN Profiles |-> IF j = i THEN 1 ELSE 0]
      <3>1. encoderJobs \in [DOMAIN Profiles -> Nat]
        BY DEF ChangeTypes
      <3>2. \A j \in DOMAIN Profiles : encoderJobs[j] = 0
        BY <2>1 DEF NoJobs
      <3>3. \A j \in DOMAIN Profiles : encoderJobs'[j] = IF j = i THEN 1 ELSE 0
        <4> SUFFICES ASSUME NEW j \in DOMAIN Profiles
                     PROVE  encoderJobs'[j] = IF j = i THEN 1 ELSE 0
          OBVIOUS
        <4>1. encoderJobs'[j] = IF j = i THEN encoderJobs[j] + 1 ELSE encoderJobs[j]
          BY <1>3, <3>1
        <4>2. encoderJobs[j] = 0
          BY <3>2
        <4> QED
          BY <4>1, <4>2
      <3>4. PICK jobs : jobs = encoderJobs'
        OBVIOUS
      <3>5. jobs \in [DOMAIN Profiles -> Nat]
        BY <1>7, <3>4
      <3>6. \A j \in DOMAIN Profiles : jobs[j] = IF j = i THEN 1 ELSE 0
        BY <3>3, <3>4
      <3>7. jobs = [j \in DOMAIN Profiles |-> IF j = i THEN 1 ELSE 0]
        BY ONLY <3>5, <3>6
      <3> QED
        BY <3>4, <3>7
    <2> QED
      BY <1>1, <1>3, <1>5, <2>1, <2>2, <2>3 DEF EncoderToCome
  <1> QED
    BY <1>1, <1>9, <1>10 DEF LoadInv

(* Sequences of one and of two commands.                                   *)
LEMMA CommandSeqs ==
  ASSUME NEW a \in CommandType, NEW b \in CommandType
  PROVE  /\ <<a, b>> \in Seq(CommandType) /\ Len(<<a, b>>) = 2
         /\ <<a, b>> # <<>> /\ Head(<<a, b>>) = a /\ Tail(<<a, b>>) = <<b>>
         /\ <<a>> # <<>> /\ Head(<<a>>) = a /\ Tail(<<a>>) = <<>>
  <1>1. /\ <<a, b>> \in Seq(CommandType) /\ Len(<<a, b>>) = 2
        /\ <<a>> \in Seq(CommandType) /\ Len(<<a>>) = 1
    OBVIOUS
  <1>2. /\ <<a, b>> # <<>> /\ Head(<<a, b>>) = a /\ <<a>> # <<>> /\ Head(<<a>>) = a
    OBVIOUS
  <1>3. Tail(<<a, b>>) = <<b>>
    OBVIOUS
  <1>4. Tail(<<a>>) = <<>>
    OBVIOUS
  <1> QED
    BY <1>1, <1>2, <1>3, <1>4

(* executeFECAndBitrate: two commands are to come.                         *)
LEMMA ChangeLoad ==
  ASSUME ChangeTypes, LoadInv, Free, profile \in DOMAIN Profiles, profile >= 0,
         NEW k \in Nat, NEW n \in Nat, NEW b \in Nat, NEW who \in {"receive", "drops"},
         FECAndBitrate(k, n, b, who), UNCHANGED <<profile, inForce, encoderJobs>>,
         reduced' \in BOOLEAN,
         IsCode(k, n) => Fits(b, k, n, Profiles[profile]),
         ~IsCode(k, n) /\ Done => Fits(b, inForce.k, inForce.n, Profiles[profile])
  PROVE  ChangeTypes' /\ LoadInv'
  <1>1. PICK c \in ForceType : c = [k |-> k, n |-> n, bitrate |-> b]
    BY DEF ForceType
  <1>2. c.k = k /\ c.n = n /\ c.bitrate = b
    BY <1>1
  <1>3. /\ \/ commands' = <<Sets("fec", c), Sets("bitrate", c)>>
           \/ commands' = <<Sets("bitrate", c), Sets("fec", c)>>
        /\ upset' = (~NoJobs \/ (upset /\ ~IsCode(k, n))) /\ lock' = who
    BY <1>2 DEF FECAndBitrate, Sets
  <1>4. Sets("fec", c) \in CommandType /\ Sets("bitrate", c) \in CommandType
    BY <1>1 DEF Sets, CommandType, ForceType
  <1>5. ChangeTypes'
    <2>1. commands' \in Seq(CommandType) /\ Len(commands') \in 0 .. 2
      <3>1. PICK f \in CommandType, b1 \in CommandType : f = Sets("fec", c) /\ b1 = Sets("bitrate", c)
        BY <1>4
      <3>2. commands' = <<f, b1>> \/ commands' = <<b1, f>>
        BY <1>3, <3>1
      <3>3. /\ <<f, b1>> \in Seq(CommandType) /\ Len(<<f, b1>>) = 2
            /\ <<b1, f>> \in Seq(CommandType) /\ Len(<<b1, f>>) = 2
        BY CommandSeqs
      <3>4. PICK next : next = commands'
        OBVIOUS
      <3>5. next = <<f, b1>> \/ next = <<b1, f>>
        BY <3>2, <3>4
      <3>6. next \in Seq(CommandType) /\ Len(next) \in 0 .. 2
        <4>1. next \in Seq(CommandType)
          BY ONLY <3>3, <3>5
        <4>2. Len(next) = 2
          BY ONLY <3>3, <3>5
        <4> QED
          BY ONLY <4>1, <4>2
      <3> QED
        BY <3>4, <3>6
    <2>2. upset' \in BOOLEAN
      BY <1>3, Zenon
    <2>3. lock' \in {"free", "receive", "fallback", "drops"}
      BY <1>3
    <2> QED
      BY <2>1, <2>2, <2>3 DEF ChangeTypes
  <1>6. ASSUME ~upset' PROVE CommandsToCome'
    <2>1. NoJobs /\ NoJobs' /\ (~IsCode(k, n) => ~upset)
      BY <1>3, <1>6, Zenon DEF NoJobs
    <2>2. PICK e \in ForceType :
            /\ IsCode(e.k, e.n) /\ Fits(e.bitrate, e.k, e.n, Profiles[profile])
            /\ Brings(c, e)
      <3>1. CASE IsCode(k, n)
        BY <1>2, <3>1 DEF Brings
      <3>2. CASE ~IsCode(k, n)
        <4>1. Done
          <5>1. commands = <<>>
            BY DEF LoadInv
          <5>2. ~EncoderToCome
            BY <2>1 DEF EncoderToCome, NoJobs
          <5>3. ~CommandsToCome
            <6>1. \A d \in ForceType : /\ Sets("fec", d) \in CommandType
                                      /\ Sets("bitrate", d) \in CommandType
              BY DEF Sets, CommandType, ForceType
            <6>2. \A x \in CommandType, y \in CommandType : <<x, y>> # <<>> /\ <<x>> # <<>>
              BY CommandSeqs
            <6> QED
              BY <5>1, <6>1, <6>2 DEF CommandsToCome
          <5> QED
            BY <2>1, <3>2, <5>2, <5>3 DEF LoadInv
        <4>2. PICK e \in ForceType : e = [k |-> inForce.k, n |-> inForce.n, bitrate |-> b]
          BY DEF ForceType, ChangeTypes
        <4>3. e.k = inForce.k /\ e.n = inForce.n /\ e.bitrate = b
          BY <4>2
        <4> QED
          BY <1>2, <3>2, <4>1, <4>3 DEF Brings, InForce, Done
      <3> QED
        BY <3>1, <3>2
    <2>3. profile' = profile /\ Brings(c, e)'
      BY <2>2 DEF Brings, InForce
    <2> QED
      BY <1>3, <2>1, <2>2, <2>3 DEF CommandsToCome
  <1>7. ~Free'
    BY <1>3 DEF Free
  <1> QED
    BY <1>5, <1>6, <1>7 DEF LoadInv

(* A command is run: one is to come, or none.                              *)
LEMMA CommandLoad ==
  ASSUME ChangeTypes, LoadInv, NEW works \in BOOLEAN, RunCommand(works)
  PROVE  ChangeTypes' /\ LoadInv'
  <1>1. PICK command : command = Head(commands)
    OBVIOUS
  <1>2. PICK done \in BOOLEAN : done <=> works /\ (command.sets = "fec" => IsCode(command.k, command.n))
    OBVIOUS
  <1>3. /\ commands # <<>> /\ commands' = Tail(commands)
        /\ inForce' = IF ~done THEN inForce
                      ELSE IF command.sets = "fec" THEN WithFEC(command.k, command.n)
                      ELSE [inForce EXCEPT !.bitrate = command.bitrate]
        /\ UNCHANGED <<profile, reduced, lock, encoderJobs>>
    BY <1>1, <1>2, Zenon DEF RunCommand
  <1>4. upset' \in BOOLEAN /\ (~upset' => ~upset /\ works)
    BY Zenon DEF RunCommand
  <1>5. command \in CommandType
    BY <1>1, <1>3, HeadTailProperties DEF ChangeTypes
  <1>6. /\ WithFEC(command.k, command.n) \in ForceType
        /\ [inForce EXCEPT !.bitrate = command.bitrate] \in ForceType
    BY <1>5 DEF WithFEC, ChangeTypes, ForceType, CommandType
  <1>7. inForce' \in ForceType
    BY <1>3, <1>6, Zenon DEF ChangeTypes
  <1>8. commands' \in Seq(CommandType) /\ Len(commands') \in 0 .. 2
    <2>1. commands' \in Seq(CommandType) /\ Len(commands') = Len(commands) - 1
      BY <1>3, HeadTailProperties DEF ChangeTypes
    <2>2. Len(commands) \in 0 .. 2 /\ Len(commands') \in Nat
      BY <2>1 DEF ChangeTypes
    <2> QED
      BY <2>1, <2>2
  <1>9. ChangeTypes'
    BY <1>3, <1>4, <1>7, <1>8 DEF ChangeTypes
  <1>10. ASSUME ~upset' PROVE Done' \/ CommandsToCome'
    <2>1. CommandsToCome
      BY <1>3, <1>4, <1>10 DEF LoadInv, Done, EncoderToCome
    <2>2. PICK c \in ForceType, d \in ForceType :
            /\ IsCode(c.k, c.n) /\ Fits(c.bitrate, c.k, c.n, Profiles[profile])
            /\ Brings(d, c)
            /\ \/ commands = <<Sets("fec", d), Sets("bitrate", d)>>
               \/ commands = <<Sets("bitrate", d), Sets("fec", d)>>
               \/ commands = <<Sets("bitrate", d)>> /\ InForce(c)
               \/ commands = <<Sets("fec", d)>> /\ inForce.bitrate = c.bitrate
      BY <2>1 DEF CommandsToCome
    <2>3. NoJobs' /\ profile' = profile /\ profile \in DOMAIN Profiles
      BY <1>3, <2>1 DEF CommandsToCome, NoJobs
    <2>4. \/ command = Sets("fec", d) /\ commands' = <<Sets("bitrate", d)>>
          \/ command = Sets("bitrate", d) /\ commands' = <<Sets("fec", d)>>
          \/ command = Sets("bitrate", d) /\ commands' = <<>> /\ InForce(c)
          \/ command = Sets("fec", d) /\ commands' = <<>> /\ inForce.bitrate = c.bitrate
      <3>1. PICK f \in CommandType, b \in CommandType : f = Sets("fec", d) /\ b = Sets("bitrate", d)
        BY DEF Sets, CommandType, ForceType
      <3>2. \/ commands = <<f, b>>
            \/ commands = <<b, f>>
            \/ commands = <<b>> /\ InForce(c)
            \/ commands = <<f>> /\ inForce.bitrate = c.bitrate
        BY <2>2, <3>1
      <3>3. /\ Head(<<f, b>>) = f /\ Tail(<<f, b>>) = <<b>>
            /\ Head(<<b, f>>) = b /\ Tail(<<b, f>>) = <<f>>
            /\ Head(<<b>>) = b /\ Tail(<<b>>) = <<>>
            /\ Head(<<f>>) = f /\ Tail(<<f>>) = <<>>
        BY CommandSeqs
      <3>4. command = Head(commands) /\ commands' = Tail(commands)
        BY <1>1, <1>3
      <3>5. \/ command = f /\ commands' = <<b>>
            \/ command = b /\ commands' = <<f>>
            \/ command = b /\ commands' = <<>> /\ InForce(c)
            \/ command = f /\ commands' = <<>> /\ inForce.bitrate = c.bitrate
        BY ONLY <3>2, <3>3, <3>4
      <3> QED
        BY ONLY <3>1, <3>5
    <2>5. works
      BY <1>4, <1>10
    <2>6. command = Sets("fec", d) => InForce(c)' /\ inForce'.bitrate = inForce.bitrate
      <3>1. CASE command = Sets("fec", d)
        <4>1. command.sets = "fec" /\ command.k = d.k /\ command.n = d.n
          BY <3>1 DEF Sets
        <4>2. CASE IsCode(d.k, d.n)
          <5>1. inForce' = WithFEC(d.k, d.n)
            BY <1>2, <1>3, <2>5, <4>1, <4>2, Zenon
          <5> QED
            BY <2>2, <4>2, <5>1 DEF Brings, InForce, WithFEC, ChangeTypes, ForceType
        <4>3. CASE ~IsCode(d.k, d.n)
          <5>1. inForce' = inForce
            BY <1>2, <1>3, <4>1, <4>3, Zenon
          <5> QED
            BY <2>2, <4>3, <5>1 DEF Brings, InForce
        <4> QED
          BY <4>2, <4>3
      <3> QED
        BY <3>1
    <2>7. command = Sets("bitrate", d) =>
            inForce'.k = inForce.k /\ inForce'.n = inForce.n /\ inForce'.bitrate = c.bitrate
      <3>1. CASE command = Sets("bitrate", d)
        <4>1. command.sets = "bitrate" /\ command.bitrate = c.bitrate
          BY <2>2, <3>1 DEF Sets, Brings
        <4>2. inForce' = [inForce EXCEPT !.bitrate = command.bitrate]
          BY <1>2, <1>3, <2>5, <4>1, Zenon
        <4> QED
          BY <4>1, <4>2 DEF ChangeTypes, ForceType
      <3> QED
        BY <3>1
    <2>8. CASE commands' = <<>>
      <3>1. InForce(c)' /\ inForce'.bitrate = c.bitrate
        BY <2>4, <2>6, <2>7, <2>8 DEF InForce
      <3>2. /\ IsCode(inForce'.k, inForce'.n)
            /\ Fits(inForce'.bitrate, inForce'.k, inForce'.n, Profiles[profile'])
        BY <2>2, <2>3, <3>1 DEF InForce
      <3> QED
        BY <2>3, <2>8, <3>2 DEF Done
    <2>9. CASE \/ command = Sets("fec", d) /\ commands' = <<Sets("bitrate", d)>>
               \/ command = Sets("bitrate", d) /\ commands' = <<Sets("fec", d)>>
      <3>1. \/ commands' = <<Sets("bitrate", d)>> /\ InForce(c)'
            \/ commands' = <<Sets("fec", d)>> /\ inForce'.bitrate = c.bitrate
        BY <2>6, <2>7, <2>9
      <3>2. /\ IsCode(c.k, c.n) /\ Fits(c.bitrate, c.k, c.n, Profiles[profile'])
            /\ Brings(d, c)'
        BY <2>2, <2>3, <2>6, <2>7, <2>9 DEF Brings, InForce
      <3> QED
        BY <2>3, <3>1, <3>2 DEF CommandsToCome
    <2> QED
      BY <2>4, <2>8, <2>9
  <1>11. Free' <=> Free
    BY <1>3 DEF Free
  <1> QED
    BY <1>3, <1>9, <1>10, <1>11 DEF LoadInv

(* The encoder's command of the selected profile is run, or of an older    *)
(* one, when the change is upset.                                          *)
LEMMA EncoderLoad ==
  ASSUME SelectionTypes, ChangeTypes, LoadInv, NEW i \in DOMAIN Profiles,
         NEW works \in BOOLEAN, ExecuteEncoderCommand(i, works)
  PROVE  ChangeTypes' /\ LoadInv'
  <1>1. /\ encoderJobs[i] > 0
        /\ encoderJobs' = [encoderJobs EXCEPT ![i] = @ - 1]
        /\ UNCHANGED <<profile, reduced, lock, commands>>
    BY DEF ExecuteEncoderCommand
  <1>2. inForce' = IF works THEN [inForce EXCEPT !.bitrate = Profiles[i].bitrate] ELSE inForce
    BY DEF ExecuteEncoderCommand
  <1>3. upset' \in BOOLEAN /\ (~upset' => ~upset /\ works)
    BY Zenon DEF ExecuteEncoderCommand
  <1>4. [inForce EXCEPT !.bitrate = Profiles[i].bitrate] \in ForceType
    BY ProfileTypes DEF ChangeTypes, ForceType
  <1>5. inForce' \in ForceType
    BY <1>2, <1>4, Zenon DEF ChangeTypes
  <1>6. encoderJobs' \in [DOMAIN Profiles -> Nat]
    BY <1>1 DEF ChangeTypes
  <1>7. ChangeTypes'
    BY <1>1, <1>3, <1>5, <1>6 DEF ChangeTypes
  <1>8. ASSUME ~upset' PROVE Done'
    <2>1. EncoderToCome
      BY <1>1, <1>3, <1>8 DEF LoadInv, Done, CommandsToCome, NoJobs, ChangeTypes
    <2>2. i = profile
      BY <1>1, <2>1 DEF EncoderToCome
    <2>3. NoJobs'
      BY <1>1, <2>1, <2>2 DEF EncoderToCome, NoJobs
    <2>4. inForce' = [inForce EXCEPT !.bitrate = Profiles[i].bitrate]
      BY <1>2, <1>3, <1>8, Zenon
    <2>5. /\ inForce'.k = Profiles[i].k /\ inForce'.n = Profiles[i].n
          /\ inForce'.bitrate = Profiles[i].bitrate
      BY <2>1, <2>2, <2>4 DEF EncoderToCome, ChangeTypes, ForceType
    <2>6. Profiles[i].bitrate <= Profiles[i].bitrate
      BY ProfileTypes
    <2>7. Fits(inForce'.bitrate, inForce'.k, inForce'.n, Profiles[profile'])
      BY <1>1, <2>2, <2>5, <2>6 DEF Fits
    <2>8. IsCode(inForce'.k, inForce'.n)
      BY <2>1, <2>2, <2>5 DEF EncoderToCome
    <2> QED
      BY <1>1, <2>1, <2>3, <2>7, <2>8 DEF Done, EncoderToCome
  <1>9. Free' <=> Free
    BY <1>1 DEF Free
  <1> QED
    BY <1>1, <1>7, <1>8, <1>9 DEF LoadInv

LEMMA UnlockLoad ==
  ASSUME ChangeTypes, LoadInv, Unlock
  PROVE  ChangeTypes' /\ LoadInv'
  <1>1. commands = <<>> /\ lock' = "free"
        /\ UNCHANGED <<profile, reduced, inForce, commands, upset, encoderJobs>>
    BY DEF Unlock
  <1>2. ChangeTypes'
    BY <1>1 DEF ChangeTypes
  <1>3. (Done <=> Done') /\ (EncoderToCome <=> EncoderToCome') /\ (CommandsToCome <=> CommandsToCome')
    BY <1>1 DEF Done, EncoderToCome, CommandsToCome, NoJobs, Brings, InForce
  <1> QED
    BY <1>1, <1>2, <1>3 DEF LoadInv

(* A code in force that fits a profile is the profile's own, or a divided  *)
(* one of at least 1.                                                      *)
LEMMA DoneCode ==
  ASSUME SelectionTypes, ChangeTypes, Done, profile >= 0
  PROVE  /\ Profiles[profile].k > 0 /\ Profiles[profile].n > 0
         /\ Profiles[profile].k = 1 => inForce.k = 1
         /\ inForce.n = Profiles[profile].n
  <1>1. PICK p : p = Profiles[profile]
    OBVIOUS
  <1>2. p.k \in Nat /\ p.n \in Nat /\ inForce.k \in Nat /\ inForce.n \in Nat
    BY <1>1, SelectedProfile DEF ChangeTypes, ForceType
  <1>3. inForce.k > 0 /\ inForce.n > 0 /\ inForce.n = p.n
    BY <1>1 DEF Done, Fits, IsCode
  <1>4. inForce.k = p.k \/ \E l \in 1 .. 5 : inForce.k = Divided(p.k, l)
    BY <1>1 DEF Done, Fits
  <1>5. \A l \in 1 .. 5 : Divided(0, l) = 0 /\ Divided(1, l) = 0
    BY DEF Divided, Denominator
  <1>6. p.k > 0 /\ (p.k = 1 => inForce.k = 1)
    BY <1>2, <1>3, <1>4, <1>5
  <1> QED
    BY <1>1, <1>2, <1>3, <1>6

LEMMA DropLoad ==
  ASSUME SelectionTypes, ChangeTypes, LoadInv, TxDropped \/ RestoreBitrate
  PROVE  ChangeTypes' /\ LoadInv'
  <1>1. PICK p : p = Profiles[profile]
    OBVIOUS
  <1>2. /\ profile \in DOMAIN Profiles /\ Current = p
        /\ p.k \in Nat /\ p.n \in Nat /\ p.bitrate \in Nat
    BY <1>1, SelectedProfile DEF TxDropped, RestoreBitrate
  <1>3. Reduced(p.bitrate) \in Nat /\ Reduced(p.bitrate) <= p.bitrate /\ p.bitrate <= p.bitrate
    BY <1>2 DEF Reduced
  <1>4. PICK r \in Nat : r = Reduced(p.bitrate)
    BY <1>3
  <1>5. Fits(r, p.k, p.n, p) /\ Fits(p.bitrate, p.k, p.n, p)
    BY <1>3, <1>4 DEF Fits
  <1>6. \/ UNCHANGED <<profile, changeVars>>
        \/ /\ UNCHANGED <<profile, inForce, encoderJobs>> /\ reduced' \in BOOLEAN
           /\ \/ FECAndBitrate(p.k, p.n, r, "drops")
              \/ FECAndBitrate(p.k, p.n, p.bitrate, "drops")
    BY <1>2, <1>4 DEF TxDropped, RestoreBitrate, changeVars
  <1>7. PICK k \in Nat, n \in Nat, b \in Nat : k = p.k /\ n = p.n /\ b = p.bitrate
    BY <1>2
  <1>9. profile >= 0 /\ Free
    BY DEF TxDropped, RestoreBitrate
  <1>8. CASE /\ UNCHANGED <<profile, inForce, encoderJobs>> /\ reduced' \in BOOLEAN
             /\ FECAndBitrate(k, n, r, "drops") \/ FECAndBitrate(k, n, b, "drops")
    <2>1. Fits(r, k, n, Profiles[profile]) /\ Fits(b, k, n, Profiles[profile])
      BY <1>1, <1>5, <1>7
    <2>2. Done => IsCode(k, n)
      BY <1>1, <1>7, <1>9, DoneCode DEF IsCode
    <2> QED
      BY <1>2, <1>8, <1>9, <2>1, <2>2, ChangeLoad
  <1> QED
    BY <1>6, <1>7, <1>8, ChangeStays

(* Only k = 1 cannot be divided, and what is divided does not grow.        *)
LEMMA DivisibleCode ==
  ASSUME NEW x \in Nat, NEW l \in 1 .. 5, x >= 2
  PROVE  Divided(x, l) >= 1
  <1>1. /\ (x * 100) \div 111 >= 1 /\ (x * 100) \div 125 >= 1 /\ (x * 100) \div 142 >= 1
        /\ (x * 100) \div 167 >= 1 /\ (x * 100) \div 200 >= 1
    OBVIOUS
  <1>2. l = 1 \/ l = 2 \/ l = 3 \/ l = 4 \/ l = 5
    OBVIOUS
  <1> QED
    BY <1>1, <1>2 DEF Divided, Denominator

LEMMA DividedLess ==
  ASSUME NEW x \in Nat, NEW l \in 1 .. 5
  PROVE  Divided(x, l) <= x
  <1>1. Denominator[l] \in Nat \ {0} /\ 100 <= Denominator[l]
    BY DEF Denominator
  <1>2. PICK d \in Nat \ {0} : d = Denominator[l] /\ 100 <= d
    BY <1>1
  <1>3. (x * 100) \div d \in 0 .. x
    BY <1>2, PartOf
  <1> QED
    BY <1>2, <1>3 DEF Divided

LEMMA DynamicFECLoad ==
  ASSUME SelectionTypes, ChangeTypes, LoadInv, HandleDynamicFEC
  PROVE  ChangeTypes' /\ LoadInv'
  <1>1. PICK f : f = handling.msg.fecChange
    OBVIOUS
  <1>2. \/ UNCHANGED <<profile, changeVars>>
        \/ /\ f \in 1 .. 5 /\ Current.k > 0 /\ Current.n > 0 /\ Free
           /\ UNCHANGED <<profile, inForce, encoderJobs, reduced>>
           /\ FECAndBitrate(Divided(Current.k, f), Current.n, Divided(Current.bitrate, f), "receive")
    BY <1>1 DEF HandleDynamicFEC, changeVars
  <1>3. CASE /\ f \in 1 .. 5 /\ Current.k > 0 /\ Current.n > 0 /\ Free
             /\ UNCHANGED <<profile, inForce, encoderJobs, reduced>>
             /\ FECAndBitrate(Divided(Current.k, f), Current.n, Divided(Current.bitrate, f), "receive")
    <2>1. profile >= 0
      BY <1>3 DEF Current, SelectionTypes
    <2>2. PICK p : p = Profiles[profile]
      OBVIOUS
    <2>3. PICK k \in Nat, n \in Nat, b \in Nat : k = p.k /\ n = p.n /\ b = p.bitrate
      BY <2>1, <2>2, SelectedProfile
    <2>4. PICK g \in 1 .. 5 : g = f
      BY <1>3
    <2>5. Divided(k, g) \in Nat /\ Divided(b, g) \in Nat
      <3>1. g <= g
        OBVIOUS
      <3> QED
        BY <3>1, DividedMonotone
    <2>6. PICK dk \in Nat, db \in Nat : dk = Divided(k, g) /\ db = Divided(b, g) /\ db <= db
      BY <2>5
    <2>7. Fits(db, dk, n, Profiles[profile])
      BY <2>2, <2>3, <2>6 DEF Fits
    <2>8. FECAndBitrate(dk, n, db, "receive")
      BY <1>3, <2>1, <2>2, <2>3, <2>4, <2>6, SelectedProfile
    <2>9. reduced' \in BOOLEAN /\ profile \in DOMAIN Profiles
      BY <1>3, <2>1, SelectedProfile DEF ChangeTypes
    <2>10. k > 0 /\ n > 0
      BY <1>3, <2>1, <2>2, <2>3, SelectedProfile
    <2>11. ASSUME ~IsCode(dk, n), Done PROVE Fits(db, inForce.k, inForce.n, Profiles[profile])
      <3>1. k = 1
        <4>1. dk = 0
          BY <2>10, <2>11 DEF IsCode
        <4>2. k >= 2 => Divided(k, g) >= 1
          BY DivisibleCode
        <4>3. ~ k >= 2
          BY <2>6, <4>1, <4>2
        <4> QED
          BY <2>10, <4>3
      <3>2. inForce.k = p.k /\ inForce.n = p.n
        BY <2>1, <2>2, <2>3, <2>11, <3>1, DoneCode
      <3>3. db <= b
        BY <2>4, <2>6, DividedLess
      <3> QED
        BY <2>2, <2>3, <3>2, <3>3 DEF Fits
    <2> QED
      BY <1>3, <2>1, <2>7, <2>8, <2>9, <2>11, ChangeLoad
  <1> QED
    BY <1>2, <1>3, ChangeStays

LEMMA ReceiverLoad ==
  ASSUME SelectionTypes, ChangeTypes, LoadInv,
         CheckFallback \/ TxDropped \/ ReceiverProceeds
  PROVE  ChangeTypes' /\ LoadInv'
  <1>1. CASE CheckFallback
    <2>1. 0 \in DOMAIN Profiles
      BY ScoreTypes
    <2> QED
      BY <1>1, <2>1, ApplyLoad DEF CheckFallback
  <1>2. CASE SelectAndApplyProfile
    <2>1. \/ UNCHANGED <<profile, changeVars>>
          \/ Free /\ \E i \in DOMAIN Profiles : ApplyProfile(i, "receive")
      BY <1>2, MatchingIsProfile DEF SelectAndApplyProfile
    <2> QED
      BY <2>1, ChangeStays, ApplyLoad
  <1>3. CASE HandleKeyframeCode \/ ExecuteKeyframeCommand
    BY <1>3, ChangeStays DEF HandleKeyframeCode, ExecuteKeyframeCommand
  <1>4. \A works \in Outcomes : works \in BOOLEAN
    BY DEF Outcomes
  <1>5. ASSUME NEW works \in Outcomes, RunCommand(works) PROVE ChangeTypes' /\ LoadInv'
    BY <1>4, <1>5, CommandLoad
  <1>6. ASSUME NEW i \in DOMAIN Profiles, NEW works \in Outcomes, ExecuteEncoderCommand(i, works)
        PROVE  ChangeTypes' /\ LoadInv'
    BY <1>4, <1>6, EncoderLoad
  <1> QED
    BY <1>1, <1>2, <1>3, <1>5, <1>6, DropLoad, DynamicFECLoad, UnlockLoad DEF ReceiverProceeds
-----------------------------------------------------------------------------
LEMMA InitTypes == Init => TypesInv /\ LoadInv
  <1> SUFFICES ASSUME Init PROVE TypesInv /\ LoadInv
    OBVIOUS
  <1>1. /\ profile = -1 /\ score = [smoothed |-> 0, initialized |-> FALSE, applied |-> 0]
        /\ fallback = FALSE /\ paused = FALSE /\ age = [AgeCap EXCEPT !.message = 0]
        /\ fecChange = -1 /\ codes = <<>> /\ handling.pc = "read" /\ keyframeJobs = 0
    BY DEF Init, ReceiverInit, Reading
  <1>2. /\ reduced = FALSE /\ inForce = [k |-> 0, n |-> 0, bitrate |-> 0] /\ lock = "free"
        /\ commands = <<>> /\ upset = FALSE /\ encoderJobs = [i \in DOMAIN Profiles |-> 0]
    BY DEF Init, ReceiverInit
  <1>3. OnTheWay /\ InHand /\ CodeTypes
    BY <1>1 DEF Init, OnTheWay, InHand, CodeTypes
  <1>4. SelectionTypes
    <2>1. score \in ScoreType
      <3>1. 0 \in 0 .. Smoothest /\ 0 \in 0 .. Precision * MaxScore
        BY ScoreTypes DEF Precision
      <3> QED
        BY <1>1, <3>1 DEF ScoreType
    <2>2. \A f \in DOMAIN age : age[f] <= AgeCap[f]
      BY <1>1, CapTypes
    <2>3. profile \in -1 .. Last /\ fecChange \in -1 .. 5
      BY <1>1, ScoreTypes
    <2>4. fallback \in BOOLEAN /\ paused \in BOOLEAN
      BY <1>1
    <2> QED
      BY <2>1, <2>2, <2>3, <2>4 DEF SelectionTypes
  <1>5. ChangeTypes
    <2>1. <<>> \in Seq(CommandType) /\ Len(<<>>) = 0
      OBVIOUS
    <2>2. commands \in Seq(CommandType) /\ Len(commands) \in 0 .. 2
      BY <1>2, <2>1
    <2>3. inForce \in ForceType
      BY <1>2 DEF ForceType
    <2>4. encoderJobs \in [DOMAIN Profiles -> Nat]
      BY <1>2
    <2>5. upset \in BOOLEAN /\ reduced \in BOOLEAN
      BY <1>2
    <2>6. lock \in {"free", "receive", "fallback", "drops"}
      BY <1>2
    <2> QED
      BY <2>2, <2>3, <2>4, <2>5, <2>6 DEF ChangeTypes
  <1>6. LoadInv
    BY <1>1, <1>2 DEF LoadInv, Done, NoJobs
  <1>7. MonitorTypes
    <2>1. scenario \in Scenarios /\ signal \in scenario.signals /\ kalman = 0 /\ keyframe = Silent
      BY DEF Init, MonitorInit
    <2>2. IDRMax \in Nat \ {0}
      BY MonitorConstants
    <2> QED
      BY <2>1, <2>2 DEF MonitorTypes, Silent, NoCode
  <1> QED
    BY <1>3, <1>4, <1>5, <1>6, <1>7 DEF TypesInv

(* What leaves reports, receiver or monitor alone.                         *)
LEMMA WayStays ==
  ASSUME OnTheWay, net' \subseteq net, UNCHANGED slow
  PROVE  OnTheWay'
  BY DEF OnTheWay

LEMMA DroneStays ==
  ASSUME DroneTypes, ChangeTypes, LoadInv, UNCHANGED receiverVars
  PROVE  DroneTypes' /\ ChangeTypes' /\ LoadInv'
  <1>1. UNCHANGED <<profile, score, fallback, paused, age, fecChange, codes, handling,
                    keyframeJobs, changeVars>>
    BY DEF receiverVars
  <1>2. ChangeTypes' /\ LoadInv'
    BY <1>1, ChangeStays
  <1>3. SelectionTypes'
    BY <1>1, SelectionStays DEF DroneTypes
  <1>4. InHand' /\ CodeTypes'
    BY <1>1 DEF DroneTypes, InHand, CodeTypes
  <1> QED
    BY <1>2, <1>3, <1>4 DEF DroneTypes

LEMMA MonitorStays ==
  ASSUME MonitorTypes, UNCHANGED <<monitorVars, scenario, signal>>
  PROVE  MonitorTypes'
  BY DEF MonitorTypes, monitorVars

(* The ground station's steps.                                             *)
LEMMA UpdateSends ==
  ASSUME CodesLeft, MonitorTypes, OnTheWay, AgeTypes, MonitorUpdate
  PROVE  MonitorTypes' /\ OnTheWay'
  <1>1. UNCHANGED <<scenario, signal, slow>>
    BY DEF MonitorUpdate, receiverVars
  <1>2. CASE UNCHANGED <<monitorVars, net>>
    BY <1>1, <1>2, MonitorStays, WayStays
  <1>3. ASSUME signal # {}, NEW m \in Measured(lost), ProcessAndSend(lost, Around, m),
               Send(ReportSent(signal, lost, Around, m))
        PROVE  MonitorTypes' /\ OnTheWay'
    <2>1. PICK r : r = ReportSent(signal, lost, Around, m)
      OBVIOUS
    <2>2. /\ ReportOK(Report(r.score, r.fecChange, r.code))
          /\ kalman' \in Nat
          /\ keyframe' \in [code : Codes \union {NoCode}, remaining : 0 .. IDRMax - 1]
          /\ keyframe'.code = NoCode <=> keyframe'.remaining = 0
      BY <1>3, <2>1, UpdateTypes
    <2>3. PICK msg : msg = Report(r.score, r.fecChange, r.code)
      OBVIOUS
    <2>4. net' = net \union {[msg |-> msg, late |-> 0]}
      BY <1>3, <2>1, <2>3 DEF Send
    <2>5. ReportOK(msg) /\ slow \in Nat /\ slow' = slow
      BY <1>1, <2>2, <2>3, Times DEF AgeTypes
    <2>6. OnTheWay'
      BY <2>4, <2>5 DEF OnTheWay
    <2>7. MonitorTypes'
      BY <1>1, <2>2 DEF MonitorTypes
    <2> QED
      BY <2>6, <2>7
  <1> QED
    BY <1>2, <1>3 DEF MonitorUpdate

LEMMA GroundTypes ==
  ASSUME MonitorTypes, OnTheWay,
         StreamLoses \/ SignalChanges \/ MonitorStops \/ MonitorRestarts
  PROVE  MonitorTypes' /\ OnTheWay'
  <1>1. UNCHANGED <<net, slow, scenario>>
    BY DEF StreamLoses, SignalChanges, MonitorStops, MonitorRestarts, receiverVars
  <1>2. OnTheWay'
    BY <1>1, WayStays
  <1>3. CASE StreamLoses \/ MonitorStops
    BY <1>2, <1>3, MonitorStays DEF StreamLoses, MonitorStops
  <1>4. CASE SignalChanges
    BY <1>2, <1>4 DEF SignalChanges, MonitorTypes, monitorVars
  <1>5. CASE MonitorRestarts
    <2>1. kalman' = 0 /\ keyframe' = Silent /\ UNCHANGED <<scenario, signal>>
      BY <1>5 DEF MonitorRestarts, NewMonitor
    <2>2. IDRMax \in Nat \ {0}
      BY MonitorConstants
    <2>3. MonitorTypes'
      BY <2>1, <2>2 DEF MonitorTypes, Silent, NoCode
    <2> QED
      BY <1>2, <2>3
  <1> QED
    BY <1>3, <1>4, <1>5

(* A tick makes reports late by one more, but while the receiver is idle   *)
(* it has read all that came before.                                       *)
LEMMA TickWay ==
  ASSUME OnTheWay, AgeTypes, Tick
  PROVE  OnTheWay'
  <1>1. /\ ReceiverIdle => \A m \in net : m.late = 0
        /\ slow' = IF ReceiverIdle THEN 0 ELSE slow + 1
        /\ net' = {[m EXCEPT !.late = @ + 1] : m \in net}
        /\ slow \in Nat
    BY Times DEF Tick, ReceiverTick, AgeTypes
  <1>2. ASSUME NEW m \in net
        PROVE  LET w == [m EXCEPT !.late = @ + 1] IN
               /\ w = [msg |-> w.msg, late |-> w.late]
               /\ ReportOK(w.msg) /\ w.late \in 0 .. slow' + 1
    <2>1. m = [msg |-> m.msg, late |-> m.late] /\ ReportOK(m.msg) /\ m.late \in 0 .. slow + 1
      BY DEF OnTheWay
    <2>2. [m EXCEPT !.late = @ + 1] = [msg |-> m.msg, late |-> m.late + 1]
      BY ONLY <2>1
    <2>3. m.late + 1 \in 0 .. slow' + 1
      BY <1>1, <2>1
    <2> QED
      BY <2>1, <2>2, <2>3
  <1> QED
    BY <1>1, <1>2 DEF OnTheWay

LEMMA ReceiverSlow ==
  ASSUME \/ CheckFallback \/ TxDropped \/ ReceiverProceeds
         \/ \E msg : ReceiveReport(msg) \/ ReceiveSpecial(msg)
  PROVE  UNCHANGED slow
  BY DEF CheckFallback, TxDropped, ReceiverProceeds, HandleKeyframeCode, HandleDynamicFEC,
     SelectAndApplyProfile, RestoreBitrate, ExecuteKeyframeCommand, Unlock, RunCommand,
     ExecuteEncoderCommand, ReceiveReport, ReceiveSpecial, ApplyProfile

(* A receiver's step on its own.                                           *)
LEMMA ReceiverTypes ==
  ASSUME FallbackInv, DroneTypes, ChangeTypes, LoadInv,
         CheckFallback \/ TxDropped \/ ReceiverProceeds
  PROVE  DroneTypes' /\ ChangeTypes' /\ LoadInv'
  <1>1. DroneTypes'
    BY FallbackTypes, OtherTypes, ProceedsTypes
  <1>2. SelectionTypes
    BY DEF DroneTypes
  <1> QED
    BY <1>1, <1>2, ReceiverLoad

LEMMA NextTypes ==
  ASSUME FallbackInv, TypesInv, LoadInv, CodesLeft,
         [Next]_vars
  PROVE  TypesInv' /\ LoadInv'
  <1>1. DroneTypes /\ MonitorTypes /\ OnTheWay /\ AgeTypes /\ ChangeTypes
    BY DEF TypesInv, DroneTypes, FallbackInv
  <1>2. SUFFICES DroneTypes' /\ MonitorTypes' /\ OnTheWay' /\ ChangeTypes' /\ LoadInv'
    BY DEF TypesInv, DroneTypes
  <1>3. CASE MonitorUpdate
    BY <1>1, <1>3, UpdateSends, DroneStays DEF MonitorUpdate
  <1>4. CASE StreamLoses \/ SignalChanges \/ MonitorStops \/ MonitorRestarts
    <2>1. UNCHANGED receiverVars
      BY <1>4 DEF StreamLoses, SignalChanges, MonitorStops, MonitorRestarts
    <2> QED
      BY <1>1, <1>4, <2>1, GroundTypes, DroneStays
  <1>5. ASSUME NEW m \in net, ReportLost(m)
        PROVE  DroneTypes' /\ MonitorTypes' /\ OnTheWay' /\ ChangeTypes' /\ LoadInv'
    <2>1. UNCHANGED <<receiverVars, monitorVars, scenario, signal>> /\ net' \subseteq net
      BY <1>5 DEF ReportLost
    <2>2. UNCHANGED slow
      BY <2>1 DEF receiverVars
    <2> QED
      BY <1>1, <2>1, <2>2, DroneStays, MonitorStays, WayStays
  <1>6. ASSUME NEW m \in net, ReportArrives(m)
        PROVE  DroneTypes' /\ MonitorTypes' /\ OnTheWay' /\ ChangeTypes' /\ LoadInv'
    <2>1. /\ ReceiveReport(m.msg) /\ net' \subseteq net
          /\ UNCHANGED <<monitorVars, scenario, signal>>
      BY <1>6 DEF ReportArrives
    <2>2. ReportOK(m.msg)
      BY <1>1 DEF OnTheWay
    <2>3. PICK msg : msg = m.msg
      OBVIOUS
    <2>4. ReceiveReport(msg) /\ ReportOK(msg)
      BY <2>1, <2>2, <2>3
    <2>5. DroneTypes'
      BY <1>1, <2>4, ReceiveTypes
    <2>6. ChangeTypes' /\ LoadInv'
      BY <1>1, <2>4, ChangeStays DEF ReceiveReport
    <2>7. UNCHANGED slow
      BY <2>4, ReceiverSlow
    <2> QED
      BY <1>1, <2>1, <2>5, <2>6, <2>7, MonitorStays, WayStays
  <1>7. ASSUME NEW m \in scenario.specials, SpecialArrives(m)
        PROVE  DroneTypes' /\ MonitorTypes' /\ OnTheWay' /\ ChangeTypes' /\ LoadInv'
    <2>1. /\ ReceiveSpecial(m) /\ UNCHANGED <<monitorVars, net, scenario, signal>>
      BY <1>7 DEF SpecialArrives, worldVars
    <2>2. m.code \in Codes \union {NoCode}
      BY <1>1, ScenarioAssumption DEF MonitorTypes, ScenarioType
    <2>3. DroneTypes'
      BY <1>1, <2>1, <2>2, SpecialTypes
    <2>4. ChangeTypes' /\ LoadInv'
      BY <1>1, <2>1, ChangeStays DEF ReceiveSpecial
    <2>5. UNCHANGED slow
      BY <2>1, ReceiverSlow
    <2> QED
      BY <1>1, <2>1, <2>3, <2>4, <2>5, MonitorStays, WayStays
  <1>8. CASE WlanDrops \/ DroneStep(CheckFallback) \/ DroneStep(ReceiverProceeds)
    <2>1. /\ CheckFallback \/ TxDropped \/ ReceiverProceeds
          /\ UNCHANGED <<monitorVars, net, scenario, signal>>
      BY <1>8 DEF WlanDrops, DroneStep, worldVars
    <2>2. UNCHANGED slow
      BY <2>1, ReceiverSlow
    <2> QED
      BY <1>1, <2>1, <2>2, ReceiverTypes, MonitorStays, WayStays
  <1>9. CASE Tick
    <2>1. ReceiverTick /\ UNCHANGED <<monitorVars, scenario, signal>>
      BY <1>9 DEF Tick
    <2>2. ChangeTypes' /\ LoadInv'
      BY <1>1, <2>1, ChangeStays DEF ReceiverTick
    <2> QED
      BY <1>1, <1>9, <2>1, <2>2, TickTypes, TickWay, MonitorStays
  <1>10. CASE UNCHANGED vars
    <2>1. UNCHANGED <<receiverVars, monitorVars, scenario, signal, net>>
      BY <1>10 DEF vars, worldVars
    <2>2. UNCHANGED slow
      BY <2>1 DEF receiverVars
    <2> QED
      BY <1>1, <2>1, <2>2, DroneStays, MonitorStays, WayStays
  <1> QED
    BY <1>3, <1>4, <1>5, <1>6, <1>7, <1>8, <1>9, <1>10 DEF Next, Arrives

(* What the run checks follows.                                            *)
LEMMA RangesFollow ==
  ASSUME FallbackInv, TypesInv, LoadInv
  PROVE  AdaptiveInv
  <1>1. SelectionTypes /\ CodeTypes /\ MonitorTypes /\ OnTheWay /\ ChangeTypes
    BY DEF TypesInv
  <1>2. \A f \in DOMAIN age : age[f] \in 0 .. AgeCap[f]
    BY <1>1, CapTypes DEF FallbackInv, AgeTypes, SelectionTypes
  <1>3. /\ encoderJobs \in [DOMAIN Profiles -> Nat] /\ Len(commands) \in 0 .. 2
        /\ upset \in BOOLEAN /\ reduced \in BOOLEAN
        /\ lock \in {"free", "receive", "fallback", "drops"}
    BY <1>1 DEF ChangeTypes
  <1>4. slow \in 0 .. MaxSlow /\ handling.pc \in {"read", "code", "fec", "select"}
    BY DEF FallbackInv, AgeTypes, HandlingType
  <1>5. /\ score.smoothed \in 0 .. Precision * Max({MaxScore, ScoreMax})
        /\ score.applied \in 0 .. Precision * MaxScore
    BY <1>1 DEF SelectionTypes, ScoreType, Smoothest
  <1>6. /\ keyframe.remaining \in 0 .. IDRMax - 1
        /\ keyframe.code = 0 <=> keyframe.remaining = 0
    BY <1>1 DEF MonitorTypes, NoCode
  <1>7. \A m \in net : /\ m.msg.score \in ScoreMin .. ScoreMax /\ m.msg.fecChange \in 0 .. 5
                      /\ m.late \in 0 .. MaxSlow + 1
    BY <1>1, <1>4, Times DEF OnTheWay, ReportOK
  <1>8. AdaptiveTypeOK
    BY <1>1, <1>2, <1>3, <1>4, <1>5, <1>6, <1>7
       DEF AdaptiveTypeOK, SelectionTypes, CodeTypes, MonitorTypes
  <1>9. LoadFits
    <2> SUFFICES ASSUME Settled, ~upset, profile >= 0
                 PROVE  Goes(inForce.bitrate, inForce.k, inForce.n)
      BY DEF LoadFits
    <2>1. profile \in DOMAIN Profiles
      BY <1>1, ScoreTypes DEF SelectionTypes
    <2>2. ~EncoderToCome
      <3>1. encoderJobs[profile] = 0
        BY <2>1 DEF Settled, NoJobs
      <3> QED
        BY <2>1, <3>1 DEF EncoderToCome
    <2>3. ~CommandsToCome
      BY DEF Settled, CommandsToCome
    <2>4. Fits(inForce.bitrate, inForce.k, inForce.n, Profiles[profile])
      BY <2>2, <2>3 DEF LoadInv, Done
    <2> QED
      BY <2>1, <2>4 DEF Fits, Goes
  <1> QED
    BY <1>8, <1>9 DEF AdaptiveInv

(* Scores, ages and reports stay in their ranges, whatever the noise, the  *)
(* losses and the delays; and the bitrate of the encoder never exceeds     *)
(* what goes with the code in force when the commands have run, whoever    *)
(* changed them last: the selection, dynamic FEC, fallback or the reaction *)
(* to dropped packets; unless one of the change's commands failed or was   *)
(* refused, or the encoder command of an older change was still running.   *)
(* It takes keyframe codes that are not used up.                           *)
THEOREM RangesAndLoad == Spec /\ []CodesLeft => []AdaptiveInv
<1>1. FallbackInv /\ TypesInv /\ LoadInv /\ CodesLeft /\ [Next]_vars => TypesInv' /\ LoadInv'
  BY NextTypes
<1>2. FallbackInv /\ TypesInv /\ LoadInv => AdaptiveInv
  BY RangesFollow
<1> QED
  BY <1>1, <1>2, InitFallback, NextFallback, InitTypes, PTL DEF Spec
=============================================================================
