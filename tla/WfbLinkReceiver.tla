--------------------------- MODULE WfbLinkReceiver ---------------------------
(***************************************************************************)
(* The drone's side of the adaptive link (src/pkg/adaptive/receiver.go):   *)
(* LinkReceiver with its goroutines receiveLoop, fallbackLoop and          *)
(* txDroppedLoop, and those it starts for encoder and keyframe commands.   *)
(*                                                                         *)
(* A critical section under r.mu is one step, and so is each command that  *)
(* it runs with the lock held (lock # "free" until Unlock); time may pass  *)
(* meanwhile, and between the sections of processPacket other goroutines   *)
(* run.  Commands may fail, which is only logged; nothing orders the       *)
(* goroutine of an encoder command with what is changed after it.  Times   *)
(* are ages in ticks, saturated where the code no longer tells them apart. *)
(* Reported scores are integers of a coarser scale; the receiver's own are *)
(* floats, in units of 1/Precision: what is no integer lies between two.   *)
(***************************************************************************)
EXTENDS Integers, Sequences, FiniteSets, FiniteSetsExt

CONSTANTS
  Profiles,           \* 0 .. n-1 -> [min, max, k, n, bitrate, gop], gop in tenths
  MinScore, MaxScore, \* the clamp of selectAndApplyProfile
  SmoothUp,           \* 1 / smoothingFactor (smoothingFactorDown is 1)
  Hysteresis,         \* hysteresisPercent and hysteresisPercentDown
  HoldUp, HoldDown, MinBetween,
  FallbackTimeout, FallbackHold,
  KeyframeInterval, CodeExpiry,
  FECInterval,        \* the second between two dynamic FEC changes
  SpikeBitrate,       \* no dynamic FEC below this bitrate; 0 without spikeFix
  RestoreDelay,
  MaxJobs,            \* bound: encoder commands of a profile that run when a tick passes
  MaxSlow             \* bound: ticks that pass while one packet is handled

Last == Cardinality(DOMAIN Profiles) - 1

(* A float is an integer or lies between two.                               *)
Precision == 2

ASSUME ReceiverAssumption ==
  /\ DOMAIN Profiles = 0 .. Last /\ Last \in Nat
  /\ \A i \in DOMAIN Profiles :
       Profiles[i] \in [min : Int, max : Int, k : Nat, n : Nat, bitrate : Nat, gop : Nat]
  /\ {MinScore, MaxScore, HoldUp, HoldDown, MinBetween, FallbackTimeout, FallbackHold,
      KeyframeInterval, CodeExpiry, FECInterval, SpikeBitrate, RestoreDelay, MaxJobs, MaxSlow} \subseteq Nat
  /\ SmoothUp \in Nat \ {0} /\ Hysteresis \in Nat
  /\ 0 < MinScore /\ MinScore <= MaxScore

(* Commands and callbacks end in time: a report that is being handled when *)
(* fallback sets in is done before fallback may be left.                   *)
ASSUME PromptAssumption == MaxSlow <= FallbackTimeout + FallbackHold

VARIABLES
  receiverConfig, \* [dynamicFEC, idrOnChange]: LinkReceiverConfig; failures: a bound
  profile,        \* lastProfileIdx, -1 before the first
  score,          \* [smoothed, initialized, applied], in units of 1/Precision
  fallback,       \* inFallbackMode
  paused,
  age,            \* since lastMessageTime, lastChangeTime, ...
  fecChange,      \* lastFECChange
  reduced,        \* bitrateReduced
  codes,          \* keyframeCodes: code -> age
  inForce,        \* [k, n, bitrate] of the transmitter and the encoder
  handling,       \* processPacket: [pc, msg]
  lock,           \* who runs commands with r.mu held
  commands,       \* those still to run: [sets, k, n, bitrate]
  upset,          \* history: a command of the last change failed, an older one ran on
                  \* when it began, or the profile has no code
  failures,       \* bound: commands that may yet fail
  slow,           \* ticks spent in handling and commands since it was idle
  encoderJobs,    \* executeEncoderCommand goroutines: profile -> how many
  keyframeJobs    \* executeKeyframeCommand goroutines: how many

changeVars   == <<reduced, inForce, lock, commands, upset, failures, encoderJobs>>
receiverVars == <<receiverConfig, profile, score, fallback, paused, age, fecChange,
                  codes, handling, slow, keyframeJobs, changeVars>>

NoCode == 0
Report(s, f, c) == [type |-> "report", score |-> s, fecChange |-> f, code |-> c]
Special(t)      == [type |-> t, score |-> 0, fecChange |-> 0, code |-> NoCode]
KeyframeRequest(c) == [Special("request_keyframe") EXCEPT !.code = c]
Reading == [pc |-> "read", msg |-> Special("none")]

(* currentFecK, currentFecN, currentBitrate and currentGOP: those of the   *)
(* profile selected last, all zero before.                                 *)
Current == IF profile < 0 THEN [min |-> 0, max |-> 0, k |-> 0, n |-> 0, bitrate |-> 0, gop |-> 0]
                          ELSE Profiles[profile]

AgeCap == [message |-> FallbackTimeout + 1, change |-> Max({HoldUp, HoldDown, MinBetween, FallbackHold}),
           entry |-> FallbackHold, keyframe |-> KeyframeInterval,
           fec |-> FECInterval, drop |-> RestoreDelay]

ReceiverInit ==
  /\ profile = -1
  /\ score = [smoothed |-> 0, initialized |-> FALSE, applied |-> 0]
  /\ fallback = FALSE /\ paused = FALSE
  /\ age = [AgeCap EXCEPT !.message = 0]
  /\ fecChange = -1
  /\ reduced = FALSE
  /\ codes = <<>>
  /\ inForce = [k |-> 0, n |-> 0, bitrate |-> 0]
  /\ handling = Reading /\ lock = "free" /\ slow = 0
  /\ commands = <<>> /\ upset = FALSE /\ failures = receiverConfig.failures
  /\ encoderJobs = [i \in DOMAIN Profiles |-> 0] /\ keyframeJobs = 0

Free   == lock = "free"
NoJobs == \A i \in DOMAIN Profiles : encoderJobs[i] = 0

Unlock == /\ ~Free /\ commands = <<>>
          /\ lock' = "free"
          /\ UNCHANGED <<receiverConfig, profile, score, fallback, paused, age, fecChange, reduced,
                         codes, inForce, handling, commands, upset, failures, slow, encoderJobs, keyframeJobs>>

-----------------------------------------------------------------------------
(***************************************************************************)
(* Changes of FEC and bitrate                                              *)
(***************************************************************************)
Outcomes == IF failures > 0 THEN BOOLEAN ELSE {TRUE}
Counting(works) == failures' = IF works THEN failures ELSE failures - 1

(* Neither the FEC command nor SetTXParams sets a code of k = 0 or n = 0.  *)
IsCode(k, n)  == k > 0 /\ n > 0
WithFEC(k, n) == [inForce EXCEPT !.k = k, !.n = n]

(* executeFECAndBitrate: which commands it runs, in which order.  It sets  *)
(* both values anew, except that a code that is refused leaves the old one. *)
FECAndBitrate(k, n, bitrate, who) ==
  LET Command(sets) == [sets |-> sets, k |-> k, n |-> n, bitrate |-> bitrate]
  IN /\ commands' = IF bitrate > Current.bitrate THEN <<Command("fec"), Command("bitrate")>>
                                                 ELSE <<Command("bitrate"), Command("fec")>>
     /\ upset' = (~NoJobs \/ (upset /\ ~IsCode(k, n)))
     /\ lock' = who

(* executeFECCommand, executeBitrateCommand                                *)
RunCommand(works) ==
  /\ commands # <<>>
  /\ LET command == Head(commands)
         done    == works /\ (command.sets = "fec" => IsCode(command.k, command.n))
     IN /\ inForce' = IF ~done THEN inForce
                      ELSE IF command.sets = "fec" THEN WithFEC(command.k, command.n)
                      ELSE [inForce EXCEPT !.bitrate = command.bitrate]
  /\ upset' = (upset \/ ~works)
  /\ commands' = Tail(commands)
  /\ Counting(works)
  /\ UNCHANGED <<receiverConfig, profile, score, fallback, paused, age, fecChange, reduced,
                 codes, handling, lock, slow, encoderJobs, keyframeJobs>>

(* A goroutine that is to request a keyframe.                              *)
RequestKeyframe(condition) ==
  keyframeJobs' = IF condition THEN keyframeJobs + 1 ELSE keyframeJobs

(* applyProfile(Profiles[i]); the callback sets the FEC, the encoder       *)
(* command is left to a goroutine of its own.                              *)
ApplyProfile(i, who) ==
  /\ profile' = i
  /\ reduced' = FALSE
  /\ \E works \in Outcomes :
       LET done == works /\ IsCode(Profiles[i].k, Profiles[i].n)
       IN /\ inForce' = IF done THEN WithFEC(Profiles[i].k, Profiles[i].n) ELSE inForce
          /\ upset' = ~(done /\ NoJobs)
          /\ Counting(works)
  /\ encoderJobs' = [encoderJobs EXCEPT ![i] = @ + 1]
  /\ RequestKeyframe(receiverConfig.idrOnChange /\ Profiles[i].gop > 5)
  /\ lock' = who
  /\ UNCHANGED <<commands, slow>>

(* Mutant: no fallback before the first profile.                            *)
CheckFallbackOnceSelected ==
  /\ Free /\ ~paused /\ ~fallback
  /\ age.message > FallbackTimeout
  /\ profile > 0
  /\ fallback' = TRUE
  /\ age' = [age EXCEPT !.entry = 0, !.change = 0]
  /\ score' = [smoothed |-> Precision * (MinScore - 1), initialized |-> TRUE,
               applied |-> Precision * (MinScore - 1)]
  /\ ApplyProfile(0, "fallback")
  /\ UNCHANGED <<receiverConfig, paused, fecChange, codes, handling>>

(* checkFallback                                                            *)
CheckFallback ==
  /\ Free /\ ~paused /\ ~fallback
  /\ age.message > FallbackTimeout
  /\ profile # 0
  /\ fallback' = TRUE
  /\ age' = [age EXCEPT !.entry = 0, !.change = 0]
  /\ score' = [smoothed |-> Precision * (MinScore - 1), initialized |-> TRUE,
               applied |-> Precision * (MinScore - 1)]
  /\ ApplyProfile(0, "fallback")
  /\ UNCHANGED <<receiverConfig, paused, fecChange, codes, handling>>

-----------------------------------------------------------------------------
(* Mutant: fallback mode is not left.                                       *)
ReceiveReportStaying(msg) ==
  /\ Free /\ handling.pc = "read"
  /\ msg.type = "report"
  /\ LET ignored == paused \/ (fallback /\ age.entry < FallbackHold)
         left    == ~ignored /\ fallback
     IN /\ fallback' = fallback
        /\ age' = [age EXCEPT !.message = 0, !.entry = IF left THEN FallbackHold ELSE @]
        /\ handling' = IF ignored THEN Reading
                       ELSE [pc |-> IF msg.code # NoCode THEN "code" ELSE "fec", msg |-> msg]
  /\ UNCHANGED <<receiverConfig, profile, score, paused, fecChange, codes, slow, keyframeJobs,
                 changeVars>>

(* The section of processPacket that every report goes through.            *)
ReceiveReport(msg) ==
  /\ Free /\ handling.pc = "read"
  /\ msg.type = "report"
  /\ LET ignored == paused \/ (fallback /\ age.entry < FallbackHold)
         left    == ~ignored /\ fallback
     IN /\ fallback' = (fallback /\ ~left)
        /\ age' = [age EXCEPT !.message = 0, !.entry = IF left THEN FallbackHold ELSE @]
        /\ handling' = IF ignored THEN Reading
                       ELSE [pc |-> IF msg.code # NoCode THEN "code" ELSE "fec", msg |-> msg]
  /\ UNCHANGED <<receiverConfig, profile, score, paused, fecChange, codes, slow, keyframeJobs,
                 changeVars>>

(* handleKeyframeCode: what it leaves of the codes, and whether it asks.   *)
Valid == [c \in {x \in DOMAIN codes : codes[x] < CodeExpiry} |-> codes[c]]
Taken(code) == code \notin DOMAIN Valid /\ age.keyframe >= KeyframeInterval
KeyframeCode(code) ==
  /\ codes' = [c \in DOMAIN Valid \union {x \in {code} : Taken(x)} |->
                 IF c \in DOMAIN Valid THEN Valid[c] ELSE 0]
  /\ RequestKeyframe(Taken(code) /\ (Current.gop > 5 \/ Current.gop = 0))

HandleKeyframeCode ==
  /\ Free /\ handling.pc = "code"
  /\ KeyframeCode(handling.msg.code)
  /\ handling' = [handling EXCEPT !.pc = "fec"]
  /\ UNCHANGED <<receiverConfig, profile, score, fallback, paused, age, fecChange, slow, changeVars>>

(* handleSpecialCommand; works in a pause too and is no heartbeat.         *)
ReceiveSpecial(msg) ==
  /\ Free /\ handling.pc = "read"
  /\ \/ /\ msg.type = "request_keyframe" /\ msg.code # NoCode
        /\ KeyframeCode(msg.code)
        /\ UNCHANGED paused
     \/ /\ msg.type \in {"pause_adaptive", "resume_adaptive"}
        /\ paused' = (msg.type = "pause_adaptive")
        /\ UNCHANGED <<codes, keyframeJobs>>
  /\ UNCHANGED <<receiverConfig, profile, score, fallback, age, fecChange, handling, slow, changeVars>>

(* The levels of dynamic FEC: 1 to 5 divide by these hundredths.            *)
Denominator == <<111, 125, 142, 167, 200>>
Divided(x, level) == (x * 100) \div Denominator[level]

(* handleDynamicFEC, fecKAdjust (NewLinkReceiver allows no other).          *)
HandleDynamicFEC ==
  LET f       == handling.msg.fecChange
      changes == /\ receiverConfig.dynamicFEC
                 /\ f # fecChange
                 /\ f > 0 => age.fec >= FECInterval
      applies == changes /\ f \in 1 .. 5 /\ Current.k > 0 /\ Current.n > 0
  IN /\ Free /\ handling.pc = "fec"
     /\ fecChange' = IF changes THEN f ELSE fecChange
     /\ age' = IF applies THEN [age EXCEPT !.fec = 0] ELSE age
     /\ handling' = [handling EXCEPT !.pc = "select"]
     /\ IF applies /\ Current.bitrate >= SpikeBitrate
          THEN FECAndBitrate(Divided(Current.k, f), Current.n, Divided(Current.bitrate, f), "receive")
          ELSE UNCHANGED <<commands, upset, lock>>
     /\ UNCHANGED <<receiverConfig, profile, score, fallback, paused, reduced, codes, inForce,
                    failures, slow, encoderJobs, keyframeJobs>>

-----------------------------------------------------------------------------
(***************************************************************************)
(* selectAndApplyProfile                                                   *)
(***************************************************************************)
(* What is smoothed keeps a fraction: the difference to the new score that *)
(* is left falls on a unit or between two, and the last one may stay, from *)
(* below as from above.                                                    *)
Left(difference) ==
  LET whole == (difference * (SmoothUp - 1)) \div SmoothUp
  IN {whole} \union {x \in {whole + 1} : whole * SmoothUp < difference * (SmoothUp - 1)}

(* Exponential smoothing: slow, unless the score is below the one applied  *)
(* last, or none was applied.                                              *)
Smoothed(raw) ==
  LET exact == Precision * raw
  IN IF ~score.initialized \/ score.applied = 0 \/ exact < score.applied THEN {exact}
     ELSE IF exact >= score.smoothed
            THEN {exact - left : left \in Left(exact - score.smoothed)}
            ELSE {exact + left : left \in Left(score.smoothed - exact)}

Clamped(s) == Max({Precision * MinScore, Min({Precision * MaxScore, s})})

(* The score that profiles are matched with: int(effectiveScore).          *)
Truncated(s) == s \div Precision

(* The first profile whose range holds the score, else the last one.       *)
Matching(s) ==
  LET hits == {i \in DOMAIN Profiles : Profiles[i].min <= s /\ s <= Profiles[i].max}
  IN IF hits = {} THEN Last ELSE Min(hits)

Distance(a, b) == Max({a - b, b - a})
Significant(s) == score.applied > 0 => 100 * Distance(s, score.applied) >= Hysteresis * score.applied

Hold(i) == CASE fallback    -> FallbackHold
             [] ~fallback /\ i > profile  -> HoldUp
             [] ~fallback /\ i <= profile -> HoldDown

(* A change to profile i on the score s passes minBetweenChanges, the      *)
(* hysteresis and the hold-down timer.                                     *)
MayChange(i, s) ==
  /\ i # profile
  /\ profile >= 0 => /\ age.change >= MinBetween
                     /\ Significant(s)
                     /\ age.change >= Hold(i)

(* Mutant: every report restarts the hold timer.                            *)
SelectAndApplyProfileRestarting ==
  \E smoothed \in Smoothed(handling.msg.score) :
  LET s == Clamped(smoothed)
      i == Matching(Truncated(s))
  IN /\ Free /\ handling.pc = "select"
     /\ handling' = Reading
     /\ \/ /\ MayChange(i, s)
           /\ score' = [smoothed |-> smoothed, initialized |-> TRUE, applied |-> s]
           /\ age' = [age EXCEPT !.change = 0]
           /\ ApplyProfile(i, "receive")
        \/ /\ ~MayChange(i, s)
           /\ score' = [score EXCEPT !.smoothed = smoothed, !.initialized = TRUE]
           /\ age' = [age EXCEPT !.change = 0]
           /\ UNCHANGED <<profile, slow, keyframeJobs, changeVars>>
     /\ UNCHANGED <<receiverConfig, fallback, paused, fecChange, codes>>

SelectAndApplyProfile ==
  \E smoothed \in Smoothed(handling.msg.score) :
  LET s == Clamped(smoothed)
      i == Matching(Truncated(s))
  IN /\ Free /\ handling.pc = "select"
     /\ handling' = Reading
     /\ \/ /\ MayChange(i, s)
           /\ score' = [smoothed |-> smoothed, initialized |-> TRUE, applied |-> s]
           /\ age' = [age EXCEPT !.change = 0]
           /\ ApplyProfile(i, "receive")
        \/ /\ ~MayChange(i, s)
           /\ score' = [score EXCEPT !.smoothed = smoothed, !.initialized = TRUE]
           /\ UNCHANGED <<profile, age, slow, keyframeJobs, changeVars>>
     /\ UNCHANGED <<receiverConfig, fallback, paused, fecChange, codes>>

-----------------------------------------------------------------------------
(***************************************************************************)
(* checkTxDropped: the wlan dropped packets since the last check, or none. *)
(***************************************************************************)
Reduced(bitrate) == (bitrate * 8) \div 10

TxDropped ==
  /\ Free /\ profile >= 0
  /\ age.drop > 0   \* the ticker's interval is more than a tick
  /\ age' = [age EXCEPT !.drop = 0]
  /\ IF ~reduced /\ Current.bitrate > 0
       THEN /\ FECAndBitrate(Current.k, Current.n, Reduced(Current.bitrate), "drops")
            /\ reduced' = TRUE
       ELSE UNCHANGED <<reduced, commands, upset, lock>>
  /\ RequestKeyframe(Current.gop > 5 /\ age.keyframe >= KeyframeInterval)
  /\ UNCHANGED <<receiverConfig, profile, score, fallback, paused, fecChange, codes, inForce,
                 handling, failures, slow, encoderJobs>>

(* Mutant: the bitrate only.                                                *)
RestoreBitrateAlone ==
  /\ Free /\ profile >= 0
  /\ reduced /\ age.drop >= RestoreDelay
  /\ commands' = <<[sets |-> "bitrate", k |-> 0, n |-> 0, bitrate |-> Current.bitrate]>>
  /\ upset' = ~NoJobs /\ lock' = "drops"
  /\ reduced' = FALSE
  /\ UNCHANGED <<receiverConfig, profile, score, fallback, paused, age, fecChange, codes, inForce,
                 handling, failures, slow, encoderJobs, keyframeJobs>>

(* The bitrate was above 0 when it was reduced.                             *)
RestoreBitrate ==
  /\ Free /\ profile >= 0
  /\ reduced /\ age.drop >= RestoreDelay
  /\ FECAndBitrate(Current.k, Current.n, Current.bitrate, "drops")
  /\ reduced' = FALSE
  /\ UNCHANGED <<receiverConfig, profile, score, fallback, paused, age, fecChange, codes, inForce,
                 handling, failures, slow, encoderJobs, keyframeJobs>>

(* executeEncoderCommand in its goroutine                                   *)
ExecuteEncoderCommand(i, works) ==
  /\ encoderJobs[i] > 0
  /\ encoderJobs' = [encoderJobs EXCEPT ![i] = @ - 1]
  /\ inForce' = IF works THEN [inForce EXCEPT !.bitrate = Profiles[i].bitrate] ELSE inForce
  /\ upset' = (upset \/ ~works)
  /\ Counting(works)
  /\ UNCHANGED <<receiverConfig, profile, score, fallback, paused, age, fecChange, reduced,
                 codes, handling, lock, commands, slow, keyframeJobs>>

(* executeKeyframeCommand in its goroutine: the encoder is asked, or it is *)
(* too early.                                                              *)
ExecuteKeyframeCommand ==
  /\ Free /\ keyframeJobs > 0
  /\ keyframeJobs' = keyframeJobs - 1
  /\ age' = IF age.keyframe >= KeyframeInterval THEN [age EXCEPT !.keyframe = 0] ELSE age
  /\ UNCHANGED <<receiverConfig, profile, score, fallback, paused, fecChange, codes, handling, slow,
                 changeVars>>

(* A keyframe is asked for in this step.                                    *)
KeyframeAsked == keyframeJobs' < keyframeJobs /\ age.keyframe >= KeyframeInterval

(* One tick for the receiver.  Goroutines that request keyframes have run  *)
(* by then; callbacks, commands and waiting keep it from its socket for at *)
(* most MaxSlow ticks before it has caught up; encoder commands may go on. *)
ReceiverIdle == Free /\ handling.pc = "read"

ReceiverTick ==
  /\ \A i \in DOMAIN Profiles : encoderJobs[i] <= MaxJobs
  /\ Free => keyframeJobs = 0
  /\ ReceiverIdle \/ slow < MaxSlow
  /\ slow' = IF ReceiverIdle THEN 0 ELSE slow + 1
  /\ age' = [f \in DOMAIN age |-> Min({age[f] + 1, AgeCap[f]})]
  /\ codes' = [c \in {x \in DOMAIN codes : codes[x] < CodeExpiry} |-> codes[c] + 1]
  /\ UNCHANGED <<receiverConfig, profile, score, fallback, paused, fecChange, handling,
                 keyframeJobs, changeVars>>

(* What its own goroutines do without a packet.                             *)
ReceiverProceeds ==
  \/ HandleKeyframeCode \/ HandleDynamicFEC \/ SelectAndApplyProfile \/ RestoreBitrate
  \/ ExecuteKeyframeCommand \/ Unlock
  \/ \E works \in Outcomes : RunCommand(works)
  \/ \E i \in DOMAIN Profiles, works \in Outcomes : ExecuteEncoderCommand(i, works)
=============================================================================
