----------------------------- MODULE MCAdaptive -----------------------------
(* Instances of WfbAdaptive for TLC.                                       *)
EXTENDS WfbAdaptive

P(min, max, k, n, bitrate, gop) ==
  [min |-> min, max |-> max, k |-> k, n |-> n, bitrate |-> bitrate, gop |-> gop]

(* Three profiles, one with a k that cannot be divided.  A score smoothed   *)
(* from below the first reaches the second with one report.                 *)
ThreeProfiles == [i \in 0 .. 2 |-> CASE i = 0 -> P(4, 4, 2, 3, 40, 10)
                                     [] i = 1 -> P(5, 5, 1, 2, 80, 5)
                                     [] i = 2 -> P(6, 8, 8, 12, 120, 10)]

Antenna(rssi, snr) == [rssi |-> rssi, snr |-> snr]
Weak   == {Antenna(-80, 12)}
Middle == {Antenna(-80, 12), Antenna(-62, 23)}
Strong == {Antenna(-40, 36)}

Plain ==
  [receiver |-> [dynamicFEC |-> FALSE, idrOnChange |-> FALSE, failures |-> 0],
   monitor |-> [idr |-> FALSE, noise |-> FALSE],
   signals |-> {Middle}, losable |-> 0, restarts |-> 0,
   slow |-> FALSE, lingers |-> FALSE, stops |-> FALSE, losses |-> FALSE, drops |-> 0, specials |-> {}]

(* Signals that come and go, the ground station too, a pause.                *)
Selection ==
  [Plain EXCEPT !.signals = {Weak, Strong}, !.stops = TRUE, !.restarts = 1,
                !.specials = {Special("pause_adaptive"), Special("resume_adaptive")}]

(* A report lost, the ground station gone.                                  *)
Lossy ==
  [Plain EXCEPT !.signals = {Weak, Strong}, !.losable = 1, !.stops = TRUE]

(* Callbacks and commands that take their time, reports that pile up.       *)
Slow ==
  [Plain EXCEPT !.signals = {Strong}, !.stops = TRUE, !.slow = TRUE]

(* Noise, whose penalty moves the score.                                    *)
Noise ==
  [Plain EXCEPT !.signals = {Strong}, !.monitor.noise = TRUE]

(* Changes of FEC and bitrate by noise and profiles.                        *)
Changes ==
  [Plain EXCEPT !.receiver.dynamicFEC = TRUE, !.monitor.noise = TRUE]

(* By noise and a wlan that drops, in one profile.                          *)
Dropping ==
  [Changes EXCEPT !.signals = {Weak}, !.drops = 1]

(* A command fails, the link falls back and comes back.                     *)
Failing ==
  [Plain EXCEPT !.receiver.failures = 1, !.stops = TRUE, !.restarts = 1, !.drops = 1]

(* Neither, but encoder commands that go on meanwhile.                      *)
Lingering ==
  [Failing EXCEPT !.receiver.failures = 0, !.drops = 0, !.lingers = TRUE]

(* Losses of the stream, keyframe requests from three sources.              *)
Keyframes ==
  [Plain EXCEPT !.receiver.idrOnChange = TRUE, !.monitor.idr = TRUE, !.losable = 1, !.losses = TRUE]

(* The same with a request of another program, and no report lost.         *)
Requests ==
  [Keyframes EXCEPT !.losable = 0, !.specials = {KeyframeRequest(1)}]

AllScenarios ==
  {Selection, Lossy, Slow, Noise, Changes, Dropping, Failing, Lingering, Keyframes, Requests}
RSSIFloor == -85
RSSICeiling == -40
=============================================================================
