SPECIFICATION FairSpec
CONSTANTS
  Profiles <- ThreeProfiles
  MinScore = 4
  MaxScore = 8
  SmoothUp = 2
  Hysteresis = 15
  HoldUp = 2
  HoldDown = 0
  MinBetween = 1
  FallbackTimeout = 2
  FallbackHold = 1
  KeyframeInterval = 2
  CodeExpiry = 1
  FECInterval = 1
  SpikeBitrate = 0
  RestoreDelay = 1
  MaxJobs = 1
  MaxSlow = 3
  ScoreMin = 4
  ScoreMax = 8
  RSSIMin <- RSSIFloor
  RSSIMax <- RSSICeiling
  SNRMin = 10
  SNRMax = 36
  MinNoise = 0
  MaxNoise = 2
  NoiseCeiling = 3
  IDRMax = 4
  CounterMod = 2
  Codes = {1, 2, 3, 4, 5, 6}
  Scenarios <- AllScenarios
INVARIANT AdaptiveInv
INVARIANT FallbackIsSafest
PROPERTY SilenceFallsBack
PROPERTY SteadyScoreReached
PROPERTY LossIsRepaired
