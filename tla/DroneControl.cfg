SPECIFICATION FairSpec
CONSTANTS
  Handlers = {h1, h2}
  h1 = h1
  h2 = h2
  Channels <- TwoChannels
  Settings <- TwoSettings
  FirstSetting = "a"
  FirstChannel = 1
  TXPower <- PowerOf
  AdaptedPowers <- LowProfile
  GroundPowers <- SavedPowers
  FirstGroundPower = 20
  HasProfiles = FALSE
  Edits <- PageEdits
  Partial <- PartialSaves
  Budgets <- Scenarios
INVARIANT DroneInv
INVARIANT SwitchFollowed
INVARIANT PowerRestored
PROPERTY RequestsAnswered
CHECK_DEADLOCK FALSE
