SPECIFICATION StreamSpec
CONSTANTS
  Framed = TRUE
  HeaderSize = 2
  MaxSize = 8
  Sizes <- MCSizes
  MaxReads = 4
  Wlans <- MCWlans
  Clients = {c1, c2}
  c1 = c1
  c2 = c2
  Scenarios <- MCScenarios
CHECK_DEADLOCK FALSE
INVARIANT AggTypeOK
INVARIANT StreamInv
INVARIANT FlushedInOrder
INVARIANT TimerCovers
INVARIANT NeverSilent
INVARIANT BroadcastWhenDeaf
INVARIANT AntennaRestored
INVARIANT AcceptedAreInjected
PROPERTY ImplementsOrderedDelivery
PROPERTY BufferedIsSent
PROPERTY StopEnds
