SPECIFICATION LinkSpec
CONSTANTS
  Epoch = 0
  FecParams <- MCFecFixed
  TxMaxBlockIdx = 1
  Faults <- NoFaults
  MaxPackets = 3
  MaxSessions = 2
  MaxFaults = 0
  RingSize = 2
  MaxBlockIdx = 1
  OutCap = 1
  SeqMod = 64
  MinEpoch = 0
  MaxIncarnations = 3
  Bodies <- MCBodies
CHECK_DEADLOCK FALSE
PROPERTIES
  ImplementsOrderedDelivery
