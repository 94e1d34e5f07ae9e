SPECIFICATION LinkSpec
CONSTANTS
  Epoch = 0
  FecParams <- MCFecFixed
  TxMaxBlockIdx = 2
  Faults <- SilentFaults
  MaxPackets = 4
  MaxSessions = 1
  MaxFaults = 1
  RingSize = 2
  MaxBlockIdx = 2
  OutCap = 4
  SeqMod = 64
  MinEpoch = 0
  MaxIncarnations = 1
  Bodies <- MCBodies
CHECK_DEADLOCK FALSE
INVARIANTS
  OutputWasSent
