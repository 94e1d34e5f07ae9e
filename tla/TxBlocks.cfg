SPECIFICATION TxFairSpec
CONSTANTS
  Epoch = 0
  FecParams <- MCFecParams
  TxMaxBlockIdx = 1
  Faults <- SilentFaults
  MaxPackets = 4
  MaxSessions = 3
  MaxFaults = 2
  Bodies <- MCBodies
CHECK_DEADLOCK FALSE
INVARIANTS
  TxInv
  NonceUnique
  ClosedBlocksDecodable
PROPERTIES
  OpenBlockIsClosed
