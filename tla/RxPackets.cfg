SPECIFICATION MCSpec
CONSTANTS
  RingSize = 2
  MaxBlockIdx = 3
  OutCap = 1
  SeqMod = 64
  MinEpoch = 1
  MaxIncarnations = 3
  MCBlocks <- MCThreeBlocks
  MCFec <- MCThreeSessions
  Bodies <- MCBodies
  Announcements <- MCAnnouncements
  DataPackets <- MCDataPackets
INVARIANTS
  RxTypeOK
  NoDecodableBlockWaits
  CompletedBlocksOffered
  RxInv
  InOrder
  LastKnownIsOfThisSession
  OutputIsSent
PROPERTIES
  HandlerReturns
