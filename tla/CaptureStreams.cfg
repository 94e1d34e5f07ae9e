SPECIFICATION Spec
CONSTANTS
  c1 = c1
  c2 = c2
  Channels <- MCBoth
  InitialStreams <- MCOne
  QueueSize = 1
  BufferSize = 2
  MaxPackets = 2
  MaxStarts = 3
CHECK_DEADLOCK FALSE
INVARIANT CaptureInv
INVARIANT PanicsOnlyInStop
PROPERTY QueuedIsHandled
PROPERTY CaptureEnds
