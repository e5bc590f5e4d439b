SPECIFICATION FairSpec
CONSTANTS
  FrameSize = 3
  PlayBufferSize = 8
  Decoded <- AnyResult
  MaxPackets = 7
  MaxStarts = 3
  MaxFailures = 1
INVARIANTS TypeOK InBuffer
PROPERTY ReturnsWhilePlaying
CHECK_DEADLOCK FALSE
