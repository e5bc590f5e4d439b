SPECIFICATION FairSpec
CONSTANTS
  FrameSize = 3
  PlayBufferSize = 3
  Decoded <- WholeFrames
  MaxPackets = 4
  MaxStarts = 3
  MaxFailures = 1
PROPERTY ReturnsWhenStopped
CHECK_DEADLOCK FALSE
