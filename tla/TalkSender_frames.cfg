SPECIFICATION FairSpec
CONSTANTS
  FrameSize = 2
  MaxLength = 2
  MaxStarts = 2
  MaxFrames = 2
PROPERTY FramesAreHandled
CHECK_DEADLOCK FALSE
