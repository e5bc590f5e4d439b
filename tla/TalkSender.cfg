SPECIFICATION FairSpec
CONSTANTS
  FrameSize = 2
  MaxLength = 2
  MaxStarts = 3
  MaxFrames = 2
INVARIANTS
  TypeOK
  ConditionTracksQueue
  BufferHasRoom
  FramesConserved
  SentInOrder
  OneEncoder
CHECK_DEADLOCK FALSE
PROPERTIES ThreadsWindDown
