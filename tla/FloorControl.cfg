SPECIFICATION FairSpec
CONSTANTS
  Node <- MCNode
  Peer <- MCPeer
  Caller = "a"
  MaxPress <- Presses
  MaxSlide = 1
  MaxDup = 1
  MaxLost = 1
INVARIANTS
  TypeOK
  DevicesFollowState
  FloorNotCopied
  FloorNotDropped
CHECK_DEADLOCK FALSE

PROPERTIES
  AskerTalks
