SPECIFICATION FairSpec
CONSTANTS
  Node <- MCNode
  Peer <- MCPeer
  AppType = {"DNT"}
  MAX_RETRY_TIMES = 2
  HB_RETRY_TIMES = 2
  MaxMsgs <- Two
  MaxBeats <- One
INVARIANTS
  TypeOK
  DeliveredOrLost
  InOrderDelivery
  LostAtMostBeats
CHECK_DEADLOCK FALSE
PROPERTIES ImplementsChannel QueueMoves
