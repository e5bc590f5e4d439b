SPECIFICATION Spec
CONSTANTS
  a = a
  b = b
  Node = {a, b}
  Peer <- PeerAB
  MaxCalls <- Again
  MaxThreads = 2
INVARIANTS TypeOK NoTalkUnaccepted StartedOnce StartIsDue NoDangling NobodyLeftBusy
CHECK_DEADLOCK FALSE
