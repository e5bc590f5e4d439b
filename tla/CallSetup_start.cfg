SPECIFICATION Spec
CONSTANTS
  a = a
  b = b
  Node = {a, b}
  Peer <- PeerAB
  MaxCalls <- OneCall
  MaxThreads = 2
INVARIANT StartsWhenAllArrived
CHECK_DEADLOCK FALSE
