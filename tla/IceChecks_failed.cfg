SPECIFICATION Spec
CONSTANTS
  a = a
  b = b
  Agent = {a, b}
  Peer <- PeerAB
  Gathered <- HostAndReflexive
  Prio <- TypePrio
  AttrPrio = 111
  LearntPrio = 110
  Word = 256
  Sock <- SockAB
  Via <- Cone
  Tie <- TieAB
  Roles <- Either
  MaxTrans = 2
  MaxChecks = 100
  MaxLoss = 2
  Prompt = TRUE
  EarlyChecks = FALSE
INVARIANT FailedHasNoPair
CHECK_DEADLOCK FALSE
