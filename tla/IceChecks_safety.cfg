SPECIFICATION FairSpec
CONSTANTS
  a = a
  b = b
  Agent = {a, b}
  Peer <- PeerAB
  Gathered <- HostAndReflexive
  Prio <- TypePrio
  AttrPrio = 111
  LearntPrio = 110
  Word = 256
  Sock <- SockAB
  Via <- Mixed
  Tie <- TieAB
  Roles <- Same
  MaxTrans = 2
  MaxChecks = 100
  MaxLoss = 1
  Prompt = TRUE
  EarlyChecks = TRUE
INVARIANTS TypeOK SelectedIsBest
PROPERTIES RolesStay RolesSettle
CHECK_DEADLOCK FALSE
