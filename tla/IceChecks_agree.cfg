SPECIFICATION FairSpec
CONSTANTS
  a = a
  b = b
  Agent = {a, b}
  Peer <- PeerAB
  Gathered <- HostAndReflexive
  Prio <- TypePrio
  AttrPrio = 111
  LearntPrio = 110
  Word = 256
  Sock <- SockAB
  Via <- Hairpin
  Tie <- TieAB
  Roles <- Either
  MaxTrans = 4
  MaxChecks = 100
  MaxLoss = 3
  Prompt = TRUE
  EarlyChecks = FALSE
INVARIANT Agreement
PROPERTY BothReady
CHECK_DEADLOCK FALSE
