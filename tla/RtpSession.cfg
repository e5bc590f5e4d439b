SPECIFICATION Spec
CONSTANTS
  Ssrc = {peer, s1, s2, s3, s4}
  Peer = peer
  Host = {hp, hl}
  PeerHost = hp
  LoopHost = hl
  senderMultiplier = 1
  byeMultiplier = 1
  memberMultiplier = 2
  collisionMultiplier = 1
  MaxNoise = 2
INVARIANTS TypeOK CountsAddUp
PROPERTIES PeerIsHeard OwnSettles
