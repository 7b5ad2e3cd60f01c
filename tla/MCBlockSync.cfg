\* Nodes that get blocks from elsewhere while they synchronize.
SPECIFICATION FairSpec
CONSTANTS
  G = G
  None = None
  a1 = a1
  a2 = a2
  a3 = a3
  a4 = a4
  b2 = b2
  b3 = b3
  c1 = c1
  n1 = n1
  n2 = n2
  n3 = n3
  Genesis = G
  NoBlock = None
  Block <- SwayBlock
  Parent <- SwayParent
  Height <- SwayHeight
  Ancestor <- SwayAncestor
  ChainTrust <- SwayTrust
  Node = {n1, n2, n3}
  Fresh <- SwayBlock
  Networks <- AllNetworks
INVARIANTS
  HonestPeersNotBlamed
  EndsAgree
PROPERTIES
  Converges
CHECK_DEADLOCK FALSE
