CONSTANTS
  G = G  None = None
  a1 = a1 a2 = a2 a3 = a3 a4 = a4 b2 = b2 b3 = b3 c1 = c1
  p = p c = c d = d q = q r = r k1 = k1 k2 = k2
  Block <- TreeBlock
  Genesis = G
  Parent <- TreeParent
  Height <- TreeHeight
  Ancestor <- TreeAncestor
  ChainTrust <- TreeTrust
  Txs <- TreeTxs
  Coins <- TreeCoins
  Spends <- TreeSpends
  BlockTxs <- TreeBlockTxs
  MaxAttempts = 2
  MaxMoves = 2
  MaxFailures = 1
SPECIFICATION Spec
INVARIANTS PoolSound NothingLost
PROPERTY CatchesUp
