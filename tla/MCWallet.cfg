\* A wallet follows its node, and keeps its transactions.
SPECIFICATION WalletSpec
CONSTANTS
  G = G
  None = None
  a1 = a1
  a2 = a2
  a3 = a3
  a4 = a4
  b2 = b2
  b3 = b3
  c1 = c1
  Block <- ForkBlock
  Genesis = G
  Parent <- ForkParent
  Height <- ForkHeight
  Ancestor <- ForkAncestor
  ChainTrust <- ForkEvenTrust
  MaxAccounts = 3
  MaxFetch = 2
  Pays <- PaysAll
  NodeMoves = 4
  Scenarios <- AllScenarios
  m0 = m0
  m1 = m1
  f = f
  p = p
  NoTx = NoTx
  NoNonce = NoNonce
  Txs <- AllTxs
  IdOrder <- Ids
  Nonce <- Nonces
  Spends <- Change
  Outs <- AllOuts
  Source <- Sources
  Freezing = {f}
  TokenTxs <- Commands
  MaxReorgs = 1
INVARIANTS
  AccountsFollowChain
  CacheAgrees
PROPERTIES
  CatchesUp
CHECK_DEADLOCK FALSE
