\* Two pools with two delegations, and epochs of two blocks, sealed one behind the tip.
SPECIFICATION StakingSpec
CONSTANTS
  NoData = NoData
  p1 = p1
  p2 = p2
  d1 = d1
  d2 = d2
  Pools <- TwoPools
  Delegations <- TwoDelegations
  Amounts = {2}
  Rewards = {7}
  CostPerBlock = 1
  Margin = 250
  UpgradeHeight = 2
  MaxOps = 5
  MaxBlocks = 2
  v1 = v1
  Values <- MCValues
  MaxAmount = 1
  Seeds = {1, 2}
  DefaultSeed = 1
  EpochLength = 2
  Distance = 1
  MaxHeight = 5
INVARIANTS
  BooksBalance
  LastBlockCanBeUndone
  SealInv
PROPERTY
  ImplementsLedger
