\* Two stacked utxo caches, and a token with an order that is filled across the fork of the orders' rules.
CONSTANTS
    t1 = t1
    t2 = t2
    r = r
    a = a
    g = g
    x = x
    k = k
    w = w
    burn = burn
    Genesis = Genesis
    NoUtxo = NoUtxo
    NotConnected = NotConnected
    NoLayer = NoLayer
    NoEntry = NoEntry
    Mempool = Mempool
    s1 = s1
    GenesisSource = s1
    GenesisTip = b0
    b0 = b0
    b1 = b1
    Txs <- MCTxs
    Rewards = {r}
    Outpoints <- MCPoints
    SourceId <- MCSource
    Excluded = {burn}
    Inputs <- MCInputs
    Sources = {s1, Mempool}
    Tips = {b0, b1}
    NoData = NoData
    tok1 = tok1
    o1 = o1
    a1 = a1
    Coin = Coin
    Tokens <- OneToken
    OrderIds <- OneOrder
    Authorities <- OneAuthority
    Supplies <- LockableOrFixed
    Offers <- SalesAndPurchases
    Coins = 5
    Amounts = {1, 4}
    OrdersV1Height = 2
    OpLimit = 5
    BlockLimit = 2
SPECIFICATION VerifierSpec
INVARIANTS
    CacheInv
    CallsSucceed
    LastBlockCanBeUndone
    OrdersAreFair
PROPERTIES
    ImplementsUtxoSet
    RestrictedStays
