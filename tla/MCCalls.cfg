CONSTANTS
    G = G
    None = None
    a1 = a1
    a2 = a2
    a3 = a3
    a4 = a4
    b2 = b2
    b3 = b3
    c1 = c1
    Genesis = G
    NoBlock = None
    Block <- BushBlock
    Parent <- BushParent
    Height <- BushHeight
    Ancestor <- BushAncestor
    ChainTrust <- BushTrust
    BadHeader <- NoBlocks
    BadBody <- OnlyC1
    BadTx <- OnlyB3
    FutureBlock <- OnlyB2
    PoSBlock <- OnlyA3
    FreshBlock <- OnlyA2
    MaxReorgDepth = 2
    MaxOrphans = 2
    Commands = {"invalidate", "reset_root"}
    Faults = {}
    MaxFaults = 0
    MaxOrphanBlocks = 3
SPECIFICATION CallsSpec
INVARIANTS
    BestChainActive
    NoOrphanLeftBehind
    GoodBlockNotBlamed
    IndexConsistent
PROPERTIES
    CallsEnd
    ImplementsOrphanSet
