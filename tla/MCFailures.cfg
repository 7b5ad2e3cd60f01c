CONSTANTS
    G = G
    None = None
    a1 = a1
    a2 = a2
    a3 = a3
    a4 = a4
    b2 = b2
    b3 = b3
    c1 = c1
    Genesis = G
    NoBlock = None
    Block <- ShortBlock
    Parent <- ShortParent
    Height <- ShortHeight
    Ancestor <- ShortAncestor
    ChainTrust <- ShortTrust
    BadHeader <- NoBlocks
    BadBody <- NoBlocks
    BadTx <- OnlyA2
    FutureBlock <- NoBlocks
    PoSBlock <- NoBlocks
    FreshBlock <- NoBlocks
    MaxReorgDepth = 1
    MaxOrphans = 1
    Commands = {"invalidate", "reset_any"}
    Faults = {"crash", "db"}
    MaxFaults = 1
SPECIFICATION FailuresSpec
INVARIANTS
    ChainInv
PROPERTIES
    FinalizedPrefixKept
