CONSTANTS
    p1 = p1
    p2 = p2
    c3 = c3
    o2 = o2
    acc3 = acc3
    acc4 = acc4
    Local = Local
    Peers = {p1, p2}
    Items <- MCTxs
    Requires <- MCRequires
    Outputs <- MCOutputs
    Accounts <- MCAccounts
    Confirmed = {c3, acc4}
    MaxOrphans = 2
SYMMETRY MCSymmetry
SPECIFICATION Spec
\* The mempool stops when pick panics.
CHECK_DEADLOCK FALSE
INVARIANTS
    PickNeverPanics
