\* A transaction and its child are relayed, and requests are purged or come too late.
SPECIFICATION Spec
CONSTANTS
  n1 = n1
  n2 = n2
  n3 = n3
  t1 = t1
  t2 = t2
  NoTx = NoTx
  Nodes <- Three
  Txs = {t1, t2}
  Parent <- ChildOf
  Networks <- AllNetworks
PROPERTIES
  Relayed
  RequestsEnd
CHECK_DEADLOCK FALSE
