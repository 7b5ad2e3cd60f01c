\* The connections of a node, and the addresses it knows.
SPECIFICATION PeersSpec
CONSTANTS
  Remotes = {r}
  Self = Self
  NoAddr = NoAddr
  MaxConns = 2
  Scenarios <- AllScenarios
  a1 = a1
  a2 = a2
  a3 = a3
  Nobody = Nobody
  KnownAddrs = {a1, a2, a3}
  Slots <- AllSlots
  NewSlot <- Pairs
  TriedSlot <- Crowded
  ConfigReserved = {a1}
  BootNodes = {a2, a3}
  Reservable = {a1, a2}
  FailLimit = 1
INVARIANTS
  ConnectionsInv
  AddressesInv
PROPERTY
  ConnectionsSettle
CHECK_DEADLOCK FALSE
