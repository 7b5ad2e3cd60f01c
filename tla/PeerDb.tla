------------------------------- MODULE PeerDb -------------------------------
(***************************************************************************)
(* The addresses a node knows of (p2p/src/peer_manager/peerdb): what it    *)
(* knows about each of them, the tables of new and tried addresses, where  *)
(* an address has a fixed slot and may push another one out, and what is   *)
(* saved.                                                                  *)
(*                                                                         *)
(* Times are left out: the time to connect again, or to forget an address  *)
(* that is not reachable, may have come or not.  Anchors are left out.     *)
(***************************************************************************)
EXTENDS Naturals, FiniteSets

CONSTANTS
  KnownAddrs, Nobody,
  Slots, NewSlot, TriedSlot,   \* the slot of an address in each table
  ConfigReserved, BootNodes,   \* the reserved nodes and the boot nodes of the configuration
  Reservable,                  \* those, and the ones the user makes reserved nodes
  FailLimit                    \* PURGE_REACHABLE_FAIL_COUNT

ASSUME PeerDbAssumption ==
  /\ Nobody \notin KnownAddrs
  /\ NewSlot \in [KnownAddrs -> Slots] /\ TriedSlot \in [KnownAddrs -> Slots]
  /\ ConfigReserved \subseteq Reservable /\ Reservable \subseteq KnownAddrs
  /\ BootNodes \subseteq KnownAddrs
  /\ FailLimit \in Nat \ {0}

VARIABLES
  addresses,    \* AddressData, or Absent
  reserved,     \* reserved_nodes
  new, tried,   \* the address in each slot
  saved,        \* the known addresses in the storage: "New", "Tried" or "none"
  connected,    \* the addresses of the outbound peers
  panicked,     \* an unreachable!() was reached
  dropped       \* history: the addresses that were forgotten while they were connected

dbVars == <<addresses, reserved, new, tried, saved, connected, panicked, dropped>>

Absent == [state |-> "Absent", reachable |-> FALSE, fails |-> 0]
Known(reachable) == [state |-> "Disconnected", reachable |-> reachable, fails |-> 0]

InNew(a) == new[NewSlot[a]] = a
InTried(a) == tried[TriedSlot[a]] = a

\* AddressData::transition_to, of an address that is added if it is not there
Entry(a) == IF addresses[a] = Absent THEN Known(FALSE) ELSE addresses[a]

\* The transition to ConnectionFailed; failures are counted up to the limit.
ConnectionFailed(a) ==
  LET d == Entry(a)
  IN CASE d.state = "Unreachable" -> d
       [] a \notin reserved /\ (~d.reachable \/ d.fails + 1 >= FailLimit) ->
            [d EXCEPT !.state = "Unreachable"]
       [] OTHER -> [d EXCEPT !.fails = IF @ < FailLimit THEN @ + 1 ELSE @]

\* The transition to SetReserved.
SetReserved(a) ==
  IF Entry(a).state = "Unreachable" THEN Known(FALSE) ELSE Entry(a)

\* PeerDb::new: of the addresses that are loaded for the same slot one stays in the
\* table, unless a boot node that is not known yet takes its place, which is not
\* saved.  All of them are known.
SavedAs(kind) == {a \in KnownAddrs : saved[a] = kind}
Boots == {a \in BootNodes \ ConfigReserved : saved[a] = "none"}

Loaded(table, slot, loaded, boots) ==
  \A s \in Slots :
    LET here(A) == {a \in A : slot[a] = s}
    IN table[s] \in IF here(boots) # {} THEN here(boots)
                    ELSE IF here(loaded) # {} THEN here(loaded) ELSE {Nobody}

StartData(a) ==
  CASE saved[a] # "none" -> Known(saved[a] = "Tried")
    [] saved[a] = "none" /\ a \in BootNodes \cup ConfigReserved -> Known(FALSE)
    [] OTHER -> Absent

DbInit ==
  /\ saved = [a \in KnownAddrs |-> "none"]
  /\ addresses = [a \in KnownAddrs |-> StartData(a)]
  /\ reserved = ConfigReserved
  /\ new \in [Slots -> KnownAddrs \cup {Nobody}] /\ Loaded(new, NewSlot, {}, Boots)
  /\ tried = [s \in Slots |-> Nobody]
  /\ connected = {} /\ panicked = FALSE /\ dropped = {}

----------------------------------------------------------------------------
\* Table::remove
Without(table, a) == [s \in Slots |-> IF table[s] = a THEN Nobody ELSE table[s]]

\* remove_from_addresses_if_some_non_reserved
Forgotten(data, a) ==
  IF a # Nobody /\ a \notin reserved THEN [data EXCEPT ![a] = Absent] ELSE data

Unsaved(storage, a) ==
  IF a # Nobody /\ a \notin reserved THEN [storage EXCEPT ![a] = "none"] ELSE storage

\* As MoveToTried, but the address that is moved back is not saved.
MoveToTriedUnsaved(data, a) ==
  LET old == tried[TriedSlot[a]]
  IN /\ tried' = [tried EXCEPT ![TriedSlot[a]] = a]
     /\ new' = IF old \in {a, Nobody} THEN Without(new, a)
               ELSE [Without(new, a) EXCEPT ![NewSlot[old]] = old]
     /\ addresses' = data /\ saved' = [saved EXCEPT ![a] = "Tried"]
     /\ UNCHANGED dropped

\* move_addr_to_tried: the tried address that is there is moved to the new ones,
\* and pushes out the one that is there.
MoveToTried(data, a) ==
  LET old == IF InTried(a) THEN Nobody ELSE tried[TriedSlot[a]]
      rest == Without(new, a)
      out == IF old = Nobody THEN Nobody ELSE rest[NewSlot[old]]
  IN /\ tried' = [tried EXCEPT ![TriedSlot[a]] = a]
     /\ new' = IF old = Nobody THEN rest ELSE [rest EXCEPT ![NewSlot[old]] = old]
     /\ addresses' = Forgotten(data, out)
     /\ saved' = Unsaved([b \in KnownAddrs |-> CASE b = a -> "Tried"
                                           [] b = old -> "New"
                                           [] OTHER -> saved[b]], out)
     /\ dropped' = dropped \cup ({out} \cap (connected \ reserved))

----------------------------------------------------------------------------
\* peer_discovered: a new address only pushes out one that is reserved or not
\* reachable.
PeerDiscovered(a) ==
  LET there == new[NewSlot[a]]
      out == IF there = a THEN Nobody ELSE there
  IN /\ ~panicked /\ addresses[a] = Absent
     /\ out \in {Nobody} \cup reserved \cup {b \in KnownAddrs : addresses[b].state = "Unreachable"}
     /\ tried' = Without(tried, a)
     /\ new' = [new EXCEPT ![NewSlot[a]] = a]
     /\ addresses' = [Forgotten(addresses, out) EXCEPT ![a] = Known(FALSE)]
     /\ saved' = Unsaved([saved EXCEPT ![a] = "New"], out)
     /\ UNCHANGED <<reserved, connected, panicked, dropped>>

\* outbound_peer_connected, for a connection the node chose or the user asked for
OutboundPeerConnected(a) ==
  /\ ~panicked /\ a \notin connected
  /\ connected' = connected \cup {a}
  /\ panicked' = (Entry(a).state = "Connected")
  /\ MoveToTried([addresses EXCEPT ![a] = [Entry(a) EXCEPT !.state = "Connected"]], a)
  /\ UNCHANGED reserved

\* report_outbound_failure
ReportOutboundFailure(a) ==
  /\ ~panicked /\ a \notin connected
  /\ panicked' = (Entry(a).state = "Connected")
  /\ addresses' = [addresses EXCEPT ![a] = ConnectionFailed(a)]
  /\ UNCHANGED <<reserved, new, tried, saved, connected, dropped>>

\* connection_closed: outbound_peer_disconnected, and remove_address if the user
\* asked for it.
OutboundPeerDisconnected(a, remove) ==
  /\ ~panicked /\ a \in connected
  /\ connected' = connected \ {a}
  /\ panicked' = (Entry(a).state # "Connected")
  /\ addresses' = [addresses EXCEPT ![a] = IF remove /\ a \notin reserved THEN Absent ELSE Known(TRUE)]
  /\ IF remove
     THEN /\ new' = Without(new, a) /\ tried' = Without(tried, a)
          /\ saved' = [saved EXCEPT ![a] = "none"]
     ELSE UNCHANGED <<new, tried, saved>>
  /\ UNCHANGED <<reserved, dropped>>

AddReservedNode(a) ==
  /\ ~panicked /\ a \in Reservable
  /\ reserved' = reserved \cup {a}
  /\ addresses' = [addresses EXCEPT ![a] = SetReserved(a)]
  /\ UNCHANGED <<new, tried, saved, connected, panicked, dropped>>

RemoveReservedNode(a) ==
  /\ ~panicked /\ a \in Reservable
  /\ reserved' = reserved \ {a}
  /\ addresses' = [addresses EXCEPT ![a] = Entry(a)]
  /\ UNCHANGED <<new, tried, saved, connected, panicked, dropped>>

\* heartbeat: an address that is not reachable is forgotten after some time.
Heartbeat(a) ==
  /\ ~panicked /\ addresses[a].state = "Unreachable"
  /\ addresses' = [addresses EXCEPT ![a] = Absent]
  /\ new' = Without(new, a) /\ tried' = Without(tried, a)
  /\ saved' = [saved EXCEPT ![a] = "none"]
  /\ UNCHANGED <<reserved, connected, panicked, dropped>>

Restart ==
  /\ new' \in [Slots -> KnownAddrs \cup {Nobody}] /\ Loaded(new', NewSlot, SavedAs("New"), Boots)
  /\ tried' \in [Slots -> KnownAddrs \cup {Nobody}] /\ Loaded(tried', TriedSlot, SavedAs("Tried"), {})
  /\ addresses' = [a \in KnownAddrs |-> StartData(a)]
  /\ reserved' = ConfigReserved
  /\ connected' = {} /\ panicked' = FALSE /\ dropped' = {}
  /\ UNCHANGED saved

DbNext ==
  \/ \E a \in KnownAddrs :
       \/ PeerDiscovered(a) \/ OutboundPeerConnected(a) \/ ReportOutboundFailure(a)
       \/ \E remove \in BOOLEAN : OutboundPeerDisconnected(a, remove)
       \/ AddReservedNode(a) \/ RemoveReservedNode(a) \/ Heartbeat(a)
  \/ Restart

DbSpec == DbInit /\ [][DbNext]_dbVars

----------------------------------------------------------------------------
\* Type correctness.
DbTypeOK ==
  /\ addresses \in [KnownAddrs -> [state : {"Absent", "Disconnected", "Connected", "Unreachable"},
                              reachable : BOOLEAN, fails : 0 .. FailLimit]]
  /\ reserved \subseteq KnownAddrs /\ connected \subseteq KnownAddrs
  /\ panicked \in BOOLEAN /\ dropped \subseteq KnownAddrs
  /\ new \in [Slots -> KnownAddrs \cup {Nobody}] /\ tried \in [Slots -> KnownAddrs \cup {Nobody}]
  /\ saved \in [KnownAddrs -> {"New", "Tried", "none"}]

\* "Address {addr} not found in self.addresses"
\* (p2p/src/peer_manager/peerdb/mod.rs:251) does not happen: all addresses in the tables
\* are known, and each is in one table only.
TablesAreKnown ==
  \A a \in KnownAddrs :
    /\ InNew(a) \/ InTried(a) => addresses[a] # Absent
    /\ ~(InNew(a) /\ InTried(a))

\* "reserved nodes must always be in the addresses map"
\* (p2p/src/peer_manager/peerdb/mod.rs:332), and they are never given up.
ReservedAreKept ==
  \A a \in reserved : addresses[a].state \in {"Connected", "Disconnected"}

\* Whatever is in a table is saved for that table, so a restart finds it again; or
\* it is a boot node, which is in the configuration.
TablesAreSaved ==
  \A a \in KnownAddrs :
    /\ InNew(a) => \/ saved[a] = "New"
                   \/ saved[a] = "none" /\ a \in BootNodes \ ConfigReserved
    /\ InTried(a) => saved[a] = "Tried"

\* The address of an outbound peer is known to be connected, and no other, so that
\* "unreachable!()" (p2p/src/peer_manager/peerdb/address_data/mod.rs:204) is not
\* reached when the peer disconnects.  The exception: an address that another
\* connection pushed out of the tables (move_addr_to_tried) while it was connected.
ConnectedAreKnown ==
  /\ \A a \in KnownAddrs : addresses[a].state = "Connected" => a \in connected
  /\ \A a \in connected \ dropped : addresses[a].state = "Connected"
  /\ panicked => dropped # {}

\* What the tables, the reserved nodes and the outbound peers need is known, but for
\* connected addresses that were pushed out, and a restart finds it again.
AddressesInv ==
  DbTypeOK /\ TablesAreKnown /\ ReservedAreKept /\ TablesAreSaved /\ ConnectedAreKnown
=============================================================================
