--------------------------- MODULE PeerDbProofs ----------------------------
(***************************************************************************)
(* First the database of addresses: whatever is discovered, connected,     *)
(* reserved, given up or loaded after a restart, in any order and for any  *)
(* addresses and slots, the tables hold known and saved addresses and boot *)
(* nodes only, each of them once, no reserved node is lost, and outbound   *)
(* peers are known to be connected unless they were pushed out.            *)
(*                                                                         *)
(* The strengthening: an address is only ever in its own slot of a table,  *)
(* so that the one it pushes out is in no other slot, and an address that  *)
(* is absent has no data left.                                             *)
(*                                                                         *)
(* Then the connections: ConnectionsInv for any addresses, connections and *)
(* limits, however the peer manager, the backend and the tasks interleave. *)
(* The strengthening says what may be on its way in each of the channels   *)
(* when the backend has a connection in one of its states (Life), that     *)
(* nothing is reported or commanded twice (EventsOnce, CommandsOnce), that *)
(* an attempt to connect is pending with the peer manager and alone at its *)
(* address (Attempts, OutboundOnce), and how far the two ends of a         *)
(* connection of the node with itself can get (Own).                       *)
(***************************************************************************)
EXTENDS PeerDb, PeerConnections, TLAPS, FiniteSetTheorems

\* The data of an address.
Data == [state : {"Absent", "Disconnected", "Connected", "Unreachable"},
         reachable : BOOLEAN, fails : 0 .. FailLimit]

\* Every address in a table is in its own slot.
InOwnSlot(table, slot) == \A s \in Slots : table[s] # Nobody => slot[table[s]] = s

AbsentIsEmpty == \A a \in KnownAddrs : addresses[a].state = "Absent" => addresses[a] = Absent

\* The part of AddressesInv that does not speak of the outbound peers.
TablesInv == DbTypeOK /\ TablesAreKnown /\ ReservedAreKept /\ TablesAreSaved

\* A boot node may be in the new table without being saved.
NewIsKept(a) == \/ saved[a] = "New"
                \/ saved[a] = "none" /\ a \in BootNodes \ ConfigReserved

\* The inductive invariant.
DbInv ==
  /\ TablesInv /\ AbsentIsEmpty
  /\ InOwnSlot(new, NewSlot) /\ InOwnSlot(tried, TriedSlot)

----------------------------------------------------------------------------
\* The data of an address that is known, or added by a transition.
LEMMA KnownData ==
  /\ Absent \in Data
  /\ \A r \in BOOLEAN : Known(r) \in Data /\ Known(r).state = "Disconnected"
                        /\ Known(r) # Absent
  /\ Absent.state = "Absent"
  BY PeerDbAssumption DEF Data, Absent, Known

\* A transition of an address starts from the data of a known one.
LEMMA EntryData ==
  ASSUME DbInv, NEW a \in KnownAddrs
  PROVE  /\ Entry(a) \in Data
         /\ Entry(a).state # "Absent"
         /\ a \in reserved => Entry(a).state \in {"Connected", "Disconnected"}
  <1>1. addresses[a] \in Data /\ (addresses[a].state = "Absent" => addresses[a] = Absent)
    BY DEF DbInv, TablesInv, DbTypeOK, AbsentIsEmpty, Data
  <1>2. CASE addresses[a] = Absent
    BY <1>2, KnownData DEF Entry
  <1>3. CASE addresses[a] # Absent
    <2>1. Entry(a) = addresses[a] /\ Entry(a).state # "Absent"
      BY <1>1, <1>3 DEF Entry
    <2> QED BY <1>1, <2>1 DEF DbInv, TablesInv, ReservedAreKept
  <1> QED BY <1>2, <1>3

\* Removing an address from a table leaves the others in their slots.
LEMMA WithoutOK ==
  ASSUME NEW slot \in [KnownAddrs -> Slots],
         NEW table \in [Slots -> KnownAddrs \cup {Nobody}], InOwnSlot(table, slot),
         NEW a \in KnownAddrs
  PROVE  /\ Without(table, a) \in [Slots -> KnownAddrs \cup {Nobody}]
         /\ InOwnSlot(Without(table, a), slot)
         /\ \A b \in KnownAddrs :
              Without(table, a)[slot[b]] = b <=> b # a /\ table[slot[b]] = b
  BY PeerDbAssumption DEF Without, InOwnSlot

\* The table with a in its slot.
With(table, slot, a) == [table EXCEPT ![slot[a]] = a]

\* The table t is the table before, in which a has taken its slot.
TakesSlot(t, before, slot, a) ==
  /\ t \in [Slots -> KnownAddrs \cup {Nobody}] /\ InOwnSlot(t, slot)
  /\ \A b \in KnownAddrs : t[slot[b]] = b <=> b = a \/ (b # before[slot[a]] /\ before[slot[b]] = b)

\* Putting an address into its slot leaves the others but the one that was there.
LEMMA WithOK ==
  ASSUME NEW slot \in [KnownAddrs -> Slots],
         NEW table \in [Slots -> KnownAddrs \cup {Nobody}], InOwnSlot(table, slot),
         NEW a \in KnownAddrs
  PROVE  TakesSlot(With(table, slot, a), table, slot, a)
  BY PeerDbAssumption DEF With, InOwnSlot, TakesSlot

\* What is forgotten of the addresses and of the storage.
LEMMA ForgottenOK ==
  ASSUME NEW data \in [KnownAddrs -> Data],
         NEW storage \in [KnownAddrs -> {"New", "Tried", "none"}],
         NEW out \in KnownAddrs \cup {Nobody}
  PROVE  /\ Forgotten(data, out) \in [KnownAddrs -> Data]
         /\ Unsaved(storage, out) \in [KnownAddrs -> {"New", "Tried", "none"}]
         /\ \A b \in KnownAddrs :
              /\ b # out \/ b \in reserved =>
                   Forgotten(data, out)[b] = data[b] /\ Unsaved(storage, out)[b] = storage[b]
              /\ Forgotten(data, out)[b] \in {data[b], Absent}
  BY KnownData, PeerDbAssumption DEF Forgotten, Unsaved

----------------------------------------------------------------------------
\* An address that becomes a tried one pushes another one back to the new
\* ones, and that one may push out a third: the tables stay sound.
LEMMA MoveToTriedOK ==
  ASSUME DbInv, NEW a \in KnownAddrs, NEW data \in [KnownAddrs -> Data],
         \A b \in KnownAddrs : b # a => data[b] = addresses[b],
         data[a].state \in {"Connected", "Disconnected"},
         MoveToTried(data, a), reserved' = reserved,
         connected' \subseteq KnownAddrs, panicked' \in BOOLEAN, dropped' \subseteq KnownAddrs
  PROVE  DbInv'
  <1> DEFINE old == IF InTried(a) THEN Nobody ELSE tried[TriedSlot[a]]
             rest == Without(new, a)
             out == IF old = Nobody THEN Nobody ELSE rest[NewSlot[old]]
             storage == [b \in KnownAddrs |-> CASE b = a -> "Tried"
                                               [] b = old -> "New"
                                               [] OTHER -> saved[b]]
  <1>1. /\ addresses \in [KnownAddrs -> Data] /\ reserved \subseteq KnownAddrs
        /\ new \in [Slots -> KnownAddrs \cup {Nobody}]
        /\ tried \in [Slots -> KnownAddrs \cup {Nobody}]
        /\ saved \in [KnownAddrs -> {"New", "Tried", "none"}]
        /\ InOwnSlot(new, NewSlot) /\ InOwnSlot(tried, TriedSlot)
        /\ NewSlot \in [KnownAddrs -> Slots] /\ TriedSlot \in [KnownAddrs -> Slots]
        /\ Nobody \notin KnownAddrs
    BY PeerDbAssumption DEF DbInv, TablesInv, DbTypeOK, Data
  <1>2. old \in KnownAddrs \cup {Nobody} /\ old # a
    BY <1>1 DEF InTried
  <1>3. /\ rest \in [Slots -> KnownAddrs \cup {Nobody}] /\ InOwnSlot(rest, NewSlot)
        /\ \A b \in KnownAddrs : rest[NewSlot[b]] = b <=> b # a /\ InNew(b)
    <2>1. /\ Without(new, a) \in [Slots -> KnownAddrs \cup {Nobody}]
          /\ InOwnSlot(Without(new, a), NewSlot)
          /\ \A b \in KnownAddrs :
               Without(new, a)[NewSlot[b]] = b <=> b # a /\ new[NewSlot[b]] = b
      <3>1. /\ NewSlot \in [KnownAddrs -> Slots] /\ InOwnSlot(new, NewSlot)
            /\ new \in [Slots -> KnownAddrs \cup {Nobody}]
        BY <1>1
      <3> QED BY <3>1, WithoutOK
    <2> QED BY <2>1 DEF InNew
  <1>4. storage \in [KnownAddrs -> {"New", "Tried", "none"}]
    BY <1>1
  <1>5. /\ tried' = [tried EXCEPT ![TriedSlot[a]] = a]
        /\ new' = IF old = Nobody THEN rest ELSE [rest EXCEPT ![NewSlot[old]] = old]
        /\ addresses' = Forgotten(data, out)
        /\ saved' = Unsaved(storage, out)
    BY DEF MoveToTried
  <1>6. \A b \in KnownAddrs : storage[b] = CASE b = a -> "Tried"
                                             [] b = old -> "New"
                                             [] OTHER -> saved[b]
    OBVIOUS
  <1>7. out \in KnownAddrs \cup {Nobody} /\ out # a /\ (out # Nobody => old # Nobody)
    <2>1. CASE old = Nobody
      BY <1>1, <2>1
    <2>2. CASE old # Nobody
      <3>1. NewSlot[old] \in Slots /\ out = rest[NewSlot[old]]
        BY <1>1, <1>2, <2>2
      <3>2. out # a
        BY <1>1, <3>1 DEF Without
      <3> QED BY <1>3, <2>2, <3>1, <3>2
    <2> QED BY <2>1, <2>2
  <1>8. old # Nobody => InTried(old) /\ ~InNew(old)
    <2>1. old # Nobody => InTried(old)
      BY <1>1, <1>2 DEF InTried, InOwnSlot
    <2> QED BY <1>2, <2>1 DEF DbInv, TablesInv, TablesAreKnown
  <1>9. out # Nobody => InNew(out) /\ out # old /\ ~InTried(out)
    <2> SUFFICES ASSUME out # Nobody PROVE InNew(out) /\ out # old /\ ~InTried(out)
      OBVIOUS
    <2>1. old # Nobody /\ old \in KnownAddrs /\ out = rest[NewSlot[old]] /\ NewSlot[old] \in Slots
      BY <1>1, <1>2, <1>7
    <2>2. NewSlot[out] = NewSlot[old]
      BY <1>3, <2>1 DEF InOwnSlot
    <2>3. InNew(out)
      BY <1>3, <1>7, <2>1, <2>2
    <2> QED BY <1>7, <1>8, <2>1, <2>3 DEF DbInv, TablesInv, TablesAreKnown
  <1> HIDE DEF old, rest, storage
  <1>10. /\ tried' \in [Slots -> KnownAddrs \cup {Nobody}] /\ InOwnSlot(tried', TriedSlot)
         /\ \A b \in KnownAddrs : InTried(b)' <=> b = a \/ (b # tried[TriedSlot[a]] /\ InTried(b))
    <2>1. tried' = With(tried, TriedSlot, a)
      BY <1>5 DEF With
    <2>2. TakesSlot(With(tried, TriedSlot, a), tried, TriedSlot, a)
      <3>1. /\ TriedSlot \in [KnownAddrs -> Slots] /\ tried \in [Slots -> KnownAddrs \cup {Nobody}]
            /\ InOwnSlot(tried, TriedSlot)
        BY <1>1
      <3> QED BY <3>1, WithOK
    <2> QED BY <2>1, <2>2 DEF InTried, TakesSlot
  <1>11. \A b \in KnownAddrs : InTried(b)' => b = a \/ (b # old /\ InTried(b))
    BY <1>1, <1>10 DEF old
  <1>12. /\ new' \in [Slots -> KnownAddrs \cup {Nobody}] /\ InOwnSlot(new', NewSlot)
         /\ \A b \in KnownAddrs : InNew(b)' => b = old \/ (b # out /\ b # a /\ InNew(b))
    <2>1. CASE old = Nobody
      <3>1. new' = rest /\ out = Nobody
        BY <1>5, <2>1
      <3> QED BY <1>1, <1>3, <3>1 DEF InNew
    <2>2. CASE old # Nobody
      <3>1. new' = With(rest, NewSlot, old) /\ out = rest[NewSlot[old]]
        BY <1>5, <2>2 DEF With
      <3>2. old \in KnownAddrs
        BY <1>2, <2>2
      <3>3. /\ new' \in [Slots -> KnownAddrs \cup {Nobody}] /\ InOwnSlot(new', NewSlot)
            /\ \A b \in KnownAddrs :
                 InNew(b)' => b = old \/ (b # rest[NewSlot[old]] /\ rest[NewSlot[b]] = b)
        <4>1. TakesSlot(With(rest, NewSlot, old), rest, NewSlot, old)
          <5>1. /\ NewSlot \in [KnownAddrs -> Slots] /\ old \in KnownAddrs
                /\ rest \in [Slots -> KnownAddrs \cup {Nobody}] /\ InOwnSlot(rest, NewSlot)
            BY <1>1, <1>3, <3>2
          <5> QED BY <5>1, WithOK
        <4> QED BY <3>1, <4>1 DEF InNew, TakesSlot
      <3> QED BY <1>3, <3>1, <3>3
    <2> QED BY <2>1, <2>2
  <1> HIDE DEF out
  <1>13. /\ addresses' \in [KnownAddrs -> Data] /\ saved' \in [KnownAddrs -> {"New", "Tried", "none"}]
         /\ \A b \in KnownAddrs :
              /\ b # out \/ b \in reserved => addresses'[b] = data[b] /\ saved'[b] = storage[b]
              /\ addresses'[b] \in {data[b], Absent}
    <2>1. /\ data \in [KnownAddrs -> Data] /\ storage \in [KnownAddrs -> {"New", "Tried", "none"}]
          /\ out \in KnownAddrs \cup {Nobody}
      BY <1>4, <1>7
    <2>2. /\ Forgotten(data, out) \in [KnownAddrs -> Data]
          /\ Unsaved(storage, out) \in [KnownAddrs -> {"New", "Tried", "none"}]
          /\ \A b \in KnownAddrs :
               /\ b # out \/ b \in reserved =>
                    Forgotten(data, out)[b] = data[b] /\ Unsaved(storage, out)[b] = storage[b]
               /\ Forgotten(data, out)[b] \in {data[b], Absent}
      BY <2>1, ForgottenOK
    <2> QED BY <1>5, <2>2
  <1>14. \A b \in KnownAddrs :
           /\ InTried(b)' => b # out /\ ~InNew(b)'
           /\ InNew(b)' => b # out
    BY <1>1, <1>2, <1>7, <1>8, <1>9, <1>11, <1>12 DEF DbInv, TablesInv, TablesAreKnown
  <1>15. \A b \in KnownAddrs : InNew(b)' \/ InTried(b)' => b = a \/ InNew(b) \/ InTried(b)
    BY <1>1, <1>8, <1>11, <1>12
  <1>16. TablesAreKnown'
    <2> SUFFICES ASSUME NEW b \in KnownAddrs
                 PROVE  /\ InNew(b)' \/ InTried(b)' => addresses'[b] # Absent
                        /\ ~(InNew(b)' /\ InTried(b)')
      BY DEF TablesAreKnown, InNew, InTried
    <2>1. ASSUME InNew(b)' \/ InTried(b)'
          PROVE  addresses'[b] # Absent
      <3>1. addresses'[b] = data[b]
        BY <1>13, <1>14, <2>1
      <3>2. CASE b = a
        BY <3>1, <3>2, KnownData
      <3>3. CASE b # a
        BY <1>15, <2>1, <3>1, <3>3 DEF DbInv, TablesInv, TablesAreKnown
      <3> QED BY <3>2, <3>3
    <2> QED BY <1>14, <2>1
  <1>17. ReservedAreKept'
    <2> SUFFICES ASSUME NEW b \in reserved
                 PROVE  addresses'[b].state \in {"Connected", "Disconnected"}
      BY DEF ReservedAreKept
    <2>1. addresses'[b] = data[b] /\ b \in KnownAddrs
      BY <1>1, <1>13
    <2> QED BY <2>1 DEF DbInv, TablesInv, ReservedAreKept
  <1>18. TablesAreSaved'
    <2> SUFFICES ASSUME NEW b \in KnownAddrs
                 PROVE  /\ InNew(b)' => NewIsKept(b)'
                        /\ InTried(b)' => saved'[b] = "Tried"
      BY DEF TablesAreSaved, NewIsKept, InNew, InTried
    <2>1. ASSUME InNew(b)' PROVE NewIsKept(b)'
      <3>1. saved'[b] = storage[b] /\ b # a
        BY <1>2, <1>12, <1>13, <1>14, <2>1
      <3> QED BY <1>6, <1>12, <2>1, <3>1 DEF DbInv, TablesInv, TablesAreSaved, NewIsKept
    <2>2. ASSUME InTried(b)' PROVE saved'[b] = "Tried"
      <3>1. saved'[b] = storage[b]
        BY <1>13, <1>14, <2>2
      <3> QED BY <1>2, <1>6, <1>11, <2>2, <3>1 DEF DbInv, TablesInv, TablesAreSaved
    <2> QED BY <2>1, <2>2
  <1>19. AbsentIsEmpty'
    <2> SUFFICES ASSUME NEW b \in KnownAddrs, addresses'[b].state = "Absent"
                 PROVE  addresses'[b] = Absent
      BY DEF AbsentIsEmpty
    <2> QED BY <1>13 DEF DbInv, AbsentIsEmpty
  <1>20. DbTypeOK'
    BY <1>1, <1>10, <1>12, <1>13 DEF DbTypeOK, Data
  <1> QED BY <1>10, <1>12, <1>16, <1>17, <1>18, <1>19, <1>20 DEF DbInv, TablesInv

----------------------------------------------------------------------------
\* Every operation of the database keeps the invariant.
LEMMA DbStep ==
  ASSUME DbInv, [DbNext]_dbVars
  PROVE  DbInv'
  <1> USE DEF TablesInv
  <1>1. /\ addresses \in [KnownAddrs -> Data] /\ reserved \subseteq KnownAddrs
        /\ connected \subseteq KnownAddrs /\ panicked \in BOOLEAN /\ dropped \subseteq KnownAddrs
        /\ new \in [Slots -> KnownAddrs \cup {Nobody}]
        /\ tried \in [Slots -> KnownAddrs \cup {Nobody}]
        /\ saved \in [KnownAddrs -> {"New", "Tried", "none"}]
        /\ InOwnSlot(new, NewSlot) /\ InOwnSlot(tried, TriedSlot)
        /\ NewSlot \in [KnownAddrs -> Slots] /\ TriedSlot \in [KnownAddrs -> Slots]
        /\ Nobody \notin KnownAddrs /\ Reservable \subseteq KnownAddrs
        /\ ConfigReserved \subseteq KnownAddrs /\ BootNodes \subseteq KnownAddrs
    BY PeerDbAssumption DEF DbInv, DbTypeOK, Data
  \* A change of the data of one address that is still known.
  <1>2. ASSUME NEW a \in KnownAddrs, NEW d \in Data, d.state # "Absent",
               addresses' = [addresses EXCEPT ![a] = d],
               reserved' \subseteq KnownAddrs, reserved' \subseteq reserved \cup {a},
               a \in reserved' => d.state \in {"Connected", "Disconnected"},
               UNCHANGED <<new, tried, saved>>,
               connected' \subseteq KnownAddrs, panicked' \in BOOLEAN,
               dropped' \subseteq KnownAddrs
        PROVE  DbInv'
    <2>1. /\ addresses' \in [KnownAddrs -> Data] /\ addresses'[a] = d
          /\ \A b \in KnownAddrs : b # a => addresses'[b] = addresses[b]
      BY <1>1, <1>2
    <2>2. d # Absent
      BY <1>2, KnownData
    <2>3. TablesAreKnown'
      BY <1>2, <2>1, <2>2 DEF DbInv, TablesAreKnown, InNew, InTried
    <2>4. ReservedAreKept'
      BY <1>1, <1>2, <2>1 DEF DbInv, ReservedAreKept
    <2>5. AbsentIsEmpty'
      BY <1>2, <2>1 DEF DbInv, AbsentIsEmpty
    <2>6. TablesAreSaved' /\ InOwnSlot(new, NewSlot)' /\ InOwnSlot(tried, TriedSlot)'
      BY <1>2 DEF DbInv, TablesAreSaved, InNew, InTried, InOwnSlot
    <2>7. DbTypeOK'
      BY <1>1, <1>2, <2>1 DEF DbTypeOK, Data
    <2> QED BY <2>3, <2>4, <2>5, <2>6, <2>7 DEF DbInv
  \* A change of the data of one address that leaves the tables.
  <1>3. ASSUME NEW a \in KnownAddrs, NEW d \in Data,
               d.state = "Absent" => d = Absent,
               a \in reserved => d.state \in {"Connected", "Disconnected"},
               addresses' = [addresses EXCEPT ![a] = d],
               new' = Without(new, a), tried' = Without(tried, a),
               saved' = [saved EXCEPT ![a] = "none"],
               reserved' = reserved, connected' \subseteq KnownAddrs, panicked' \in BOOLEAN,
               dropped' \subseteq KnownAddrs
        PROVE  DbInv'
    <2>1. /\ addresses' \in [KnownAddrs -> Data] /\ addresses'[a] = d
          /\ saved' \in [KnownAddrs -> {"New", "Tried", "none"}]
          /\ \A b \in KnownAddrs : b # a => addresses'[b] = addresses[b] /\ saved'[b] = saved[b]
      BY <1>1, <1>3
    <2>2. /\ new' \in [Slots -> KnownAddrs \cup {Nobody}] /\ InOwnSlot(new', NewSlot)
          /\ \A b \in KnownAddrs : InNew(b)' <=> b # a /\ InNew(b)
      BY <1>1, <1>3, WithoutOK DEF InNew
    <2>3. /\ tried' \in [Slots -> KnownAddrs \cup {Nobody}] /\ InOwnSlot(tried', TriedSlot)
          /\ \A b \in KnownAddrs : InTried(b)' <=> b # a /\ InTried(b)
      BY <1>1, <1>3, WithoutOK DEF InTried
    <2>4. TablesAreKnown' /\ TablesAreSaved'
      <3> SUFFICES ASSUME NEW b \in KnownAddrs
                   PROVE  /\ InNew(b)' \/ InTried(b)' => addresses'[b] # Absent
                          /\ ~(InNew(b)' /\ InTried(b)')
                          /\ InNew(b)' => NewIsKept(b)'
                          /\ InTried(b)' => saved'[b] = "Tried"
        BY DEF TablesAreKnown, TablesAreSaved, NewIsKept, InNew, InTried
      <3> QED BY <2>1, <2>2, <2>3 DEF DbInv, TablesAreKnown, TablesAreSaved, NewIsKept
    <2>5. ReservedAreKept'
      BY <1>1, <1>3, <2>1 DEF DbInv, ReservedAreKept
    <2>6. AbsentIsEmpty'
      BY <1>3, <2>1 DEF DbInv, AbsentIsEmpty
    <2>7. DbTypeOK'
      BY <1>1, <1>3, <2>1, <2>2, <2>3 DEF DbTypeOK, Data
    <2> QED BY <2>2, <2>3, <2>4, <2>5, <2>6, <2>7 DEF DbInv
  <1>4. ASSUME NEW a \in KnownAddrs, PeerDiscovered(a)
        PROVE  DbInv'
    <2> DEFINE there == new[NewSlot[a]]
    <2> DEFINE out == IF there = a THEN Nobody ELSE there
    <2> DEFINE data == Forgotten(addresses, out)
    <2> DEFINE storage == [saved EXCEPT ![a] = "New"]
    <2>1. /\ addresses[a] = Absent /\ tried' = Without(tried, a)
          /\ new' = With(new, NewSlot, a)
          /\ addresses' = [data EXCEPT ![a] = Known(FALSE)]
          /\ saved' = Unsaved(storage, out)
          /\ UNCHANGED <<reserved, connected, panicked, dropped>>
      BY <1>4 DEF PeerDiscovered, With
    <2>2. out \in KnownAddrs \cup {Nobody} /\ out # a
      BY <1>1
    <2>3. ~InNew(a) /\ ~InTried(a)
      BY <2>1 DEF DbInv, TablesAreKnown
    <2>4. out # Nobody => ~InTried(out)
      <3>1. out # Nobody => InNew(out) /\ out \in KnownAddrs
        BY <1>1 DEF InNew, InOwnSlot
      <3> QED BY <3>1 DEF DbInv, TablesAreKnown
    <2>5. /\ tried' \in [Slots -> KnownAddrs \cup {Nobody}] /\ InOwnSlot(tried', TriedSlot)
          /\ \A b \in KnownAddrs : InTried(b)' <=> b # a /\ InTried(b)
      BY <1>1, <2>1, WithoutOK DEF InTried
    <2>6. /\ new' \in [Slots -> KnownAddrs \cup {Nobody}] /\ InOwnSlot(new', NewSlot)
          /\ \A b \in KnownAddrs : InNew(b)' <=> b = a \/ (b # there /\ InNew(b))
      <3>1. TakesSlot(With(new, NewSlot, a), new, NewSlot, a)
        <4>1. /\ NewSlot \in [KnownAddrs -> Slots] /\ new \in [Slots -> KnownAddrs \cup {Nobody}]
              /\ InOwnSlot(new, NewSlot)
          BY <1>1
        <4> HIDE DEF there, out, data, storage
        <4> QED BY <4>1, WithOK
      <3> QED BY <2>1, <3>1 DEF InNew, TakesSlot
    <2>7. \A b \in KnownAddrs : InNew(b)' => b = a \/ (b # out /\ InNew(b))
      BY <1>1, <2>6
    <2> HIDE DEF out, there
    <2>8. storage \in [KnownAddrs -> {"New", "Tried", "none"}] /\ storage[a] = "New"
          /\ \A b \in KnownAddrs : b # a => storage[b] = saved[b]
      BY <1>1
    <2> HIDE DEF storage
    <2>9. /\ data \in [KnownAddrs -> Data] /\ saved' \in [KnownAddrs -> {"New", "Tried", "none"}]
          /\ \A b \in KnownAddrs :
               /\ b # out \/ b \in reserved => data[b] = addresses[b] /\ saved'[b] = storage[b]
               /\ data[b] \in {addresses[b], Absent}
      <3>1. saved' = Unsaved(storage, out)
        BY <2>1
      <3>2. addresses \in [KnownAddrs -> Data] /\ storage \in [KnownAddrs -> {"New", "Tried", "none"}]
            /\ out \in KnownAddrs \cup {Nobody}
        BY <1>1, <2>2, <2>8
      <3>3. /\ Forgotten(addresses, out) \in [KnownAddrs -> Data]
            /\ Unsaved(storage, out) \in [KnownAddrs -> {"New", "Tried", "none"}]
            /\ \A b \in KnownAddrs :
                 /\ b # out \/ b \in reserved =>
                      Forgotten(addresses, out)[b] = addresses[b] /\ Unsaved(storage, out)[b] = storage[b]
                 /\ Forgotten(addresses, out)[b] \in {addresses[b], Absent}
        BY <3>2, ForgottenOK
      <3> QED BY <3>1, <3>3
    <2> HIDE DEF data
    <2>10. /\ addresses' \in [KnownAddrs -> Data]
           /\ addresses'[a].state = "Disconnected" /\ addresses'[a] # Absent
           /\ \A b \in KnownAddrs : b # a => addresses'[b] = data[b]
      BY <2>1, <2>9, KnownData
    <2>11. TablesAreKnown' /\ TablesAreSaved'
      <3> SUFFICES ASSUME NEW b \in KnownAddrs
                   PROVE  /\ InNew(b)' \/ InTried(b)' => addresses'[b] # Absent
                          /\ ~(InNew(b)' /\ InTried(b)')
                          /\ InNew(b)' => NewIsKept(b)'
                          /\ InTried(b)' => saved'[b] = "Tried"
        BY DEF TablesAreKnown, TablesAreSaved, NewIsKept, InNew, InTried
      <3>1. CASE b = a
        BY <2>2, <2>5, <2>8, <2>9, <2>10, <3>1 DEF NewIsKept
      <3>2. CASE b # a
        BY <1>1, <2>4, <2>5, <2>7, <2>8, <2>9, <2>10, <3>2 DEF DbInv, TablesAreKnown, TablesAreSaved, NewIsKept
      <3> QED BY <3>1, <3>2
    <2>12. ReservedAreKept'
      BY <1>1, <2>1, <2>9, <2>10 DEF DbInv, ReservedAreKept
    <2>13. AbsentIsEmpty'
      BY <2>9, <2>10 DEF DbInv, AbsentIsEmpty
    <2>14. DbTypeOK'
      BY <1>1, <2>1, <2>5, <2>6, <2>9, <2>10 DEF DbTypeOK, Data
    <2> QED BY <2>5, <2>6, <2>11, <2>12, <2>13, <2>14 DEF DbInv
  <1>5. ASSUME NEW a \in KnownAddrs, OutboundPeerConnected(a)
        PROVE  DbInv'
    <2> DEFINE d == [Entry(a) EXCEPT !.state = "Connected"]
    <2>1. d \in Data /\ d.state = "Connected"
      BY EntryData DEF Data
    <2> HIDE DEF d
    <2> DEFINE data == [addresses EXCEPT ![a] = d]
    <2>2. /\ data \in [KnownAddrs -> Data] /\ data[a] = d
          /\ \A b \in KnownAddrs : b # a => data[b] = addresses[b]
      BY <1>1, <2>1
    <2>3. /\ MoveToTried(data, a) /\ reserved' = reserved
          /\ connected' \subseteq KnownAddrs /\ panicked' \in BOOLEAN
          /\ dropped' \subseteq KnownAddrs
      BY <1>1, <1>5 DEF OutboundPeerConnected, MoveToTried, d
    <2> HIDE DEF data
    <2> QED BY <2>1, <2>2, <2>3, MoveToTriedOK
  <1>6. ASSUME NEW a \in KnownAddrs, ReportOutboundFailure(a)
        PROVE  DbInv'
    <2> DEFINE e == Entry(a)
    <2> DEFINE d == ConnectionFailed(a)
    <2>1. /\ e \in Data /\ e.state # "Absent"
          /\ a \in reserved => e.state \in {"Connected", "Disconnected"}
      BY EntryData
    <2>2. /\ d \in Data /\ d.state # "Absent"
          /\ a \in reserved => d.state \in {"Connected", "Disconnected"}
      <3> HIDE DEF e
      <3>1. d = CASE e.state = "Unreachable" -> e
                  [] a \notin reserved /\ (~e.reachable \/ e.fails + 1 >= FailLimit) ->
                       [e EXCEPT !.state = "Unreachable"]
                  [] OTHER -> [e EXCEPT !.fails = IF @ < FailLimit THEN @ + 1 ELSE @]
        BY DEF ConnectionFailed, e
      <3> HIDE DEF d
      <3>2. d = e \/ (a \notin reserved /\ d = [e EXCEPT !.state = "Unreachable"])
              \/ d = [e EXCEPT !.fails = IF @ < FailLimit THEN @ + 1 ELSE @]
        BY <3>1
      <3> QED BY <2>1, <3>2, PeerDbAssumption DEF Data
    <2>3. /\ addresses' = [addresses EXCEPT ![a] = d] /\ panicked' \in BOOLEAN
          /\ UNCHANGED <<reserved, new, tried, saved, connected, dropped>>
      BY <1>6 DEF ReportOutboundFailure
    <2> HIDE DEF d
    <2> QED BY <1>1, <1>2, <2>2, <2>3
  <1>7. ASSUME NEW a \in KnownAddrs, NEW remove \in BOOLEAN, OutboundPeerDisconnected(a, remove)
        PROVE  DbInv'
    <2> DEFINE d == IF remove /\ a \notin reserved THEN Absent ELSE Known(TRUE)
    <2>1. /\ addresses' = [addresses EXCEPT ![a] = d] /\ panicked' \in BOOLEAN
          /\ connected' \subseteq KnownAddrs /\ reserved' = reserved /\ dropped' = dropped
      BY <1>1, <1>7 DEF OutboundPeerDisconnected
    <2>2. /\ d \in Data /\ (d.state = "Absent" => d = Absent)
          /\ a \in reserved \/ ~remove => d.state = "Disconnected"
      BY KnownData
    <2> HIDE DEF d
    <2>3. CASE remove
      <3>1. /\ new' = Without(new, a) /\ tried' = Without(tried, a)
            /\ saved' = [saved EXCEPT ![a] = "none"]
        BY <1>7, <2>3 DEF OutboundPeerDisconnected
      <3> QED BY <1>1, <1>3, <2>1, <2>2, <3>1
    <2>4. CASE ~remove
      BY <1>1, <1>2, <1>7, <2>1, <2>2, <2>4 DEF OutboundPeerDisconnected
    <2> QED BY <2>3, <2>4
  <1>8. ASSUME NEW a \in KnownAddrs, AddReservedNode(a)
        PROVE  DbInv'
    <2> DEFINE d == SetReserved(a)
    <2>1. d \in Data /\ d.state \in {"Connected", "Disconnected"}
      BY EntryData, KnownData DEF SetReserved, Data
    <2>2. /\ addresses' = [addresses EXCEPT ![a] = d] /\ reserved' = reserved \cup {a}
          /\ UNCHANGED <<new, tried, saved, connected, panicked, dropped>>
      BY <1>8 DEF AddReservedNode
    <2> HIDE DEF d
    <2> QED BY <1>1, <1>2, <2>1, <2>2
  <1>9. ASSUME NEW a \in KnownAddrs, RemoveReservedNode(a)
        PROVE  DbInv'
    <2>1. Entry(a) \in Data /\ Entry(a).state # "Absent"
      BY EntryData
    <2>2. /\ addresses' = [addresses EXCEPT ![a] = Entry(a)] /\ reserved' = reserved \ {a}
          /\ UNCHANGED <<new, tried, saved, connected, panicked, dropped>>
      BY <1>9 DEF RemoveReservedNode
    <2> QED BY <1>1, <1>2, <2>1, <2>2
  <1>10. ASSUME NEW a \in KnownAddrs, Heartbeat(a)
         PROVE  DbInv'
    <2>1. /\ addresses[a].state = "Unreachable" /\ addresses' = [addresses EXCEPT ![a] = Absent]
          /\ new' = Without(new, a) /\ tried' = Without(tried, a)
          /\ saved' = [saved EXCEPT ![a] = "none"]
          /\ UNCHANGED <<reserved, connected, panicked, dropped>>
      BY <1>10 DEF Heartbeat
    <2>2. a \notin reserved
      BY <2>1 DEF DbInv, ReservedAreKept
    <2> QED BY <1>1, <1>3, <2>1, <2>2, KnownData
  <1>11. CASE Restart
    <2>1. /\ new' \in [Slots -> KnownAddrs \cup {Nobody}] 
          /\ Loaded(new', NewSlot, SavedAs("New"), Boots)
          /\ tried' \in [Slots -> KnownAddrs \cup {Nobody}] 
          /\ Loaded(tried', TriedSlot, SavedAs("Tried"), {})
          /\ reserved' = ConfigReserved /\ connected' = {} /\ panicked' = FALSE /\ saved' = saved
          /\ dropped' = {}
      BY <1>11 DEF Restart
    <2>2. \A s \in Slots :
            /\ new'[s] # Nobody => /\ new'[s] \in SavedAs("New") \cup Boots
                                   /\ NewSlot[new'[s]] = s
            /\ tried'[s] # Nobody => /\ tried'[s] \in SavedAs("Tried")
                                     /\ TriedSlot[tried'[s]] = s
      BY <2>1 DEF Loaded
    <2>3. InOwnSlot(new', NewSlot) /\ InOwnSlot(tried', TriedSlot)
      BY <2>2 DEF InOwnSlot
    <2>4. \A b \in KnownAddrs :
            /\ InNew(b)' => b \in SavedAs("New") \cup Boots
            /\ InTried(b)' => b \in SavedAs("Tried")
      BY <1>1, <2>2 DEF InNew, InTried
    <2>11. \A b \in KnownAddrs :
             /\ b \in SavedAs("New") => saved[b] = "New"
             /\ b \in SavedAs("Tried") => saved[b] = "Tried"
             /\ b \in Boots => saved[b] = "none" /\ b \in BootNodes \ ConfigReserved
      BY DEF SavedAs, Boots
    <2>5. \A b \in KnownAddrs :
            /\ addresses'[b] \in {Known(TRUE), Known(FALSE), Absent}
            /\ saved[b] # "none" \/ b \in BootNodes \cup ConfigReserved =>
                 addresses'[b] \in {Known(TRUE), Known(FALSE)}
      <3>1. addresses' = [b \in KnownAddrs |-> StartData(b)]
        BY <1>11 DEF Restart
      <3>2. \A b \in KnownAddrs : (saved[b] = "Tried") \in BOOLEAN
        OBVIOUS
      <3> QED BY <3>1, <3>2 DEF Known, StartData
    <2>6. addresses' \in [KnownAddrs -> Data]
      <3>1. addresses' = [b \in KnownAddrs |-> addresses'[b]]
        BY <1>11 DEF Restart
      <3> QED BY <2>5, <3>1, KnownData
    <2>7. TablesAreKnown' /\ TablesAreSaved'
      <3> SUFFICES ASSUME NEW b \in KnownAddrs
                   PROVE  /\ InNew(b)' \/ InTried(b)' => addresses'[b] # Absent
                          /\ ~(InNew(b)' /\ InTried(b)')
                          /\ InNew(b)' => NewIsKept(b)'
                          /\ InTried(b)' => saved'[b] = "Tried"
        BY DEF TablesAreKnown, TablesAreSaved, NewIsKept, InNew, InTried
      <3> QED BY <2>1, <2>4, <2>5, <2>11, KnownData DEF NewIsKept
    <2>8. ReservedAreKept'
      BY <1>1, <2>1, <2>5, KnownData DEF ReservedAreKept
    <2>9. AbsentIsEmpty'
      BY <2>5, KnownData DEF AbsentIsEmpty
    <2>10. DbTypeOK'
      BY <1>1, <2>1, <2>6 DEF DbTypeOK, Data
    <2> QED BY <2>3, <2>7, <2>8, <2>9, <2>10 DEF DbInv
  <1>12. CASE UNCHANGED dbVars
    BY <1>12 DEF dbVars, DbInv, DbTypeOK, TablesAreKnown, ReservedAreKept, TablesAreSaved,
                 AbsentIsEmpty, InOwnSlot, InNew, InTried
  <1> QED
    BY <1>4, <1>5, <1>6, <1>7, <1>8, <1>9, <1>10, <1>11, <1>12 DEF DbNext

----------------------------------------------------------------------------
\* A change of the data of one address keeps what is known of the outbound peers
\* if it becomes connected together with the peer and otherwise only stops being so
\* together with the peer.
LEMMA ConnectedChange ==
  ASSUME DbInv, ConnectedAreKnown, NEW a \in KnownAddrs, NEW d \in Data,
         addresses' = [addresses EXCEPT ![a] = d],
         d.state = "Connected" => a \in connected',
         a \in connected' \ dropped' => d.state = "Connected",
         \A b \in KnownAddrs : b # a => (b \in connected' <=> b \in connected),
         connected' \subseteq KnownAddrs, dropped' = dropped,
         panicked' => dropped' # {}
  PROVE  ConnectedAreKnown'
  <1>1. /\ addresses'[a] = d
        /\ \A b \in KnownAddrs : b # a => addresses'[b] = addresses[b]
    BY DEF DbInv, TablesInv, DbTypeOK
  <1> QED BY <1>1 DEF ConnectedAreKnown

\* Every operation of the database keeps what is known of the outbound peers.
LEMMA ConnectedStep ==
  ASSUME DbInv, ConnectedAreKnown, [DbNext]_dbVars
  PROVE  ConnectedAreKnown'
  <1>1. /\ addresses \in [KnownAddrs -> Data] /\ reserved \subseteq KnownAddrs
        /\ connected \subseteq KnownAddrs /\ Reservable \subseteq KnownAddrs
        /\ new \in [Slots -> KnownAddrs \cup {Nobody}] /\ tried \in [Slots -> KnownAddrs \cup {Nobody}]
        /\ NewSlot \in [KnownAddrs -> Slots] /\ TriedSlot \in [KnownAddrs -> Slots]
        /\ Nobody \notin KnownAddrs
    BY PeerDbAssumption DEF DbInv, TablesInv, DbTypeOK, Data
  <1>2. \A a \in KnownAddrs :
          /\ Entry(a).state = "Connected" <=> addresses[a].state = "Connected"
          /\ Entry(a).state = "Connected" => a \in connected
          /\ a \in connected \ dropped => Entry(a).state = "Connected"
    BY KnownData DEF Entry, ConnectedAreKnown
  <1>3. ASSUME NEW a \in KnownAddrs, PeerDiscovered(a)
        PROVE  ConnectedAreKnown'
    <2> DEFINE out == IF new[NewSlot[a]] = a THEN Nobody ELSE new[NewSlot[a]]
    <2>1. /\ addresses[a] = Absent /\ UNCHANGED <<connected, panicked, dropped>>
          /\ out \in {Nobody} \cup reserved \cup {b \in KnownAddrs : addresses[b].state = "Unreachable"}
          /\ addresses' = [Forgotten(addresses, out) EXCEPT ![a] = Known(FALSE)]
      BY <1>3 DEF PeerDiscovered
    <2> HIDE DEF out
    <2>2. \A b \in KnownAddrs : b # a =>
            addresses'[b] = addresses[b] \/ (addresses[b].state = "Unreachable" /\ addresses'[b] = Absent)
      BY <1>1, <2>1 DEF Forgotten
    <2>3. addresses'[a] = Known(FALSE)
      BY <1>1, <2>1 DEF Forgotten
    <2>4. a \notin connected \ dropped
      BY <2>1, KnownData DEF ConnectedAreKnown
    <2> QED BY <1>1, <2>1, <2>2, <2>3, <2>4, KnownData DEF ConnectedAreKnown
  <1>4. ASSUME NEW a \in KnownAddrs, OutboundPeerConnected(a)
        PROVE  ConnectedAreKnown'
    <2> DEFINE d == [Entry(a) EXCEPT !.state = "Connected"]
               old == IF InTried(a) THEN Nobody ELSE tried[TriedSlot[a]]
               out == IF old = Nobody THEN Nobody ELSE Without(new, a)[NewSlot[old]]
    <2>1. d.state = "Connected"
      BY EntryData DEF Data
    <2> HIDE DEF d
    <2>2. /\ a \notin connected /\ connected' = connected \cup {a}
          /\ panicked' = (Entry(a).state = "Connected")
          /\ addresses' = Forgotten([addresses EXCEPT ![a] = d], out)
          /\ dropped' = dropped \cup ({out} \cap (connected \ reserved))
      BY <1>4 DEF OutboundPeerConnected, MoveToTried, d
    <2>3. out # a
      BY <1>1 DEF Without
    <2> HIDE DEF out
    <2>4. /\ addresses'[a] = d
          /\ \A b \in KnownAddrs : b # a =>
               \/ addresses'[b] = addresses[b]
               \/ addresses'[b] = Absent /\ b = out /\ b \notin reserved
      BY <1>1, <2>2, <2>3 DEF Forgotten
    <2>5. ~panicked'
      BY <1>2, <2>2
    <2> QED BY <1>1, <2>1, <2>2, <2>4, <2>5, KnownData DEF ConnectedAreKnown
  <1>5. ASSUME NEW a \in KnownAddrs, ReportOutboundFailure(a)
        PROVE  ConnectedAreKnown'
    <2> DEFINE e == Entry(a)
    <2> DEFINE d == ConnectionFailed(a)
    <2>1. e \in Data /\ e.state # "Connected" /\ a \notin connected
      BY <1>2, <1>5, EntryData DEF ReportOutboundFailure
    <2>2. d \in Data /\ d.state # "Connected"
      <3> HIDE DEF e
      <3>1. d = CASE e.state = "Unreachable" -> e
                  [] a \notin reserved /\ (~e.reachable \/ e.fails + 1 >= FailLimit) ->
                       [e EXCEPT !.state = "Unreachable"]
                  [] OTHER -> [e EXCEPT !.fails = IF @ < FailLimit THEN @ + 1 ELSE @]
        BY DEF ConnectionFailed, e
      <3> HIDE DEF d
      <3>2. d = e \/ d = [e EXCEPT !.state = "Unreachable"]
              \/ d = [e EXCEPT !.fails = IF @ < FailLimit THEN @ + 1 ELSE @]
        BY <3>1
      <3> QED BY <2>1, <3>2, PeerDbAssumption DEF Data
    <2>3. /\ addresses' = [addresses EXCEPT ![a] = d] /\ UNCHANGED <<connected, dropped>>
          /\ panicked' = (e.state = "Connected")
      BY <1>5 DEF ReportOutboundFailure
    <2> HIDE DEF d, e
    <2> QED BY <1>1, <2>1, <2>2, <2>3, ConnectedChange
  <1>6. ASSUME NEW a \in KnownAddrs, NEW remove \in BOOLEAN, OutboundPeerDisconnected(a, remove)
        PROVE  ConnectedAreKnown'
    <2> DEFINE d == IF remove /\ a \notin reserved THEN Absent ELSE Known(TRUE)
    <2>1. /\ addresses' = [addresses EXCEPT ![a] = d] /\ a \in connected
          /\ connected' = connected \ {a} /\ dropped' = dropped
          /\ panicked' = (Entry(a).state # "Connected")
      BY <1>6 DEF OutboundPeerDisconnected
    <2>2. d \in Data /\ d.state # "Connected"
      BY KnownData
    <2> HIDE DEF d
    <2>3. panicked' => a \in dropped
      BY <1>2, <2>1
    <2> QED BY <1>1, <2>1, <2>2, <2>3, ConnectedChange
  <1>7. ASSUME NEW a \in KnownAddrs, NEW d \in Data, addresses' = [addresses EXCEPT ![a] = d],
               d.state = "Connected" <=> Entry(a).state = "Connected",
               UNCHANGED <<connected, panicked, dropped>>
        PROVE  ConnectedAreKnown'
    <2>1. panicked' => dropped' # {}
      BY <1>7 DEF ConnectedAreKnown
    <2> QED BY <1>1, <1>2, <1>7, <2>1, ConnectedChange
  <1>8. ASSUME NEW a \in KnownAddrs, AddReservedNode(a)
        PROVE  ConnectedAreKnown'
    <2>1. SetReserved(a) \in Data /\ (SetReserved(a).state = "Connected" <=> Entry(a).state = "Connected")
      BY EntryData, KnownData DEF SetReserved
    <2> QED BY <1>7, <1>8, <2>1 DEF AddReservedNode
  <1>9. ASSUME NEW a \in KnownAddrs, RemoveReservedNode(a)
        PROVE  ConnectedAreKnown'
    <2>1. Entry(a) \in Data
      BY EntryData
    <2> QED BY <1>7, <1>9, <2>1 DEF RemoveReservedNode
  <1>10. ASSUME NEW a \in KnownAddrs, Heartbeat(a)
         PROVE  ConnectedAreKnown'
    <2>1. /\ Entry(a).state # "Connected" /\ addresses' = [addresses EXCEPT ![a] = Absent]
          /\ UNCHANGED <<connected, panicked, dropped>>
      BY <1>2, <1>10 DEF Heartbeat
    <2> QED BY <1>7, <2>1, KnownData
  <1>11. CASE Restart
    <2>1. /\ addresses' = [b \in KnownAddrs |-> StartData(b)]
          /\ connected' = {} /\ panicked' = FALSE
      BY <1>11 DEF Restart
    <2>2. \A b \in KnownAddrs : StartData(b).state # "Connected"
      <3>1. \A b \in KnownAddrs : StartData(b) \in {Known(TRUE), Known(FALSE), Absent}
        <4>1. \A b \in KnownAddrs : (saved[b] = "Tried") \in BOOLEAN
          OBVIOUS
        <4> QED BY <4>1 DEF Known, StartData
      <3> QED BY <3>1, KnownData
    <2> QED BY <2>1, <2>2 DEF ConnectedAreKnown
  <1>12. CASE UNCHANGED dbVars
    BY <1>12 DEF dbVars, ConnectedAreKnown
  <1> QED
    BY <1>3, <1>4, <1>5, <1>6, <1>8, <1>9, <1>10, <1>11, <1>12 DEF DbNext

\* An address in a table is known, saved for that table or a boot node, and in no
\* other one; reserved nodes are never given up; and an outbound peer's address is
\* known to be connected unless another connection pushed it out of the tables,
\* whatever the database is told and whenever the node is restarted: "not found in
\* self.addresses" does not happen, and "unreachable!()" only then.
THEOREM AddressesSound == DbSpec => []AddressesInv
  <1>1. DbInit => DbInv /\ ConnectedAreKnown
    <2> SUFFICES ASSUME DbInit PROVE DbInv /\ ConnectedAreKnown
      OBVIOUS
    <2>1. /\ \A s \in Slots : tried[s] = Nobody
          /\ new \in [Slots -> KnownAddrs \cup {Nobody}]
          /\ \A s \in Slots : new[s] # Nobody => new[s] \in Boots /\ NewSlot[new[s]] = s
          /\ NewSlot \in [KnownAddrs -> Slots] /\ TriedSlot \in [KnownAddrs -> Slots]
          /\ Nobody \notin KnownAddrs /\ ConfigReserved \subseteq KnownAddrs
      BY PeerDbAssumption DEF DbInit, Loaded
    <2>2. \A a \in KnownAddrs : (InNew(a) => a \in Boots) /\ ~InTried(a)
      BY <2>1 DEF InNew, InTried
    <2>3. \A a \in KnownAddrs :
            /\ saved[a] = "none"
            /\ addresses[a] = IF a \in BootNodes \cup ConfigReserved THEN Known(FALSE) ELSE Absent
      BY DEF DbInit, StartData
    <2>8. addresses \in [KnownAddrs -> Data]
      <3>1. addresses = [a \in KnownAddrs |-> addresses[a]]
        BY DEF DbInit
      <3> QED BY <2>3, <3>1, KnownData
    <2>4. DbTypeOK
      BY <2>1, <2>8 DEF DbInit, DbTypeOK, Data
    <2>5. TablesAreKnown /\ TablesAreSaved
      BY <2>2, <2>3, KnownData DEF TablesAreKnown, TablesAreSaved, Boots
    <2>6. ReservedAreKept /\ AbsentIsEmpty
      BY <2>1, <2>3, KnownData DEF DbInit, ReservedAreKept, AbsentIsEmpty
    <2>7. InOwnSlot(new, NewSlot) /\ InOwnSlot(tried, TriedSlot)
      BY <2>1 DEF InOwnSlot
    <2>9. ConnectedAreKnown
      BY <2>3, KnownData DEF DbInit, ConnectedAreKnown
    <2> QED BY <2>4, <2>5, <2>6, <2>7, <2>9 DEF DbInv, TablesInv
  <1>2. DbInv /\ ConnectedAreKnown /\ [DbNext]_dbVars => DbInv' /\ ConnectedAreKnown'
    BY DbStep, ConnectedStep
  <1>3. DbInv /\ ConnectedAreKnown => AddressesInv
    BY DEF DbInv, TablesInv, AddressesInv
  <1> QED BY <1>1, <1>2, <1>3, PTL DEF DbSpec

----------------------------------------------------------------------------
(* The connections of the node. *)

\* x is in s, in one place only, and all of x before all of y.
In(s, x) == \E i \in DOMAIN s : s[i] = x
Once(s, x) == \A i, j \in DOMAIN s : s[i] = x /\ s[j] = x => i = j
Before(s, x, y) == \A i, j \in DOMAIN s : s[i] = x /\ s[j] = y => i < j

\* An event or a command that is on its way.
Event(kind, id) == In(events, <<kind, id>>)
Command(kind, arg) == In(cmds, <<kind, arg>>)

\* The types of the state.
EventType == {"Accepted", "Closed", "Error", "Misbehaved", "BadHandshake"} \X Ids
CommandType ==
  ({"Connect"} \X Conns) \cup ({"Accept", "Disconnect"} \X Ids) \cup ({"Networking"} \X BOOLEAN)
Pending == {"none", "Outbound", "Feeler"}
Roles == {"none", "Inbound", "Outbound", "Feeler"}
Contexts == {"none", "dialing", "pending", "peer", "accepted", "gone"}
Phases == {"none", "refused", "hello", "sync", "ack", "run", "open", "done"}
ManagerType ==
  [networking : BOOLEAN, pending : [Addrs -> Pending], peers : [Ids -> Roles],
   leaving : SUBSET Ids, banned : SUBSET Addrs, discouraged : SUBSET Addrs,
   reserved : SUBSET Addrs]
BackendType == [networking : BOOLEAN, peers : [Ids -> Contexts]]
Inbox == Seq({"Disconnect", "Accepted", "Dropped"})
Outbox == Seq({"Info", "Sync", "Misbehaved", "BadHandshake", "Closed"})
TaskType == [phase : Phases, greeted : BOOLEAN, inbox : Inbox, outbox : Outbox]

\* Type correctness.
Shape ==
  /\ pm \in ManagerType /\ be \in BackendType
  /\ cmds \in Seq(CommandType) /\ events \in Seq(EventType)
  /\ task \in [Ids -> TaskType]
  /\ address \in [Conns -> Addrs \cup {NoAddr}]
  /\ ops \in Nat /\ scenario \in Scenarios /\ failed = FALSE
  /\ pm.leaving \subseteq Connected(pm)

\* An end of a connection that was not made yet.
New(id) ==
  AddrOf(id) = NoAddr =>
    /\ be.peers[id] = "none" /\ pm.peers[id] = "none" /\ task[id].phase = "none"
    /\ ~Command("Connect", id[1])
    /\ \A kind \in {"Misbehaved", "BadHandshake"} : ~Event(kind, id)

\* A peer that is told to leave.
Told(id) ==
  Command("Disconnect", id) \/ In(task[id].inbox, "Disconnect") \/ task[id].phase = "done"

\* What the peer manager, the backend and the task know of one end of a connection.
Life(id) ==
  /\ Event("Accepted", id) => /\ be.peers[id] \in {"peer", "gone"} /\ pm.peers[id] = "none"
                              /\ ~Command("Accept", id) /\ ~Event("Error", id)
  /\ Command("Accept", id) => be.peers[id] \in {"peer", "gone"}
  /\ Event("Closed", id) => be.peers[id] = "gone" /\ ~Event("Error", id)
  /\ Event("Error", id) => be.peers[id] = "gone" /\ id[2] = "out" /\ pm.peers[id] = "none"
  /\ pm.peers[id] # "none" => \/ be.peers[id] \in {"peer", "accepted"}
                              \/ be.peers[id] = "gone" /\ Event("Closed", id)
  /\ be.peers[id] = "gone" /\ Event("Accepted", id) => Event("Closed", id)
  /\ be.peers[id] \in {"peer", "accepted"} =>
        pm.peers[id] # "none" \/ Event("Accepted", id) \/ Told(id)
  /\ be.peers[id] \in {"none", "dialing"} => task[id].phase \in {"none", "refused"}
  /\ task[id].phase \in {"none", "refused"} => ~task[id].greeted
  /\ task[id].phase \in {"none", "refused", "hello"} => task[id].outbox = <<>>
  /\ id[2] = "in" /\ task[id].phase = "none" => be.peers[id] = "none"
  /\ be.peers[id] = "dialing" => id[2] = "out"
  /\ id[2] = "out" /\ Command("Connect", id[1]) => be.peers[id] = "none"
  /\ pm.peers[id] = "Inbound" => id[2] = "in"
  /\ In(task[id].outbox, "Closed") => task[id].phase = "done"

\* Nothing is reported or commanded twice.
EventsOnce ==
  \A id \in Ids : /\ Once(events, <<"Accepted", id>>) /\ Once(events, <<"Closed", id>>)
                  /\ Once(events, <<"Error", id>>)
                  /\ Before(events, <<"Accepted", id>>, <<"Closed", id>>)
CommandsOnce ==
  /\ \A id \in Ids : Once(cmds, <<"Accept", id>>)
  /\ \A c \in Conns : Once(cmds, <<"Connect", c>>)

\* A connection whose outcome the peer manager has not heard of.
Attempt(id) ==
  /\ id[2] = "out"
  /\ \/ Command("Connect", id[1]) \/ be.peers[id] \in {"dialing", "pending"}
     \/ Event("Error", id) \/ Event("Accepted", id)

\* There is one attempt, or one outbound peer, at an address; besides there may be a
\* feeler, if the address was forgotten.
Attempts ==
  /\ \A id \in Ids : Attempt(id) => pm.pending[AddrOf(id)] # "none"
  /\ \A i, j \in Ids : Attempt(i) /\ Attempt(j) /\ AddrOf(i) = AddrOf(j) => i = j
OutboundOnce ==
  /\ "forgotten" \notin Ops =>
       /\ \A i \in Connected(pm) : i[2] = "out" => pm.pending[AddrOf(i)] = "none"
       /\ \A i, j \in Connected(pm) : i[2] = "out" /\ j[2] = "out" /\ AddrOf(i) = AddrOf(j) => i = j
  /\ \A i, j \in Connected(pm) :
       i[2] = "out" /\ j[2] = "out" /\ pm.peers[i] = "Outbound" /\ pm.peers[j] = "Outbound"
       /\ AddrOf(i) = AddrOf(j) => i = j

\* Networking was never switched off.
NeverOff == /\ be.networking
            /\ \A b \in BOOLEAN : ~Command("Networking", b)

\* A connection of the node with itself ends at the latest when its inbound end has
\* received the nonce, before the outbound end is done with its handshake.
OwnEnds(o, i) ==
  /\ be.peers[o] \notin {"peer", "accepted"} /\ be.peers[i] \notin {"peer", "accepted"}
  /\ pm.peers[o] = "none" /\ pm.peers[i] = "none"
  /\ ~Event("Accepted", o) /\ ~Event("Accepted", i)
  /\ be.peers[o] = "pending" =>
       /\ task[o].phase = "hello" /\ task[o].outbox = <<>> /\ task[o].greeted
       /\ task[i].phase \in {"none", "hello", "sync"} /\ ~task[i].greeted
       /\ task[i].phase = "sync" => task[i].outbox = <<"Info", "Sync">>
       /\ be.peers[i] # "gone"
  /\ ~task[o].greeted => /\ task[i].phase \in {"none", "hello", "done"}
                         /\ ~task[i].greeted
                         /\ ~In(task[i].outbox, "Info")
                         /\ be.peers[i] = "gone" => task[i].phase = "done"
                         /\ be.peers[o] # "gone" => task[i].phase # "done"
                         /\ be.peers[o] = "gone" <=> task[o].phase = "refused"
                         /\ task[o].phase \in {"none", "refused"}
  /\ task[o].greeted /\ be.peers[o] # "pending" => be.peers[i] = "gone" /\ be.peers[o] = "gone"

\* What NoSelfConnection assumes.
Quiet == scenario.prompt /\ "network" \notin Ops
\* What is known of connections of the node with itself.
Own ==
  /\ "network" \notin Ops => NeverOff
  /\ Quiet => \A c \in Conns : address[c] = Self => OwnEnds(<<c, "out">>, <<c, "in">>)

\* The inductive invariant.
ConnInv ==
  /\ Shape
  /\ \A id \in Ids : New(id)
  /\ \A id \in Ids : Life(id)
  /\ EventsOnce /\ CommandsOnce /\ Attempts /\ OutboundOnce
  /\ BannedLeave /\ InboundLimited /\ Own

----------------------------------------------------------------------------
(* Sequences. *)

\* What is in a longer sequence.
LEMMA InAppend ==
  ASSUME NEW S, NEW s \in Seq(S), NEW x \in S, NEW y
  PROVE  In(Append(s, x), y) <=> In(s, y) \/ y = x
  <1>1. /\ DOMAIN Append(s, x) = 1 .. Len(s) + 1 /\ DOMAIN s = 1 .. Len(s) /\ Len(s) \in Nat
        /\ \A i \in 1 .. Len(s) : Append(s, x)[i] = s[i]
        /\ Append(s, x)[Len(s) + 1] = x
    OBVIOUS
  <1> QED BY <1>1 DEF In

\* What is in two sequences, one after the other.
LEMMA InConcat ==
  ASSUME NEW S, NEW s \in Seq(S), NEW t \in Seq(S), NEW y
  PROVE  In(s \o t, y) <=> In(s, y) \/ In(t, y)
  <1> DEFINE c == s \o t
  <1>1. /\ DOMAIN c = 1 .. Len(s) + Len(t) /\ DOMAIN s = 1 .. Len(s) /\ DOMAIN t = 1 .. Len(t)
        /\ Len(s) \in Nat /\ Len(t) \in Nat
        /\ \A i \in 1 .. Len(s) : c[i] = s[i]
        /\ \A i \in 1 .. Len(t) : c[Len(s) + i] = t[i]
    OBVIOUS
  <1>2. \A i \in 1 .. Len(s) + Len(t) : i \in 1 .. Len(s) \/ (i - Len(s) \in 1 .. Len(t) /\ i = Len(s) + (i - Len(s)))
    BY <1>1
  <1>3. \A i \in 1 .. Len(s) : i \in 1 .. Len(s) + Len(t)
    BY <1>1
  <1>4. \A i \in 1 .. Len(t) : Len(s) + i \in 1 .. Len(s) + Len(t)
    BY <1>1
  <1> HIDE DEF c
  <1>5. In(c, y) => In(s, y) \/ In(t, y)
    <2> SUFFICES ASSUME NEW k \in 1 .. Len(s) + Len(t), c[k] = y PROVE In(s, y) \/ In(t, y)
      BY <1>1 DEF In
    <2>1. CASE k \in 1 .. Len(s)
      BY <2>1, <1>1 DEF In
    <2>2. CASE k - Len(s) \in 1 .. Len(t) /\ k = Len(s) + (k - Len(s))
      BY <2>2, <1>1 DEF In
    <2> QED BY <2>1, <2>2, <1>2
  <1>6. In(s, y) => In(c, y)
    BY <1>1, <1>3 DEF In
  <1>7. In(t, y) => In(c, y)
    <2> SUFFICES ASSUME NEW k \in 1 .. Len(t), t[k] = y PROVE In(c, y)
      BY <1>1 DEF In
    <2> QED BY <1>1, <1>4 DEF In
  <1> QED BY <1>5, <1>6, <1>7 DEF c

\* What is in a short sequence.
LEMMA InShort ==
  ASSUME NEW x, NEW y
  PROVE  /\ In(<<x>>, y) <=> y = x
         /\ ~In(<<>>, y)
         /\ Once(<<x>>, y) /\ Once(<<>>, y)
  <1>1. DOMAIN <<x>> = {1} /\ <<x>>[1] = x /\ DOMAIN <<>> = {}
    OBVIOUS
  <1> QED BY <1>1 DEF In, Once

\* What is in the rest of a sequence.
LEMMA InTail ==
  ASSUME NEW S, NEW s \in Seq(S), s # <<>>, NEW y
  PROVE  /\ In(s, y) <=> y = Head(s) \/ In(Tail(s), y)
         /\ Head(s) \in S /\ Tail(s) \in Seq(S)
  <1>1. /\ DOMAIN s = 1 .. Len(s) /\ Len(s) \in Nat \ {0}
        /\ Head(s) = s[1] /\ DOMAIN Tail(s) = 1 .. Len(s) - 1
        /\ \A i \in 1 .. Len(s) - 1 : Tail(s)[i] = s[i + 1]
        /\ Head(s) \in S /\ Tail(s) \in Seq(S)
    OBVIOUS
  <1>2. \A i \in 1 .. Len(s) : i = 1 \/ (i - 1 \in 1 .. Len(s) - 1 /\ Tail(s)[i - 1] = s[i])
    BY <1>1
  <1>3. In(s, y) => y = Head(s) \/ In(Tail(s), y)
    BY <1>1, <1>2 DEF In
  <1>4. y = Head(s) => In(s, y)
    BY <1>1 DEF In
  <1>5. In(Tail(s), y) => In(s, y)
    <2> SUFFICES ASSUME NEW i \in 1 .. Len(s) - 1, Tail(s)[i] = y PROVE In(s, y)
      BY <1>1 DEF In
    <2>1. i + 1 \in 1 .. Len(s)
      BY <1>1
    <2> QED BY <2>1, <1>1 DEF In
  <1> QED BY <1>1, <1>3, <1>4, <1>5

\* What was once in a sequence is once in what it becomes.
LEMMA OnceAppend ==
  ASSUME NEW S, NEW s \in Seq(S), NEW x \in S, NEW y, Once(s, y), y = x => ~In(s, y)
  PROVE  Once(Append(s, x), y)
  <1>1. /\ DOMAIN Append(s, x) = 1 .. Len(s) + 1 /\ DOMAIN s = 1 .. Len(s) /\ Len(s) \in Nat
        /\ \A i \in 1 .. Len(s) : Append(s, x)[i] = s[i]
        /\ Append(s, x)[Len(s) + 1] = x
    OBVIOUS
  <1> QED BY <1>1 DEF In, Once

\* What was once in a sequence is at most once in its rest.
LEMMA OnceTail ==
  ASSUME NEW S, NEW s \in Seq(S), s # <<>>, NEW y, Once(s, y)
  PROVE  Once(Tail(s), y) /\ (Head(s) = y => ~In(Tail(s), y))
  <1>1. /\ DOMAIN s = 1 .. Len(s) /\ Len(s) \in Nat \ {0}
        /\ Head(s) = s[1] /\ DOMAIN Tail(s) = 1 .. Len(s) - 1
        /\ \A i \in 1 .. Len(s) - 1 : Tail(s)[i] = s[i + 1]
    OBVIOUS
  <1>2. \A i \in 1 .. Len(s) - 1 : i + 1 \in 1 .. Len(s) /\ i + 1 # 1
    BY <1>1
  <1>3. \A i, j \in 1 .. Len(s) - 1 : i + 1 = j + 1 => i = j
    BY <1>1
  <1>4. 1 \in 1 .. Len(s)
    BY <1>1
  <1>5. Once(Tail(s), y)
    BY <1>1, <1>2, <1>3 DEF Once
  <1>6. Head(s) = y => ~In(Tail(s), y)
    BY <1>1, <1>2, <1>4 DEF Once, In
  <1> QED BY <1>5, <1>6

\* What came first comes first.
LEMMA BeforeAppend ==
  ASSUME NEW S, NEW s \in Seq(S), NEW z \in S, NEW x, NEW y, x # y, Before(s, x, y),
         z = x => ~In(s, y)
  PROVE  Before(Append(s, z), x, y)
  <1>1. /\ DOMAIN Append(s, z) = 1 .. Len(s) + 1 /\ DOMAIN s = 1 .. Len(s) /\ Len(s) \in Nat
        /\ \A i \in 1 .. Len(s) : Append(s, z)[i] = s[i]
        /\ Append(s, z)[Len(s) + 1] = z
    OBVIOUS
  <1> QED BY <1>1 DEF In, Before

\* The rest of a sequence keeps the order, and what comes last has nothing after it.
LEMMA BeforeTail ==
  ASSUME NEW S, NEW s \in Seq(S), s # <<>>, NEW x, NEW y, x # y, Before(s, x, y)
  PROVE  Before(Tail(s), x, y) /\ (Head(s) = y => ~In(s, x))
  <1>1. /\ DOMAIN s = 1 .. Len(s) /\ Len(s) \in Nat \ {0}
        /\ Head(s) = s[1] /\ DOMAIN Tail(s) = 1 .. Len(s) - 1
        /\ \A i \in 1 .. Len(s) - 1 : Tail(s)[i] = s[i + 1]
    OBVIOUS
  <1>2. \A i \in 1 .. Len(s) - 1 : i + 1 \in 1 .. Len(s)
    BY <1>1
  <1>3. \A i, j \in 1 .. Len(s) - 1 : i + 1 < j + 1 => i < j
    BY <1>1
  <1>4. 1 \in 1 .. Len(s) /\ \A i \in 1 .. Len(s) : ~(i < 1)
    BY <1>1
  <1>5. Before(Tail(s), x, y)
    BY <1>1, <1>2, <1>3 DEF Before
  <1>6. Head(s) = y => ~In(s, x)
    BY <1>1, <1>4 DEF Before, In
  <1> QED BY <1>5, <1>6

\* What is in one of two sequences only, and once, is once in both together.
LEMMA OnceConcat ==
  ASSUME NEW S, NEW s \in Seq(S), NEW t \in Seq(S), NEW y, Once(s, y), Once(t, y),
         ~(In(s, y) /\ In(t, y))
  PROVE  Once(s \o t, y)
  <1> DEFINE c == s \o t
  <1>1. /\ DOMAIN c = 1 .. Len(s) + Len(t) /\ DOMAIN s = 1 .. Len(s) /\ DOMAIN t = 1 .. Len(t)
        /\ Len(s) \in Nat /\ Len(t) \in Nat
        /\ \A i \in 1 .. Len(s) : c[i] = s[i]
        /\ \A i \in 1 .. Len(s) + Len(t) : i \notin 1 .. Len(s) =>
             i - Len(s) \in 1 .. Len(t) /\ c[i] = t[i - Len(s)]
    OBVIOUS
  <1> SUFFICES ASSUME NEW i \in 1 .. Len(s) + Len(t), NEW j \in 1 .. Len(s) + Len(t),
                      c[i] = y, c[j] = y
               PROVE  i = j
    BY <1>1 DEF Once
  <1>2. CASE i \in 1 .. Len(s) /\ j \in 1 .. Len(s)
    BY <1>2, <1>1 DEF Once
  <1>3. CASE i \notin 1 .. Len(s) /\ j \notin 1 .. Len(s)
    <2>1. i - Len(s) = j - Len(s)
      BY <1>3, <1>1 DEF Once
    <2> QED BY <2>1, <1>1
  <1>4. CASE i \in 1 .. Len(s) /\ j \notin 1 .. Len(s)
    BY <1>4, <1>1 DEF In
  <1>5. CASE i \notin 1 .. Len(s) /\ j \in 1 .. Len(s)
    BY <1>5, <1>1 DEF In
  <1> QED BY <1>2, <1>3, <1>4, <1>5

\* A finite set as a sequence.
LEMMA InSetToSeq ==
  ASSUME NEW S, IsFiniteSet(S), NEW y
  PROVE  /\ SetToSeq(S) \in Seq(S)
         /\ In(SetToSeq(S), y) <=> y \in S
  <1> DEFINE n == Cardinality(S)
  <1>1. n \in Nat /\ ExistsBijection(1 .. n, S)
    BY FS_CardinalityType
  <1>2. \E f \in [1 .. n -> S] : IsInjective(f)
    BY <1>1 DEF ExistsBijection, Bijection, Injection
  <1> DEFINE q == SetToSeq(S)
  <1>3. q \in [1 .. n -> S] /\ IsInjective(q)
    BY <1>2 DEF SetToSeq
  <1>4. q \in Injection(1 .. n, S)
    BY <1>3 DEF Injection
  <1>5. Cardinality(1 .. n) = n
    BY <1>1, FS_Interval
  <1> HIDE DEF q, n
  <1>6. q \in Surjection(1 .. n, S)
    BY <1>1, <1>4, <1>5, FS_Injection DEF n
  <1>7. q \in Seq(S) /\ DOMAIN q = 1 .. n
    BY <1>1, <1>3
  <1>8. In(q, y) <=> y \in S
    BY <1>3, <1>6, <1>7 DEF In, Surjection
  <1> QED BY <1>7, <1>8 DEF q

\* There are finitely many ends of connections.
LEMMA IdsAreFinite == IsFiniteSet(Ids)
  <1> DEFINE f == [n \in 1 .. 2 * MaxConns |->
                     IF n <= MaxConns THEN <<n, "out">> ELSE <<n - MaxConns, "in">>]
  <1>1. MaxConns \in Nat
    BY ConnectionsAssumption
  <1>2. f \in [1 .. 2 * MaxConns -> Ids]
    BY <1>1 DEF Ids, Conns
  <1>3. ASSUME NEW id \in Ids PROVE \E n \in 1 .. 2 * MaxConns : f[n] = id
    <2>1. PICK c \in Conns : id = <<c, "out">> \/ id = <<c, "in">>
      BY DEF Ids
    <2>2. CASE id = <<c, "out">>
      BY <2>1, <2>2, <1>1 DEF Conns
    <2>3. CASE id = <<c, "in">>
      <3>1. c + MaxConns \in 1 .. 2 * MaxConns /\ ~(c + MaxConns <= MaxConns) /\ c + MaxConns - MaxConns = c
        BY <1>1 DEF Conns
      <3>2. f[c + MaxConns] = <<c + MaxConns - MaxConns, "in">>
        BY <3>1, <1>1 DEF Conns
      <3> QED BY <3>1, <3>2, <2>3
    <2> QED BY <2>1, <2>2, <2>3
  <1>4. f \in Surjection(1 .. 2 * MaxConns, Ids)
    BY <1>2, <1>3 DEF Surjection
  <1>5. IsFiniteSet(1 .. 2 * MaxConns)
    BY <1>1, FS_Interval
  <1> QED BY <1>4, <1>5, FS_Surjection

\* The commands to disconnect some peers.
LEMMA Quits ==
  ASSUME NEW V \in SUBSET Ids, NEW kind, NEW arg
  PROVE  LET q == SetToSeq({<<"Disconnect", v>> : v \in V})
         IN /\ q \in Seq(CommandType)
            /\ In(q, <<kind, arg>>) <=> kind = "Disconnect" /\ arg \in V
            /\ kind # "Disconnect" => Once(q, <<kind, arg>>)
  <1> DEFINE T == {<<"Disconnect", v>> : v \in V}
             f == [v \in V |-> <<"Disconnect", v>>]
  <1>1. IsFiniteSet(V)
    BY IdsAreFinite, FS_Subset
  <1>2. f \in Surjection(V, T)
    BY DEF Surjection
  <1>3. IsFiniteSet(T)
    BY <1>1, <1>2, FS_Surjection
  <1>4. T \subseteq CommandType
    BY DEF CommandType
  <1>5. <<kind, arg>> \in T <=> kind = "Disconnect" /\ arg \in V
    OBVIOUS
  <1> HIDE DEF T
  <1>6. SetToSeq(T) \in Seq(T) /\ (In(SetToSeq(T), <<kind, arg>>) <=> <<kind, arg>> \in T)
    BY <1>3, InSetToSeq
  <1>7. SetToSeq(T) \in Seq(CommandType)
    BY <1>6, <1>4
  <1>8. ~In(SetToSeq(T), <<kind, arg>>) => Once(SetToSeq(T), <<kind, arg>>)
    BY DEF In, Once
  <1> QED BY <1>5, <1>6, <1>7, <1>8 DEF T

----------------------------------------------------------------------------
(* The ends of a connection. *)

\* The ends of a connection, by its number.
LEMMA Ends ==
  /\ \A c \in Conns : <<c, "out">> \in Ids /\ <<c, "in">> \in Ids
  /\ \A id \in Ids : /\ id[1] \in Conns /\ id[2] \in {"out", "in"} /\ id = <<id[1], id[2]>>
                     /\ Other(id) \in Ids
                     /\ id[2] = "in" => Other(id) = <<id[1], "out">> /\ id = <<id[1], "in">>
                     /\ id[2] = "out" => Other(id) = <<id[1], "in">> /\ id = <<id[1], "out">>
  BY DEF Ids, Other

\* The parts of a well-typed state.
LEMMA Parts ==
  ASSUME Shape
  PROVE  /\ pm.networking \in BOOLEAN /\ be.networking \in BOOLEAN
         /\ pm.pending \in [Addrs -> Pending] /\ pm.peers \in [Ids -> Roles]
         /\ pm.leaving \in SUBSET Ids /\ pm.banned \in SUBSET Addrs
         /\ be.peers \in [Ids -> Contexts]
         /\ \A id \in Ids : /\ task[id].phase \in Phases /\ task[id].greeted \in BOOLEAN
                            /\ task[id].inbox \in Inbox /\ task[id].outbox \in Outbox
  BY DEF Shape, ManagerType, BackendType, TaskType

\* A task that has begun its handshake goes on: unless it is done, it keeps what it is told.
GoesOn(id, now) ==
  /\ now \in TaskType
  /\ task[id].phase \in {"hello", "sync", "ack", "run", "open"}
  /\ now.phase \in {"sync", "run", "open", "done"}
  /\ In(task[id].inbox, "Disconnect") => In(now.inbox, "Disconnect") \/ now.phase = "done"
  /\ In(now.outbox, "Closed") => In(task[id].outbox, "Closed") \/ now.phase = "done"

\* A step of a task that goes on keeps everything but what connections of the node to itself need.
LEMMA TaskGoesOn ==
  ASSUME ConnInv, NEW id \in Ids, NEW now, TaskStep(id, now), GoesOn(id, now),
         ops' \in Nat, UNCHANGED scenario,
         Quiet /\ AddrOf(id) = Self => OwnEnds(<<id[1], "out">>, <<id[1], "in">>)'
  PROVE  ConnInv'
  <1> USE DEF ConnInv
  <1>1. /\ task' = [task EXCEPT ![id] = now]
        /\ pm' = pm /\ be' = be /\ cmds' = cmds /\ events' = events /\ address' = address
        /\ failed' = failed /\ scenario' = scenario
    BY DEF TaskStep
  <1>2. /\ task' \in [Ids -> TaskType] /\ task'[id] = now
        /\ \A x \in Ids : x # id => task'[x] = task[x]
    BY <1>1 DEF Shape, GoesOn
  <1>3. Shape'
    BY <1>1, <1>2 DEF Shape, Connected
  <1>4. ASSUME NEW x \in Ids PROVE New(x)'
    BY <1>1, <1>2 DEF New, AddrOf, Event, Command, GoesOn
  <1>5. ASSUME NEW x \in Ids PROVE Life(x)'
    BY <1>1, <1>2 DEF Life, Told, Event, Command, GoesOn
  <1>6. EventsOnce' /\ CommandsOnce' /\ Attempts' /\ OutboundOnce' /\ BannedLeave' /\ InboundLimited'
    BY <1>1 DEF EventsOnce, CommandsOnce, Attempts, Attempt, OutboundOnce, Ops, BannedLeave, InboundLimited,
                Event, Command, Connected, ActiveInbound, AddrOf, MaxInbound
  <1>7. Own'
    <2>1. ("network" \notin Ops => NeverOff)' /\ (Quiet' <=> Quiet)
      BY <1>1 DEF Own, NeverOff, Command, Ops, Quiet
    <2>2. ASSUME NEW c \in Conns, Quiet, address[c] = Self, c # id[1]
          PROVE  OwnEnds(<<c, "out">>, <<c, "in">>)'
      <3>1. <<c, "out">> # id /\ <<c, "in">> # id /\ <<c, "out">> \in Ids /\ <<c, "in">> \in Ids
        BY <2>2, Ends
      <3>2. OwnEnds(<<c, "out">>, <<c, "in">>)
        BY <2>2 DEF Own
      <3> QED BY <3>1, <3>2, <1>1, <1>2 DEF OwnEnds, Event
    <2> QED BY <2>1, <2>2, <1>1 DEF Own, AddrOf
  <1> QED BY <1>3, <1>4, <1>5, <1>6, <1>7

\* What is put into the outbox of a task.
LEMMA Outboxes ==
  ASSUME NEW s \in Outbox, NEW x, NEW m \in {"Info", "Sync", "Misbehaved", "BadHandshake", "Closed"},
         NEW n \in {"Info", "Sync", "Misbehaved", "BadHandshake", "Closed"}
  PROVE  /\ Append(s, m) \in Outbox /\ s \o <<m>> \in Outbox /\ s \o <<m, n>> \in Outbox
         /\ In(Append(s, m), x) <=> In(s, x) \/ x = m
         /\ In(s \o <<m>>, x) <=> In(s, x) \/ x = m
         /\ In(s \o <<m, n>>, x) <=> In(s, x) \/ x \in {m, n}
  <1> DEFINE M == {"Info", "Sync", "Misbehaved", "BadHandshake", "Closed"}
  <1>1. s \in Seq(M) /\ <<m>> \in Seq(M) /\ <<m, n>> \in Seq(M)
    BY DEF Outbox
  <1>2. DOMAIN <<m, n>> = {1, 2} /\ <<m, n>>[1] = m /\ <<m, n>>[2] = n
    OBVIOUS
  <1>3. In(<<m, n>>, x) <=> x \in {m, n}
    BY <1>2 DEF In
  <1>4. Append(s, m) \in Outbox /\ s \o <<m>> \in Outbox /\ s \o <<m, n>> \in Outbox
    BY <1>1 DEF Outbox
  <1>5. In(Append(s, m), x) <=> In(s, x) \/ x = m
    BY <1>1, InAppend
  <1>6. In(s \o <<m>>, x) <=> In(s, x) \/ x = m
    <2>1. PICK t : t = <<m>>
      OBVIOUS
    <2>2. t \in Seq(M) /\ (In(t, x) <=> x = m)
      BY <2>1, <1>1, InShort
    <2>3. In(s \o t, x) <=> In(s, x) \/ In(t, x)
      BY <2>2, <1>1, InConcat
    <2> QED BY <2>1, <2>2, <2>3
  <1>7. In(s \o <<m, n>>, x) <=> In(s, x) \/ x \in {m, n}
    <2>1. PICK t : t = <<m, n>>
      OBVIOUS
    <2>2. t \in Seq(M) /\ (In(t, x) <=> x \in {m, n})
      BY <2>1, <1>1, <1>3
    <2>3. In(s \o t, x) <=> In(s, x) \/ In(t, x)
      BY <2>2, <1>1, InConcat
    <2> QED BY <2>1, <2>2, <2>3
  <1> QED BY <1>4, <1>5, <1>6, <1>7

\* One end of a connection of the node with itself goes on.
LEMMA OwnTask ==
  ASSUME ConnInv, NEW id \in Ids, NEW now, TaskStep(id, now), GoesOn(id, now),
         Quiet, AddrOf(id) = Self, UNCHANGED scenario,
         LET o == <<id[1], "out">> i == <<id[1], "in">>
         IN OwnEnds(o, i) =>
              /\ id = o => be.peers[o] # "pending" /\ task[o].greeted = now.greeted
              /\ id = i => /\ be.peers[o] = "pending" =>
                                /\ now.phase = "sync" /\ ~now.greeted
                                /\ now.outbox = <<"Info", "Sync">>
                           /\ ~task[o].greeted =>
                                /\ now.phase = "done" /\ ~now.greeted
                                /\ ~In(now.outbox, "Info") /\ be.peers[o] = "gone"
  PROVE  OwnEnds(<<id[1], "out">>, <<id[1], "in">>)'
  <1> USE DEF ConnInv
  <1> DEFINE o == <<id[1], "out">>
             i == <<id[1], "in">>
  <1>1. /\ task' = [task EXCEPT ![id] = now]
        /\ pm' = pm /\ be' = be /\ cmds' = cmds /\ events' = events /\ address' = address
    BY DEF TaskStep
  <1>2. /\ task'[id] = now
        /\ \A x \in Ids : x # id => task'[x] = task[x]
    BY <1>1 DEF Shape
  <1>3. o \in Ids /\ i \in Ids /\ o # i /\ (id = o \/ id = i) /\ id[1] \in Conns
    BY Ends
  <1>4. OwnEnds(o, i)
    BY <1>3 DEF Own, AddrOf
  <1>5. CASE id = o
    BY <1>1, <1>2, <1>3, <1>4, <1>5, Parts DEF OwnEnds, Event, GoesOn
  <1>6. CASE id = i
    BY <1>1, <1>2, <1>3, <1>4, <1>6, Parts DEF OwnEnds, Event, GoesOn
  <1> QED BY <1>3, <1>5, <1>6

\* The steps of a handshake: the inbound end receives the first message,
LEMMA ReceiveHelloStep ==
  ASSUME ConnInv, NEW id \in Ids, ReceiveHello(id), UNCHANGED scenario
  PROVE  ConnInv'
  <1> USE DEF ConnInv
  <1> DEFINE now == [task[id] EXCEPT !.phase = "sync", !.outbox = @ \o <<"Info", "Sync">>]
  <1>1. /\ id[2] = "in" /\ task[id].phase = "hello" /\ TaskStep(id, now) /\ ops' = ops
        /\ AddrOf(id) = Self => task[Other(id)].greeted
    BY DEF ReceiveHello
  <1>2. PICK out : out = task[id].outbox \o <<"Info", "Sync">>
    OBVIOUS
  <1>3. out \in Outbox /\ (In(out, "Closed") => In(task[id].outbox, "Closed"))
    <2>1. PICK s \in Outbox : s = task[id].outbox
      BY Parts
    <2>2. s \o <<"Info", "Sync">> \in Outbox
      BY Outboxes
    <2>3. In(s \o <<"Info", "Sync">>, "Closed") => In(s, "Closed")
      BY Outboxes
    <2> QED BY <1>2, <2>1, <2>2, <2>3
  <1>4. task[id] \in TaskType
    BY DEF Shape
  <1>5. now = [task[id] EXCEPT !.phase = "sync", !.outbox = out]
    BY <1>2
  <1>6. /\ now \in TaskType
        /\ now.phase = "sync" /\ now.greeted = task[id].greeted /\ now.inbox = task[id].inbox
        /\ now.outbox = out
    BY <1>3, <1>4, <1>5 DEF TaskType, Phases
  <1> HIDE DEF now
  <1>7. GoesOn(id, now)
    BY <1>1, <1>3, <1>6 DEF GoesOn
  <1>8. ASSUME Quiet, AddrOf(id) = Self PROVE OwnEnds(<<id[1], "out">>, <<id[1], "in">>)'
    <2>1. id = <<id[1], "in">> /\ Other(id) = <<id[1], "out">>
      BY <1>1, Ends
    <2>2. out = <<"Info", "Sync">>
      <3>1. task[id].outbox = <<>>
        BY <1>1 DEF Life
      <3> QED BY <3>1, <1>2
    <2> QED BY <1>1, <1>6, <1>7, <1>8, <2>1, <2>2, OwnTask DEF OwnEnds
  <1> QED BY <1>1, <1>7, <1>8, TaskGoesOn DEF Shape

\* answers it,
LEMMA SendHelloAckStep ==
  ASSUME ConnInv, NEW id \in Ids, SendHelloAck(id), UNCHANGED scenario
  PROVE  ConnInv'
  <1> USE DEF ConnInv
  <1> DEFINE now == [task[id] EXCEPT !.phase = "run", !.greeted = TRUE]
  <1>1. task[id].phase = "ack" /\ TaskStep(id, now) /\ ops' = ops
    BY DEF SendHelloAck
  <1>2. task[id] \in TaskType
    BY DEF Shape
  <1>3. /\ now \in TaskType
        /\ now.phase = "run" /\ now.greeted = TRUE /\ now.inbox = task[id].inbox
        /\ now.outbox = task[id].outbox
    BY <1>2 DEF TaskType, Phases
  <1> HIDE DEF now
  <1>4. GoesOn(id, now)
    BY <1>1, <1>3 DEF GoesOn
  <1>5. ASSUME Quiet, AddrOf(id) = Self PROVE OwnEnds(<<id[1], "out">>, <<id[1], "in">>)'
    <2>1. id = <<id[1], "in">> \/ id = <<id[1], "out">>
      BY Ends
    <2> QED BY <1>1, <1>3, <1>4, <1>5, <2>1, OwnTask DEF OwnEnds
  <1> QED BY <1>1, <1>4, <1>5, TaskGoesOn DEF Shape

\* the outbound end receives the answer,
LEMMA ReceiveHelloAckStep ==
  ASSUME ConnInv, NEW id \in Ids, ReceiveHelloAck(id), UNCHANGED scenario
  PROVE  ConnInv'
  <1> USE DEF ConnInv
  <1> DEFINE now == [task[id] EXCEPT !.phase = "run", !.outbox = Append(@, "Info")]
  <1>1. /\ id[2] = "out" /\ task[id].phase = "hello" /\ TaskStep(id, now) /\ ops' = ops
        /\ AddrOf(id) = Self => task[Other(id)].greeted
    BY DEF ReceiveHelloAck
  <1>2. PICK s \in Outbox : s = task[id].outbox
    BY Parts
  <1>3. PICK out : out = Append(s, "Info")
    OBVIOUS
  <1>4. out \in Outbox /\ (In(out, "Closed") => In(s, "Closed"))
    BY <1>3, Outboxes
  <1>5. task[id] \in TaskType /\ now = [task[id] EXCEPT !.phase = "run", !.outbox = out]
    BY <1>2, <1>3 DEF Shape
  <1>6. /\ now \in TaskType
        /\ now.phase = "run" /\ now.greeted = task[id].greeted /\ now.inbox = task[id].inbox
        /\ now.outbox = out
    BY <1>4, <1>5 DEF TaskType, Phases
  <1> HIDE DEF now
  <1>7. GoesOn(id, now)
    BY <1>1, <1>2, <1>4, <1>6 DEF GoesOn
  <1>8. ASSUME Quiet, AddrOf(id) = Self PROVE OwnEnds(<<id[1], "out">>, <<id[1], "in">>)'
    <2>1. id = <<id[1], "out">> /\ Other(id) = <<id[1], "in">>
      BY <1>1, Ends
    <2> QED BY <1>1, <1>6, <1>7, <1>8, <2>1, OwnTask DEF OwnEnds
  <1> QED BY <1>1, <1>7, <1>8, TaskGoesOn DEF Shape

\* or it fails.
LEMMA HandshakeFailsStep ==
  ASSUME ConnInv, NEW id \in Ids, NEW wrong \in BOOLEAN, HandshakeFails(id, wrong),
         UNCHANGED scenario
  PROVE  ConnInv'
  <1> USE DEF ConnInv
  <1> DEFINE last == IF wrong THEN <<"BadHandshake", "Closed">> ELSE <<"Closed">>
             now == [task[id] EXCEPT !.phase = "done", !.outbox = @ \o last]
  <1>1. /\ task[id].phase \in {"hello", "sync", "ack"} /\ TaskStep(id, now)
        /\ AddrOf(id) = Self => ~wrong /\ (~scenario.prompt \/ (Ended(Other(id)) /\ ~task[Other(id)].greeted))
    BY DEF HandshakeFails
  <1>2. ops' \in Nat
    BY DEF HandshakeFails, Operation, Shape
  <1>3. PICK s \in Outbox : s = task[id].outbox
    BY Parts
  <1>4. PICK out : out = s \o last
    OBVIOUS
  <1>5. out \in Outbox /\ (In(out, "Info") => In(s, "Info"))
    <2>1. CASE wrong
      <3>1. out = s \o <<"BadHandshake", "Closed">>
        BY <2>1, <1>4
      <3>2. s \o <<"BadHandshake", "Closed">> \in Outbox
        BY Outboxes
      <3>3. In(s \o <<"BadHandshake", "Closed">>, "Info") => In(s, "Info")
        BY Outboxes
      <3> QED BY <3>1, <3>2, <3>3
    <2>2. CASE ~wrong
      <3>1. out = s \o <<"Closed">>
        BY <2>2, <1>4
      <3>2. s \o <<"Closed">> \in Outbox
        BY Outboxes
      <3>3. In(s \o <<"Closed">>, "Info") => In(s, "Info")
        BY Outboxes
      <3> QED BY <3>1, <3>2, <3>3
    <2> QED BY <2>1, <2>2
  <1>6. task[id] \in TaskType /\ now = [task[id] EXCEPT !.phase = "done", !.outbox = out]
    BY <1>3, <1>4 DEF Shape
  <1>7. /\ now \in TaskType
        /\ now.phase = "done" /\ now.greeted = task[id].greeted /\ now.inbox = task[id].inbox
        /\ now.outbox = out
    BY <1>5, <1>6 DEF TaskType, Phases
  <1> HIDE DEF now
  <1>8. GoesOn(id, now)
    BY <1>1, <1>7 DEF GoesOn
  <1>9. ASSUME Quiet, AddrOf(id) = Self PROVE OwnEnds(<<id[1], "out">>, <<id[1], "in">>)'
    <2>1. \/ id = <<id[1], "out">> /\ Other(id) = <<id[1], "in">>
          \/ id = <<id[1], "in">> /\ Other(id) = <<id[1], "out">>
      BY Ends
    <2>2. task[Other(id)].phase \in {"done", "refused"} /\ ~task[Other(id)].greeted
      BY <1>1, <1>9 DEF Ended, Quiet
    <2> QED BY <1>1, <1>3, <1>5, <1>7, <1>8, <1>9, <2>1, <2>2, OwnTask DEF OwnEnds
  <1> QED BY <1>1, <1>2, <1>8, <1>9, TaskGoesOn

\* A task does what the backend tells it.
LEMMA HandleBackendEventStep ==
  ASSUME ConnInv, NEW id \in Ids, HandleBackendEvent(id), UNCHANGED scenario
  PROVE  ConnInv'
  <1> USE DEF ConnInv
  <1> DEFINE now == IF Head(task[id].inbox) = "Accepted"
                    THEN [task[id] EXCEPT !.phase = "open", !.inbox = Tail(@)]
                    ELSE [task[id] EXCEPT !.phase = "done", !.inbox = <<>>, !.outbox = Append(@, "Closed")]
  <1>1. task[id].phase \in {"run", "open"} /\ TaskStep(id, now) /\ ops' = ops /\ task[id].inbox # <<>>
    BY DEF HandleBackendEvent
  <1>2. PICK s \in Outbox, in \in Inbox : s = task[id].outbox /\ in = task[id].inbox
    BY Parts
  <1>3. PICK out : out = Append(s, "Closed")
    OBVIOUS
  <1>4. out \in Outbox
    BY <1>3, Outboxes
  <1>5. Tail(in) \in Inbox /\ (Head(in) = "Accepted" => (In(in, "Disconnect") => In(Tail(in), "Disconnect")))
    <2>1. in \in Seq({"Disconnect", "Accepted", "Dropped"}) /\ in # <<>>
      BY <1>1, <1>2 DEF Inbox
    <2>2. Tail(in) \in Inbox
      BY <2>1 DEF Inbox
    <2>3. In(in, "Disconnect") <=> "Disconnect" = Head(in) \/ In(Tail(in), "Disconnect")
      BY <2>1, InTail
    <2> QED BY <2>2, <2>3
  <1>6. /\ task[id] \in TaskType /\ <<>> \in Inbox
        /\ now = IF Head(in) = "Accepted"
                 THEN [task[id] EXCEPT !.phase = "open", !.inbox = Tail(in)]
                 ELSE [task[id] EXCEPT !.phase = "done", !.inbox = <<>>, !.outbox = out]
    BY <1>2, <1>3 DEF Shape, Inbox
  <1>7. /\ now \in TaskType
        /\ now.phase = (IF Head(in) = "Accepted" THEN "open" ELSE "done")
        /\ now.greeted = task[id].greeted
        /\ Head(in) = "Accepted" => now.inbox = Tail(in) /\ now.outbox = s
    BY <1>2, <1>4, <1>5, <1>6 DEF TaskType, Phases
  <1> HIDE DEF now
  <1>8. GoesOn(id, now)
    BY <1>1, <1>2, <1>5, <1>7 DEF GoesOn
  <1>9. ASSUME Quiet, AddrOf(id) = Self PROVE OwnEnds(<<id[1], "out">>, <<id[1], "in">>)'
    <2>1. id = <<id[1], "out">> \/ id = <<id[1], "in">>
      BY Ends
    <2> QED BY <1>1, <1>7, <1>8, <1>9, <2>1, OwnTask DEF OwnEnds
  <1> QED BY <1>1, <1>8, <1>9, TaskGoesOn DEF Shape

\* ReceiveWrongMessage and SocketCloses
LEMMA OpenTaskStep ==
  ASSUME ConnInv, NEW id \in Ids, ReceiveWrongMessage(id) \/ SocketCloses(id), UNCHANGED scenario
  PROVE  ConnInv'
  <1> USE DEF ConnInv
  <1> DEFINE wrong == [task[id] EXCEPT !.outbox = Append(@, "Misbehaved")]
             closed == [task[id] EXCEPT !.phase = "done", !.outbox = Append(@, "Closed")]
  <1>1. PICK now : /\ task[id].phase = "open" /\ TaskStep(id, now) /\ ops' \in Nat
                   /\ now = wrong \/ now = closed
    BY DEF ReceiveWrongMessage, SocketCloses, Operation, Shape
  <1>2. PICK s \in Outbox : s = task[id].outbox
    BY Parts
  <1>3. /\ Append(s, "Misbehaved") \in Outbox /\ Append(s, "Closed") \in Outbox
        /\ In(Append(s, "Misbehaved"), "Closed") => In(s, "Closed")
    BY Outboxes
  <1>4. task[id] \in TaskType
    BY DEF Shape
  <1>5. /\ now \in TaskType /\ now.phase \in {"open", "done"} /\ now.greeted = task[id].greeted
        /\ now.inbox = task[id].inbox
        /\ In(now.outbox, "Closed") => In(s, "Closed") \/ now.phase = "done"
    <2>1. CASE now = wrong
      BY <1>1, <1>2, <1>3, <1>4, <2>1 DEF TaskType, Phases
    <2>2. CASE now = closed
      BY <1>1, <1>2, <1>3, <1>4, <2>2 DEF TaskType, Phases
    <2> QED BY <1>1, <2>1, <2>2
  <1>6. GoesOn(id, now)
    BY <1>1, <1>2, <1>5 DEF GoesOn
  <1>7. ASSUME Quiet, AddrOf(id) = Self PROVE OwnEnds(<<id[1], "out">>, <<id[1], "in">>)'
    <2>1. id = <<id[1], "out">> \/ id = <<id[1], "in">>
      BY Ends
    <2> QED BY <1>1, <1>5, <1>6, <1>7, <2>1, OwnTask DEF OwnEnds
  <1> QED BY <1>1, <1>6, <1>7, TaskGoesOn

\* SendFails
LEMMA SendFailsStep ==
  ASSUME ConnInv, NEW id \in Ids, SendFails(id), UNCHANGED scenario
  PROVE  ConnInv'
  <1> USE DEF ConnInv
  <1>1. PICK now : /\ task[id].phase \in {"run", "open"} /\ TaskStep(id, now) /\ ops' = ops
                   /\ now = [task[id] EXCEPT !.phase = "done", !.inbox = <<>>,
                                             !.outbox = Append(@, "Closed")]
    BY DEF SendFails
  <1>2. PICK s \in Outbox : s = task[id].outbox
    BY Parts
  <1>3. PICK out \in Outbox : out = Append(s, "Closed")
    BY Outboxes
  <1>4. task[id] \in TaskType /\ <<>> \in Inbox
    BY DEF Shape, Inbox
  <1>5. now = [task[id] EXCEPT !.phase = "done", !.inbox = <<>>, !.outbox = out]
    BY <1>1, <1>2, <1>3
  <1>6. now \in TaskType /\ now.phase = "done" /\ now.greeted = task[id].greeted
    BY <1>4, <1>5 DEF TaskType, Phases
  <1>7. GoesOn(id, now)
    BY <1>1, <1>2, <1>6 DEF GoesOn
  <1>8. ASSUME Quiet, AddrOf(id) = Self PROVE OwnEnds(<<id[1], "out">>, <<id[1], "in">>)'
    <2>1. id = <<id[1], "out">> \/ id = <<id[1], "in">>
      BY Ends
    <2> QED BY <1>1, <1>6, <1>7, <1>8, <2>1, OwnTask DEF OwnEnds
  <1> QED BY <1>1, <1>7, <1>8, TaskGoesOn DEF Shape

----------------------------------------------------------------------------
(* Control. *)

\* Peers may be told to leave, and networking be switched if that is looked at.
CalmCommands ==
  /\ cmds' \in Seq(CommandType) /\ CommandsOnce'
  /\ \A id \in Ids : /\ Command("Accept", id)' <=> Command("Accept", id)
                     /\ Command("Disconnect", id) => Command("Disconnect", id)'
  /\ \A c \in Conns : Command("Connect", c)' <=> Command("Connect", c)
  /\ "network" \notin Ops => \A b \in BOOLEAN : Command("Networking", b)' <=> Command("Networking", b)

\* Misbehaviour may have been handled.
CalmEvents ==
  /\ events' \in Seq(EventType) /\ EventsOnce'
  /\ \A id \in Ids : /\ \A kind \in {"Accepted", "Closed", "Error"} : Event(kind, id)' <=> Event(kind, id)
                     /\ \A kind \in {"Misbehaved", "BadHandshake"} : Event(kind, id)' => Event(kind, id)

\* The peer manager changes what it knows of addresses, and which peers leave.
CalmManager ==
  /\ pm' \in ManagerType /\ pm'.pending = pm.pending /\ pm'.peers = pm.peers
  /\ pm.leaving \subseteq pm'.leaving /\ pm'.leaving \subseteq Connected(pm)
  /\ BannedLeave'

\* No command is sent.
LEMMA SameCommands ==
  ASSUME ConnInv, cmds' = cmds
  PROVE  CalmCommands
  BY DEF ConnInv, CalmCommands, CommandsOnce, Command, Shape

\* No event is reported.
LEMMA SameEvents ==
  ASSUME ConnInv, events' = events
  PROVE  CalmEvents
  BY DEF ConnInv, CalmEvents, EventsOnce, Event, Shape

\* What is known of commands that are added, none of which accepts or connects.
LEMMA MoreCommands ==
  ASSUME ConnInv, NEW t \in Seq(CommandType), cmds' = cmds \o t,
         \A id \in Ids : ~In(t, <<"Accept", id>>), \A c \in Conns : ~In(t, <<"Connect", c>>),
         "network" \notin Ops => \A b \in BOOLEAN : ~In(t, <<"Networking", b>>)
  PROVE  CalmCommands
  <1> USE DEF ConnInv
  <1>1. cmds \in Seq(CommandType) /\ cmds' \in Seq(CommandType)
    BY DEF Shape
  <1>2. \A kind, arg : Command(kind, arg)' <=> Command(kind, arg) \/ In(t, <<kind, arg>>)
    BY <1>1, InConcat DEF Command
  <1>3. \A y : ~In(t, y) => Once(t, y)
    BY DEF In, Once
  <1>4. \A y : ~In(t, y) /\ Once(cmds, y) => Once(cmds', y)
    BY <1>1, <1>3, OnceConcat
  <1>5. CommandsOnce'
    BY <1>4 DEF CommandsOnce
  <1> QED BY <1>1, <1>2, <1>5 DEF CalmCommands

\* Peers are told to leave.
LEMMA QuitCommands ==
  ASSUME ConnInv, NEW V \in SUBSET Ids, cmds' = cmds \o SetToSeq({<<"Disconnect", v>> : v \in V})
  PROVE  CalmCommands
  <1>1. PICK t : t = SetToSeq({<<"Disconnect", v>> : v \in V})
    OBVIOUS
  <1>2. t \in Seq(CommandType) /\ \A kind, arg : In(t, <<kind, arg>>) <=> kind = "Disconnect" /\ arg \in V
    BY <1>1, Quits
  <1>3. /\ \A id \in Ids : ~In(t, <<"Accept", id>>)
        /\ \A c \in Conns : ~In(t, <<"Connect", c>>)
        /\ \A b \in BOOLEAN : ~In(t, <<"Networking", b>>)
    BY <1>2
  <1>4. cmds' = cmds \o t
    BY <1>1
  <1> QED BY <1>2, <1>3, <1>4, MoreCommands

\* All that is not about addresses stays.
LEMMA CalmStep ==
  ASSUME ConnInv, CalmManager, CalmCommands, CalmEvents, ops' \in Nat,
         UNCHANGED <<be, task, address, failed, scenario>>
  PROVE  ConnInv'
  <1> USE DEF ConnInv
  <1>1. be' = be /\ task' = task /\ address' = address /\ failed' = failed /\ scenario' = scenario
    OBVIOUS
  <1>2. pm'.pending = pm.pending /\ pm'.peers = pm.peers
    BY DEF CalmManager
  <1>3. Shape'
    BY <1>1, <1>2 DEF Shape, CalmManager, CalmCommands, CalmEvents, Connected
  <1>4. ASSUME NEW x \in Ids PROVE New(x)'
    <2>1. New(x) /\ x[1] \in Conns
      BY Ends
    <2> QED BY <1>1, <1>2, <2>1 DEF New, AddrOf, CalmEvents, CalmCommands
  <1>5. ASSUME NEW x \in Ids PROVE Life(x)'
    <2>1. Life(x) /\ x[1] \in Conns
      BY Ends
    <2> QED BY <1>1, <1>2, <2>1 DEF Life, Told, CalmEvents, CalmCommands
  <1>6. EventsOnce' /\ CommandsOnce' /\ BannedLeave'
    BY DEF CalmEvents, CalmCommands, CalmManager
  <1>7. Attempts'
    <2>1. ASSUME NEW x \in Ids PROVE Attempt(x)' <=> Attempt(x)
      BY <1>1, Ends DEF Attempt, CalmEvents, CalmCommands
    <2> QED BY <1>1, <1>2, <2>1 DEF Attempts, AddrOf
  <1>8. OutboundOnce'
    BY <1>1, <1>2 DEF OutboundOnce, Ops, Connected, AddrOf
  <1>9. InboundLimited'
    <2>1. ActiveInbound(pm)' \subseteq ActiveInbound(pm) /\ ActiveInbound(pm) \subseteq Ids
      BY <1>2 DEF ActiveInbound, Connected, CalmManager
    <2>2. IsFiniteSet(ActiveInbound(pm))
      BY <2>1, IdsAreFinite, FS_Subset
    <2>3. /\ Cardinality(ActiveInbound(pm)') <= Cardinality(ActiveInbound(pm))
          /\ IsFiniteSet(ActiveInbound(pm)')
      BY <2>1, <2>2, FS_Subset
    <2>4. Cardinality(ActiveInbound(pm)') \in Nat /\ Cardinality(ActiveInbound(pm)) \in Nat
      BY <2>2, <2>3, FS_CardinalityType
    <2>5. scenario.maxInbound \in Nat
      BY ConnectionsAssumption DEF Shape, Scenario
    <2>6. MaxInbound' = MaxInbound /\ MaxInbound \in Nat
      BY <1>1, <2>5 DEF MaxInbound
    <2> QED BY <2>3, <2>4, <2>6 DEF InboundLimited
  <1>10. Own'
    <2>1. (Ops' = Ops) /\ (Quiet' <=> Quiet)
      BY <1>1 DEF Ops, Quiet
    <2>2. "network" \notin Ops => NeverOff'
      BY <1>1 DEF Own, NeverOff, CalmCommands
    <2>3. ASSUME NEW c \in Conns, Quiet, address[c] = Self PROVE OwnEnds(<<c, "out">>, <<c, "in">>)'
      <3>1. OwnEnds(<<c, "out">>, <<c, "in">>) /\ <<c, "out">> \in Ids /\ <<c, "in">> \in Ids
        BY <2>3, Ends DEF Own
      <3> QED BY <1>1, <1>2, <3>1 DEF OwnEnds, CalmEvents
    <2> QED BY <1>1, <2>1, <2>2, <2>3 DEF Own
  <1> QED BY <1>3, <1>4, <1>5, <1>6, <1>7, <1>8, <1>9, <1>10

\* Peers are told to leave, when the peer manager has changed what it knows of addresses.
LEMMA LeaveManager ==
  ASSUME ConnInv, NEW p \in ManagerType, NEW ids \in SUBSET Ids, Leave(p, ids),
         p.pending = pm.pending, p.peers = pm.peers, p.leaving = pm.leaving,
         UNCHANGED address,
         \A id \in Connected(pm) : AddrOf(id) \in p.banned => id \in pm.leaving \/ id \in ids
  PROVE  CalmManager /\ CalmCommands
  <1> USE DEF ConnInv
  <1>1. Connected(p) = Connected(pm) /\ Connected(pm) \subseteq Ids
    BY DEF Connected
  <1>2. pm' = [p EXCEPT !.leaving = @ \cup (ids \cap Connected(pm))]
    BY <1>1 DEF Leave, Disconnects
  <1>3. /\ pm' \in ManagerType /\ pm'.pending = pm.pending /\ pm'.peers = pm.peers
        /\ pm'.leaving = pm.leaving \cup (ids \cap Connected(pm)) /\ pm'.banned = p.banned
    BY <1>1, <1>2 DEF ManagerType
  <1>4. Connected(pm)' = Connected(pm)
    BY <1>3 DEF Connected
  <1>5. CalmManager
    BY <1>1, <1>3, <1>4 DEF CalmManager, BannedLeave, Shape, AddrOf
  <1>6. CalmCommands
    BY <1>1, QuitCommands DEF Leave
  <1> QED BY <1>5, <1>6

\* A peer is disconnected.
LEMMA DisconnectStep ==
  ASSUME ConnInv, NEW id \in Ids, Disconnect(id), UNCHANGED scenario
  PROVE  ConnInv'
  <1>1. Leave(pm, {id}) /\ UNCHANGED <<be, events, task, address, failed>> /\ ops' \in Nat
    BY DEF Disconnect, Operation, ConnInv, Shape
  <1>2. pm \in ManagerType /\ BannedLeave
    BY DEF ConnInv, Shape
  <1>3. CalmManager /\ CalmCommands
    BY <1>1, <1>2, LeaveManager DEF BannedLeave
  <1> QED BY <1>1, <1>3, SameEvents, CalmStep

\* An address is banned.
LEMMA BanStep ==
  ASSUME ConnInv, NEW a \in Addrs, Ban(a), UNCHANGED scenario
  PROVE  ConnInv'
  <1> DEFINE p == [pm EXCEPT !.banned = @ \cup {a}]
  <1>1. Leave(p, At(a)) /\ UNCHANGED <<be, events, task, address, failed>> /\ ops' \in Nat
    BY DEF Ban, Operation, ConnInv, Shape
  <1>2. pm \in ManagerType /\ BannedLeave
    BY DEF ConnInv, Shape
  <1>3. /\ p \in ManagerType /\ p.banned = pm.banned \cup {a}
        /\ p.pending = pm.pending /\ p.peers = pm.peers /\ p.leaving = pm.leaving
    BY <1>2 DEF ManagerType
  <1> HIDE DEF p
  <1>4. At(a) \in SUBSET Ids /\ Connected(pm) \subseteq Ids
        /\ \A id \in Connected(pm) : AddrOf(id) \in p.banned => id \in pm.leaving \/ id \in At(a)
    BY <1>2, <1>3 DEF BannedLeave, At, Connected
  <1>5. CalmManager /\ CalmCommands
    BY <1>1, <1>3, <1>4, LeaveManager
  <1> QED BY <1>1, <1>5, SameEvents, CalmStep

\* Forgive, RemoveReserved and EnableNetworking
LEMMA SettingsStep ==
  ASSUME ConnInv, NEW a \in Addrs, NEW enable \in BOOLEAN, UNCHANGED scenario,
         Forgive(a) \/ RemoveReserved(a) \/ EnableNetworking(enable)
  PROVE  ConnInv'
  <1> USE DEF ConnInv
  <1>1. UNCHANGED <<be, events, task, address, failed>> /\ ops' \in Nat
    BY DEF Forgive, RemoveReserved, EnableNetworking, Operation, Shape
  <1>2. pm \in ManagerType /\ BannedLeave /\ pm.leaving \subseteq Connected(pm)
    BY DEF Shape
  <1>3. /\ pm' \in ManagerType /\ pm'.pending = pm.pending /\ pm'.peers = pm.peers
        /\ pm'.leaving = pm.leaving /\ pm'.banned \subseteq pm.banned
    BY <1>2 DEF Forgive, RemoveReserved, EnableNetworking, ManagerType
  <1>4. CalmManager
    BY <1>1, <1>2, <1>3 DEF CalmManager, BannedLeave, Connected, AddrOf
  <1>5. CASE cmds' = cmds
    BY <1>1, <1>4, <1>5, SameCommands, SameEvents, CalmStep
  <1>6. CASE EnableNetworking(enable)
    <2>1. PICK t : t = <<<<"Networking", enable>>>>
      OBVIOUS
    <2>2. t \in Seq(CommandType) /\ \A y : In(t, y) <=> y = <<"Networking", enable>>
      BY <2>1, InShort DEF CommandType
    <2>3. cmds' = cmds \o t /\ "network" \in Ops
      BY <1>6, <2>1 DEF EnableNetworking, Operation, Shape
    <2>4. /\ \A id \in Ids : ~In(t, <<"Accept", id>>)
          /\ \A c \in Conns : ~In(t, <<"Connect", c>>)
      BY <2>2
    <2>5. CalmCommands
      BY <2>2, <2>3, <2>4, MoreCommands
    <2> QED BY <1>1, <1>4, <2>5, SameEvents, CalmStep
  <1> QED BY <1>5, <1>6 DEF Forgive, RemoveReserved

\* An end of a connection that was not made yet has no part in anything.
LEMMA NothingYet ==
  ASSUME ConnInv, NEW id \in Ids, AddrOf(id) = NoAddr
  PROVE  /\ be.peers[id] = "none" /\ pm.peers[id] = "none" /\ task[id].phase = "none"
         /\ task[id].outbox = <<>> /\ ~task[id].greeted
         /\ ~Command("Connect", id[1]) /\ ~Command("Accept", id) /\ ~Attempt(id)
         /\ \A kind \in {"Accepted", "Closed", "Error", "Misbehaved", "BadHandshake"} : ~Event(kind, id)
  <1>1. New(id) /\ Life(id)
    BY DEF ConnInv
  <1> QED BY <1>1 DEF New, Life, Attempt

\* Connect, and AddReserved when it connects
LEMMA Connecting ==
  ASSUME ConnInv, NEW a \in Addrs, NEW role \in {"Outbound", "Feeler"}, NEW p \in ManagerType,
         p.pending = pm.pending, p.peers = pm.peers, p.leaving = pm.leaving, p.banned = pm.banned,
         FreshConns # {}, CanConnect(p, a, role),
         pm' = [p EXCEPT !.pending[a] = role],
         cmds' = Append(cmds, <<"Connect", Fresh>>),
         address' = [address EXCEPT ![Fresh] = a],
         ops' \in Nat, UNCHANGED <<be, events, task, failed, scenario>>
  PROVE  ConnInv'
  <1> USE DEF ConnInv
  <1>1. PICK c \in Conns : c = Fresh /\ address[c] = NoAddr
    BY DEF Fresh, FreshConns
  <1>2. /\ be' = be /\ events' = events /\ task' = task /\ failed' = failed /\ scenario' = scenario
        /\ address' \in [Conns -> Addrs \cup {NoAddr}] /\ address'[c] = a
        /\ \A d \in Conns : d # c => address'[d] = address[d]
        /\ a # NoAddr
    BY <1>1, ConnectionsAssumption DEF Shape, Addrs
  <1>3. /\ pm' \in ManagerType /\ pm'.peers = pm.peers /\ pm'.leaving = pm.leaving
        /\ pm'.banned = pm.banned /\ pm'.pending[a] = role /\ pm'.pending \in [Addrs -> Pending]
        /\ \A b \in Addrs : b # a => pm'.pending[b] = pm.pending[b]
    BY DEF ManagerType, Pending
  <1>4. /\ cmds' \in Seq(CommandType)
        /\ \A kind, arg : Command(kind, arg)' <=> Command(kind, arg) \/ (kind = "Connect" /\ arg = c)
        /\ \A y : Once(cmds, y) /\ (y = <<"Connect", c>> => ~In(cmds, y)) => Once(cmds', y)
    <2>1. PICK x \in CommandType : x = <<"Connect", c>>
      BY DEF CommandType
    <2>2. cmds \in Seq(CommandType) /\ cmds' = Append(cmds, x)
      BY <2>1, <1>1 DEF Shape
    <2>3. cmds' \in Seq(CommandType)
      BY <2>2
    <2>4. \A y : In(cmds', y) <=> In(cmds, y) \/ y = x
      <3>1. \A y : In(Append(cmds, x), y) <=> In(cmds, y) \/ y = x
        BY <2>2, InAppend
      <3> QED BY <3>1, <2>2
    <2>5. \A y : Once(cmds, y) /\ (y = x => ~In(cmds, y)) => Once(cmds', y)
      BY <2>2, OnceAppend
    <2> QED BY <2>1, <2>3, <2>4, <2>5 DEF Command
  <1>5. ~Command("Connect", c) /\ <<c, "out">> \in Ids /\ <<c, "in">> \in Ids
        /\ AddrOf(<<c, "out">>) = NoAddr /\ AddrOf(<<c, "in">>) = NoAddr
    BY <1>1, Ends, NothingYet DEF AddrOf
  <1>6. Connected(pm)' = Connected(pm) /\ Connected(pm) \subseteq Ids
    BY <1>3 DEF Connected
  <1>7. \A x \in Ids : x[1] = c => AddrOf(x) = NoAddr
    BY <1>1 DEF AddrOf
  <1>8. \A x \in Ids : x[1] # c => AddrOf(x)' = AddrOf(x)
    BY <1>2, Ends DEF AddrOf
  <1>9. \A x \in Connected(pm) : x[1] # c
    BY <1>6, <1>7, NothingYet DEF Connected
  <1>10. Shape'
    BY <1>2, <1>3, <1>4, <1>6 DEF Shape
  <1>11. ASSUME NEW x \in Ids PROVE New(x)'
    <2>1. New(x) /\ x[1] \in Conns
      BY Ends
    <2>2. CASE x[1] = c
      BY <2>2, <1>2 DEF New, AddrOf
    <2>3. CASE x[1] # c
      BY <2>1, <2>3, <1>2, <1>3, <1>4, <1>8 DEF New, Event
    <2> QED BY <2>2, <2>3
  <1>12. ASSUME NEW x \in Ids PROVE Life(x)'
    <2>1. Life(x)
      OBVIOUS
    <2>2. x[1] = c => be.peers[x] = "none"
      BY <1>7, NothingYet
    <2> QED BY <2>1, <2>2, <1>2, <1>3, <1>4 DEF Life, Told, Event
  <1>13. EventsOnce' /\ CommandsOnce'
    <2>1. \A d \in Conns : (<<"Connect", d>> = <<"Connect", c>> => ~In(cmds, <<"Connect", d>>))
      BY <1>5 DEF Command
    <2>2. \A id \in Ids : <<"Accept", id>> # <<"Connect", c>>
      OBVIOUS
    <2> QED BY <1>2, <1>4, <2>1, <2>2 DEF EventsOnce, CommandsOnce
  <1>14. Attempts'
    <2>1. \A x \in Ids : Attempt(x) => x[1] # c
      BY <1>7, NothingYet
    <2>2. \A x \in Ids : Attempt(x)' <=> Attempt(x) \/ x = <<c, "out">>
      BY <1>2, <1>4, Ends DEF Attempt, Event
    <2>3. \A x \in Ids : Attempt(x) => AddrOf(x) # a /\ AddrOf(x) \in Addrs /\ pm.pending[AddrOf(x)] # "none"
      <3> SUFFICES ASSUME NEW x \in Ids, Attempt(x)
                   PROVE  AddrOf(x) # a /\ AddrOf(x) \in Addrs /\ pm.pending[AddrOf(x)] # "none"
        OBVIOUS
      <3>1. AddrOf(x) # NoAddr
        BY NothingYet
      <3>2. AddrOf(x) \in Addrs
        BY <3>1, Ends DEF AddrOf, Shape
      <3> QED BY <3>2 DEF Attempts, CanConnect
    <2>4. AddrOf(<<c, "out">>)' = a
      BY <1>2 DEF AddrOf
    <2>5. \A x \in Ids : Attempt(x)' => pm'.pending[AddrOf(x)'] # "none"
      BY <2>1, <2>2, <2>3, <2>4, <1>3, <1>8
    <2>6. \A x, y \in Ids : Attempt(x)' /\ Attempt(y)' /\ AddrOf(x)' = AddrOf(y)' => x = y
      BY <2>1, <2>2, <2>3, <2>4, <1>8 DEF Attempts
    <2> QED BY <2>5, <2>6 DEF Attempts
  <1>15. OutboundOnce'
    <2>1. "forgotten" \notin Ops => \A x \in Connected(pm) : x[2] = "out" => AddrOf(x) # a
      BY <1>6 DEF CanConnect, Outbound, Connected
    <2>2. \A x \in Connected(pm) : AddrOf(x) \in Addrs /\ AddrOf(x)' = AddrOf(x)
      <3> SUFFICES ASSUME NEW x \in Connected(pm) PROVE AddrOf(x) \in Addrs /\ AddrOf(x)' = AddrOf(x)
        OBVIOUS
      <3>1. x \in Ids /\ AddrOf(x) # NoAddr
        BY <1>6, NothingYet DEF Connected
      <3> QED BY <3>1, <1>8, <1>9, Ends DEF AddrOf, Shape
    <2> QED BY <2>1, <2>2, <1>2, <1>3, <1>6 DEF OutboundOnce, Ops
  <1>16. BannedLeave' /\ InboundLimited'
    <2>1. \A x \in Connected(pm) : AddrOf(x)' = AddrOf(x)
      BY <1>6, <1>8, <1>9
    <2>2. BannedLeave'
      BY <2>1, <1>3, <1>6 DEF BannedLeave
    <2>3. InboundLimited'
      BY <1>2, <1>3, <1>6 DEF InboundLimited, ActiveInbound, MaxInbound
    <2> QED BY <2>2, <2>3
  <1>17. Own'
    <2>1. (Ops' = Ops) /\ (Quiet' <=> Quiet)
      BY <1>2 DEF Ops, Quiet
    <2>2. "network" \notin Ops => NeverOff'
      BY <1>2, <1>4 DEF Own, NeverOff
    <2>3. ASSUME NEW d \in Conns, Quiet, address'[d] = Self PROVE OwnEnds(<<d, "out">>, <<d, "in">>)'
      <3>1. <<d, "out">> \in Ids /\ <<d, "in">> \in Ids
        BY Ends
      <3>2. CASE d # c
        <4>1. OwnEnds(<<d, "out">>, <<d, "in">>)
          BY <2>3, <3>2, <1>2 DEF Own
        <4> QED BY <4>1, <1>2, <1>3 DEF OwnEnds, Event
      <3>3. CASE d = c
        <4>1. \A x \in {<<d, "out">>, <<d, "in">>} :
                /\ be.peers[x] = "none" /\ pm.peers[x] = "none" /\ task[x].phase = "none"
                /\ task[x].outbox = <<>> /\ ~task[x].greeted /\ ~Event("Accepted", x)
          BY <3>1, <3>3, <1>5, NothingYet
        <4>2. ~In(<<>>, "Info")
          BY InShort
        <4> QED BY <4>1, <4>2, <1>2, <1>3 DEF OwnEnds, Event
      <3> QED BY <3>2, <3>3
    <2> QED BY <2>1, <2>2, <2>3 DEF Own
  <1> QED BY <1>10, <1>11, <1>12, <1>13, <1>14, <1>15, <1>16, <1>17

\* The peer manager connects to an address.
LEMMA ConnectStep ==
  ASSUME ConnInv, NEW a \in Addrs, NEW role \in {"Outbound", "Feeler"}, Connect(a, role),
         UNCHANGED scenario
  PROVE  ConnInv'
  <1>1. pm \in ManagerType /\ ops' \in Nat
    BY DEF ConnInv, Shape, Connect
  <1> QED BY <1>1, Connecting DEF Connect

\* An address is reserved, and connected to if it can be.
LEMMA AddReservedStep ==
  ASSUME ConnInv, NEW a \in Addrs, AddReserved(a), UNCHANGED scenario
  PROVE  ConnInv'
  <1> DEFINE p == [pm EXCEPT !.reserved = @ \cup {a}]
  <1>1. /\ UNCHANGED <<be, events, task, failed>> /\ ops' \in Nat
        /\ IF FreshConns # {} /\ CanConnect(p, a, "Outbound")
           THEN /\ pm' = [p EXCEPT !.pending[a] = "Outbound"]
                /\ cmds' = Append(cmds, <<"Connect", Fresh>>)
                /\ address' = [address EXCEPT ![Fresh] = a]
           ELSE pm' = p /\ UNCHANGED <<cmds, address>>
    BY DEF AddReserved, Operation, ConnInv, Shape
  <1>2. /\ p \in ManagerType /\ p.pending = pm.pending /\ p.peers = pm.peers
        /\ p.leaving = pm.leaving /\ p.banned = pm.banned
    BY DEF ConnInv, Shape, ManagerType
  <1> HIDE DEF p
  <1>3. CASE FreshConns # {} /\ CanConnect(p, a, "Outbound")
    BY <1>1, <1>2, <1>3, Connecting
  <1>4. CASE ~(FreshConns # {} /\ CanConnect(p, a, "Outbound"))
    <2>1. pm' = p /\ cmds' = cmds /\ address' = address
      BY <1>1, <1>4
    <2>2. CalmManager
      BY <1>2, <2>1 DEF CalmManager, BannedLeave, Connected, AddrOf, ConnInv, Shape
    <2> QED BY <1>1, <2>1, <2>2, SameCommands, SameEvents, CalmStep
  <1> QED BY <1>3, <1>4

----------------------------------------------------------------------------
(* What the backend reports. *)

\* The first event is taken from the queue.
Takes(kind, id) ==
  /\ kind \in {"Accepted", "Closed", "Error", "Misbehaved", "BadHandshake"} /\ id \in Ids
  /\ Event(kind, id)
  /\ events' \in Seq(EventType) /\ EventsOnce'
  /\ \A k, x : Event(k, x) <=> Event(k, x)' \/ (k = kind /\ x = id)
  /\ kind \in {"Accepted", "Closed", "Error"} => ~Event(kind, id)'
  /\ kind = "Closed" => ~Event("Accepted", id)

\* The first event of the queue.
LEMMA EventTaken ==
  ASSUME ConnInv, events # <<>>, events' = Tail(events)
  PROVE  \E kind, id : Head(events) = <<kind, id>> /\ Takes(kind, id)
  <1> USE DEF ConnInv
  <1>1. PICK s \in Seq(EventType) : s = events
    BY DEF Shape
  <1>2. s # <<>> /\ events' = Tail(s) /\ Head(s) \in EventType /\ Tail(s) \in Seq(EventType)
    BY <1>1
  <1>3. PICK kind \in {"Accepted", "Closed", "Error", "Misbehaved", "BadHandshake"}, id \in Ids :
          Head(s) = <<kind, id>>
    BY <1>2 DEF EventType
  <1>4. \A y : In(s, y) <=> y = Head(s) \/ In(Tail(s), y)
    BY <1>2, InTail
  <1>5. \A y : Once(s, y) => Once(Tail(s), y) /\ (Head(s) = y => ~In(Tail(s), y))
    BY <1>2, OnceTail
  <1>6. \A x, y : x # y /\ Before(s, x, y) => Before(Tail(s), x, y) /\ (Head(s) = y => ~In(s, x))
    BY <1>2, BeforeTail
  <1>7. \A x \in Ids : <<"Accepted", x>> # <<"Closed", x>>
    OBVIOUS
  <1>8. EventsOnce'
    BY <1>1, <1>2, <1>5, <1>6, <1>7 DEF EventsOnce
  <1>9. kind \in {"Accepted", "Closed", "Error"} => ~Event(kind, id)'
    BY <1>1, <1>2, <1>3, <1>5 DEF EventsOnce, Event
  <1>10. kind = "Closed" => ~Event("Accepted", id)
    BY <1>1, <1>2, <1>3, <1>6, <1>7 DEF EventsOnce, Event
  <1>11. \A k, x : Event(k, x) <=> Event(k, x)' \/ (k = kind /\ x = id)
    BY <1>1, <1>2, <1>3, <1>4 DEF Event
  <1>12. Takes(kind, id)
    BY <1>2, <1>8, <1>9, <1>10, <1>11 DEF Takes
  <1> QED BY <1>1, <1>3, <1>12

\* A peer that misbehaved is discouraged, or not.
LEMMA MisbehavedStep ==
  ASSUME ConnInv, NEW kind \in {"Misbehaved", "BadHandshake"}, NEW id, Takes(kind, id),
         UNCHANGED <<pm, cmds>> \/ Discourage(AddrOf(id)),
         UNCHANGED <<be, task, address, ops, failed, scenario>>
  PROVE  ConnInv'
  <1> USE DEF ConnInv
  <1>1. CalmEvents
    BY DEF CalmEvents, Takes
  <1>2. ops' \in Nat /\ pm \in ManagerType /\ BannedLeave
    BY DEF Shape
  <1>3. CASE pm' = pm /\ cmds' = cmds
    <2>1. CalmManager
      BY <1>3, <1>2 DEF CalmManager, BannedLeave, Connected, AddrOf, Shape
    <2> QED BY <1>1, <1>2, <1>3, <2>1, SameCommands, CalmStep
  <1>4. CASE Leave([pm EXCEPT !.discouraged = @ \cup {AddrOf(id)}], At(AddrOf(id)))
    <2> DEFINE p == [pm EXCEPT !.discouraged = @ \cup {AddrOf(id)}]
    <2>1. id \in Ids /\ AddrOf(id) # NoAddr
      BY NothingYet DEF Takes
    <2>2. AddrOf(id) \in Addrs
      BY <2>1, Ends DEF AddrOf, Shape
    <2>3. /\ p \in ManagerType /\ p.banned = pm.banned
          /\ p.pending = pm.pending /\ p.peers = pm.peers /\ p.leaving = pm.leaving
      BY <1>2, <2>2 DEF ManagerType
    <2> HIDE DEF p
    <2>4. At(AddrOf(id)) \in SUBSET Ids /\ \A x \in Connected(pm) : AddrOf(x) \in p.banned => x \in pm.leaving
      BY <1>2, <2>3 DEF BannedLeave, At
    <2>5. CalmManager /\ CalmCommands
      BY <1>4, <2>3, <2>4, LeaveManager DEF p
    <2> QED BY <1>1, <1>2, <2>5, CalmStep
  <1> QED BY <1>3, <1>4 DEF Discourage

\* The peers that may be active inbound ones are still few enough when there are no more of them.
LEMMA FewerInbound ==
  ASSUME ConnInv, ActiveInbound(pm)' \subseteq ActiveInbound(pm), UNCHANGED scenario
  PROVE  InboundLimited'
  <1>1. ActiveInbound(pm) \subseteq Ids
    BY DEF ActiveInbound, Connected
  <1>2. IsFiniteSet(ActiveInbound(pm))
    BY <1>1, IdsAreFinite, FS_Subset
  <1>3. /\ Cardinality(ActiveInbound(pm)') <= Cardinality(ActiveInbound(pm))
        /\ IsFiniteSet(ActiveInbound(pm)')
    BY <1>2, FS_Subset
  <1>4. Cardinality(ActiveInbound(pm)') \in Nat /\ Cardinality(ActiveInbound(pm)) \in Nat
    BY <1>2, <1>3, FS_CardinalityType
  <1>5. scenario.maxInbound \in Nat
    BY ConnectionsAssumption DEF ConnInv, Shape, Scenario
  <1>6. MaxInbound' = MaxInbound /\ MaxInbound \in Nat
    BY <1>5 DEF MaxInbound
  <1> QED BY <1>3, <1>4, <1>6 DEF InboundLimited, ConnInv

\* The peer manager hears that a connection is closed.
LEMMA ClosedStep ==
  ASSUME ConnInv, NEW id, Takes("Closed", id), pm' = ConnectionClosed(pm, id),
         UNCHANGED <<cmds, be, task, address, ops, failed, scenario>>
  PROVE  ConnInv'
  <1> USE DEF ConnInv
  <1>1. /\ cmds' = cmds /\ be' = be /\ task' = task /\ address' = address /\ ops' = ops
        /\ failed' = failed /\ scenario' = scenario
    OBVIOUS
  <1>2. /\ id \in Ids /\ pm' \in ManagerType /\ pm'.pending = pm.pending /\ pm'.banned = pm.banned
        /\ pm'.leaving = pm.leaving \ {id} /\ pm'.peers[id] = "none"
        /\ \A x \in Ids : x # id => pm'.peers[x] = pm.peers[x]
    BY DEF Takes, ConnectionClosed, Shape, ManagerType, Roles
  <1>3. /\ Connected(pm)' = Connected(pm) \ {id}
        /\ \A k, x : Event(k, x) <=> Event(k, x)' \/ (k = "Closed" /\ x = id)
        /\ ~Event("Closed", id)' /\ ~Event("Accepted", id) /\ Event("Closed", id)
    BY <1>2 DEF Connected, Takes
  <1>4. Shape'
    BY <1>1, <1>2, <1>3 DEF Shape, Takes
  <1>5. ASSUME NEW x \in Ids PROVE New(x)'
    BY <1>1, <1>2, <1>3 DEF New, AddrOf, Command
  <1>6. ASSUME NEW x \in Ids PROVE Life(x)'
    <2>1. Life(x)
      OBVIOUS
    <2> QED BY <2>1, <1>1, <1>2, <1>3 DEF Life, Told, Command
  <1>7. EventsOnce' /\ CommandsOnce'
    BY <1>1 DEF Takes, CommandsOnce
  <1>8. Attempts'
    <2>1. \A x \in Ids : Attempt(x)' <=> Attempt(x)
      BY <1>1, <1>3 DEF Attempt, Command
    <2> QED BY <2>1, <1>1, <1>2 DEF Attempts, AddrOf
  <1>9. OutboundOnce' /\ BannedLeave'
    <2>1. \A x \in Connected(pm)' : x \in Connected(pm) /\ pm'.peers[x] = pm.peers[x]
      BY <1>2, <1>3 DEF Connected
    <2>2. OutboundOnce'
      BY <2>1, <1>1, <1>2 DEF OutboundOnce, Ops, AddrOf
    <2>3. BannedLeave'
      BY <1>1, <1>2, <1>3 DEF BannedLeave, AddrOf
    <2> QED BY <2>2, <2>3
  <1>10. InboundLimited'
    <2>1. ActiveInbound(pm)' \subseteq ActiveInbound(pm)
      BY <1>2, <1>3 DEF ActiveInbound, Connected
    <2> QED BY <2>1, FewerInbound
  <1>11. Own'
    <2>1. ASSUME NEW c \in Conns, Quiet, address[c] = Self PROVE OwnEnds(<<c, "out">>, <<c, "in">>)'
      <3>1. OwnEnds(<<c, "out">>, <<c, "in">>) /\ <<c, "out">> \in Ids /\ <<c, "in">> \in Ids
        BY <2>1, Ends DEF Own
      <3> QED BY <1>1, <1>2, <1>3, <3>1 DEF OwnEnds
    <2> QED BY <2>1, <1>1 DEF Own, Quiet, Ops, NeverOff, Command
  <1> QED BY <1>4, <1>5, <1>6, <1>7, <1>8, <1>9, <1>10, <1>11

\* An attempt comes to its end: its address is free again.
LEMMA AttemptEnds ==
  ASSUME ConnInv, NEW id \in Ids, Attempt(id), ~Attempt(id)',
         pm'.pending = [pm.pending EXCEPT ![AddrOf(id)] = "none"],
         \A x \in Ids : x # id => (Attempt(x)' <=> Attempt(x)),
         UNCHANGED address
  PROVE  Attempts' /\ AddrOf(id) \in Addrs /\ pm.pending[AddrOf(id)] # "none"
  <1> USE DEF ConnInv
  <1>1. \A x \in Ids : Attempt(x) => AddrOf(x) \in Addrs
    <2> SUFFICES ASSUME NEW x \in Ids, Attempt(x) PROVE AddrOf(x) \in Addrs
      OBVIOUS
    <2>1. AddrOf(x) # NoAddr
      BY NothingYet
    <2> QED BY <2>1, Ends DEF AddrOf, Shape
  <1>2. pm.pending \in [Addrs -> Pending]
    BY Parts
  <1>3. \A x \in Ids : AddrOf(x)' = AddrOf(x)
    BY DEF AddrOf
  <1> QED BY <1>1, <1>2, <1>3 DEF Attempts

\* The peer manager hears that an attempt has failed.
LEMMA ErrorStep ==
  ASSUME ConnInv, NEW id, Takes("Error", id), pm' = OutboundError(pm, id),
         failed' = (pm.pending[AddrOf(id)] = "none"),
         UNCHANGED <<cmds, be, task, address, ops, scenario>>
  PROVE  ConnInv'
  <1> USE DEF ConnInv
  <1>1. /\ cmds' = cmds /\ be' = be /\ task' = task /\ address' = address /\ ops' = ops
        /\ scenario' = scenario
    OBVIOUS
  <1>2. id \in Ids /\ Life(id)
    BY DEF Takes
  <1>3. /\ \A k, x : Event(k, x) <=> Event(k, x)' \/ (k = "Error" /\ x = id)
        /\ ~Event("Error", id)' /\ Event("Error", id)
    BY DEF Takes
  <1>4. Attempt(id) /\ ~Attempt(id)' /\ \A x \in Ids : x # id => (Attempt(x)' <=> Attempt(x))
    BY <1>1, <1>2, <1>3 DEF Attempt, Life, Command
  <1>5. /\ pm' \in ManagerType /\ pm'.pending = [pm.pending EXCEPT ![AddrOf(id)] = "none"]
        /\ pm'.banned = pm.banned /\ pm'.leaving = pm.leaving /\ pm'.peers = pm.peers
    BY DEF OutboundError, Shape, ManagerType, Pending
  <1>6. Attempts' /\ AddrOf(id) \in Addrs /\ pm.pending[AddrOf(id)] # "none"
    BY <1>1, <1>2, <1>4, <1>5, AttemptEnds
  <1>7. Connected(pm)' = Connected(pm) /\ Connected(pm) \subseteq Ids
    BY <1>5 DEF Connected
  <1>8. Shape'
    BY <1>1, <1>5, <1>6, <1>7 DEF Shape, Takes
  <1>9. ASSUME NEW x \in Ids PROVE New(x)'
    BY <1>1, <1>3, <1>5 DEF New, AddrOf, Command
  <1>10. ASSUME NEW x \in Ids PROVE Life(x)'
    <2>1. Life(x)
      OBVIOUS
    <2> QED BY <2>1, <1>1, <1>3, <1>5 DEF Life, Told, Command
  <1>11. EventsOnce' /\ CommandsOnce'
    BY <1>1 DEF Takes, CommandsOnce
  <1>12. OutboundOnce' /\ BannedLeave'
    <2>1. \A x \in Connected(pm) : pm.pending[AddrOf(x)] = "none" => pm'.pending[AddrOf(x)] = "none"
      <3>1. pm.pending \in [Addrs -> Pending]
        BY Parts
      <3> QED BY <1>5, <1>6, <3>1
    <2> QED BY <2>1, <1>1, <1>5, <1>7 DEF OutboundOnce, Ops, BannedLeave, AddrOf
  <1>13. InboundLimited'
    <2>1. ActiveInbound(pm)' \subseteq ActiveInbound(pm)
      BY <1>5, <1>7 DEF ActiveInbound
    <2> QED BY <2>1, FewerInbound
  <1>14. Own'
    <2>1. ASSUME NEW c \in Conns, Quiet, address[c] = Self PROVE OwnEnds(<<c, "out">>, <<c, "in">>)'
      <3>1. OwnEnds(<<c, "out">>, <<c, "in">>) /\ <<c, "out">> \in Ids /\ <<c, "in">> \in Ids
        BY <2>1, Ends DEF Own
      <3> QED BY <1>1, <1>3, <1>5, <3>1 DEF OwnEnds
    <2> QED BY <2>1, <1>1 DEF Own, Quiet, Ops, NeverOff, Command
  <1> QED BY <1>6, <1>8, <1>9, <1>10, <1>11, <1>12, <1>13, <1>14

\* The commands that follow the acceptance of a peer.
LEMMA AcceptCommands ==
  ASSUME ConnInv, NEW id \in Ids, NEW V \in SUBSET Ids, NEW feeler \in BOOLEAN, ~Command("Accept", id),
         cmds' = cmds \o SetToSeq({<<"Disconnect", v>> : v \in V}) \o <<<<"Accept", id>>>>
                   \o IF feeler THEN <<<<"Disconnect", id>>>> ELSE <<>>
  PROVE  /\ cmds' \in Seq(CommandType) /\ CommandsOnce'
         /\ \A kind, arg : /\ Command(kind, arg) => Command(kind, arg)'
                           /\ kind # "Disconnect" =>
                                (Command(kind, arg)' <=> Command(kind, arg) \/ (kind = "Accept" /\ arg = id))
  <1> USE DEF ConnInv
  <1>1. PICK s \in Seq(CommandType) : s = cmds
    BY DEF Shape
  <1>2. PICK q : q = SetToSeq({<<"Disconnect", v>> : v \in V})
    OBVIOUS
  <1>3. /\ q \in Seq(CommandType)
        /\ \A kind, arg : /\ In(q, <<kind, arg>>) <=> kind = "Disconnect" /\ arg \in V
                          /\ kind # "Disconnect" => Once(q, <<kind, arg>>)
    BY <1>2, Quits
  <1>4. PICK t : t = <<<<"Accept", id>>>>
    OBVIOUS
  <1>5. t \in Seq(CommandType) /\ \A y : (In(t, y) <=> y = <<"Accept", id>>) /\ Once(t, y)
    <2>1. PICK x \in CommandType : x = <<"Accept", id>>
      BY DEF CommandType
    <2>2. t = <<x>>
      BY <2>1, <1>4
    <2>3. \A y : (In(<<x>>, y) <=> y = x) /\ Once(<<x>>, y)
      BY InShort
    <2>4. \A y : (In(t, y) <=> y = x) /\ Once(t, y)
      BY <2>2, <2>3
    <2>5. <<x>> \in Seq(CommandType)
      OBVIOUS
    <2> QED BY <2>1, <2>2, <2>4, <2>5
  <1>6. PICK f : f = IF feeler THEN <<<<"Disconnect", id>>>> ELSE <<>>
    OBVIOUS
  <1>7. f \in Seq(CommandType) /\ \A y : Once(f, y) /\ (In(f, y) => y = <<"Disconnect", id>>)
    <2>1. CASE feeler
      <3>1. PICK x \in CommandType : x = <<"Disconnect", id>>
        BY DEF CommandType
      <3>2. f = <<x>>
        BY <2>1, <3>1, <1>6
      <3>3. \A y : (In(<<x>>, y) <=> y = x) /\ Once(<<x>>, y)
        BY InShort
      <3>4. \A y : (In(f, y) <=> y = x) /\ Once(f, y)
        BY <3>2, <3>3
      <3>5. <<x>> \in Seq(CommandType)
        OBVIOUS
      <3> QED BY <3>1, <3>2, <3>4, <3>5
    <2>2. CASE ~feeler
      BY <2>2, <1>6, InShort
    <2> QED BY <2>1, <2>2
  <1>8. PICK a : a = s \o q
    OBVIOUS
  <1>9. /\ a \in Seq(CommandType) /\ \A y : In(a, y) <=> In(s, y) \/ In(q, y)
        /\ \A y : Once(s, y) /\ Once(q, y) /\ ~In(q, y) => Once(a, y)
    BY <1>3, <1>8, InConcat, OnceConcat
  <1>10. PICK b : b = a \o t
    OBVIOUS
  <1>11. /\ b \in Seq(CommandType) /\ \A y : In(b, y) <=> In(a, y) \/ In(t, y)
         /\ \A y : Once(a, y) /\ Once(t, y) /\ ~(In(a, y) /\ In(t, y)) => Once(b, y)
    BY <1>5, <1>9, <1>10, InConcat, OnceConcat
  <1>12. cmds' = b \o f
    BY <1>1, <1>2, <1>4, <1>6, <1>8, <1>10
  <1>13. /\ b \o f \in Seq(CommandType) /\ \A y : In(b \o f, y) <=> In(b, y) \/ In(f, y)
         /\ \A y : Once(b, y) /\ Once(f, y) /\ ~In(f, y) => Once(b \o f, y)
    BY <1>7, <1>11, InConcat, OnceConcat
  <1>14. /\ \A kind, arg : Command(kind, arg) => Command(kind, arg)'
         /\ \A kind, arg : kind # "Disconnect" =>
              (Command(kind, arg)' <=> Command(kind, arg) \/ (kind = "Accept" /\ arg = id))
    <2>1. \A y : In(cmds', y) <=> In(s, y) \/ In(q, y) \/ In(t, y) \/ In(f, y)
      BY <1>9, <1>11, <1>12, <1>13
    <2>2. \A kind, arg :
            In(cmds', <<kind, arg>>) <=> \/ In(s, <<kind, arg>>) \/ In(q, <<kind, arg>>)
                                         \/ In(t, <<kind, arg>>) \/ In(f, <<kind, arg>>)
      BY <2>1
    <2>3. \A kind, arg : kind # "Disconnect" => ~In(q, <<kind, arg>>) /\ ~In(f, <<kind, arg>>)
      BY <1>3, <1>7
    <2>4. \A kind, arg : In(t, <<kind, arg>>) <=> kind = "Accept" /\ arg = id
      BY <1>5
    <2> QED BY <1>1, <2>2, <2>3, <2>4 DEF Command
  <1>15. ASSUME NEW kind \in {"Accept", "Connect"}, NEW arg, Once(cmds, <<kind, arg>>)
         PROVE  Once(cmds', <<kind, arg>>)
    <2>1. PICK y : y = <<kind, arg>>
      OBVIOUS
    <2>2. ~In(q, y) /\ Once(q, y) /\ ~In(f, y) /\ (In(t, y) => ~In(s, y))
      BY <2>1, <1>1, <1>3, <1>5, <1>7 DEF Command
    <2>3. Once(a, y)
      BY <2>1, <2>2, <1>1, <1>9, <1>15
    <2>4. Once(b, y)
      BY <2>2, <2>3, <1>5, <1>9, <1>11
    <2> QED BY <2>1, <2>2, <2>4, <1>7, <1>12, <1>13
  <1>16. CommandsOnce'
    BY <1>15 DEF CommandsOnce
  <1> QED BY <1>12, <1>13, <1>14, <1>16

\* The peer that is accepted: what is known before, and what remains to be heard of it.
LEMMA AcceptedPeer ==
  ASSUME ConnInv, NEW id, Takes("Accepted", id)
  PROVE  /\ id \in Ids /\ Life(id) /\ be.peers[id] \in {"peer", "gone"} /\ pm.peers[id] = "none"
         /\ ~Command("Accept", id) /\ ~Event("Error", id) /\ AddrOf(id) \in Addrs
         /\ be.peers[id] = "gone" => Event("Closed", id)
         /\ id[2] = "out" => Attempt(id) /\ ~Command("Connect", id[1])
         /\ Quiet => AddrOf(id) # Self
  <1> USE DEF ConnInv
  <1>1. id \in Ids /\ Life(id) /\ Event("Accepted", id)
    BY DEF Takes
  <1>2. AddrOf(id) # NoAddr
    BY <1>1, NothingYet
  <1>3. AddrOf(id) \in Addrs
    BY <1>1, <1>2, Ends DEF AddrOf, Shape
  <1>4. Quiet => AddrOf(id) # Self
    <2> SUFFICES ASSUME Quiet, AddrOf(id) = Self PROVE FALSE
      OBVIOUS
    <2>1. OwnEnds(<<id[1], "out">>, <<id[1], "in">>) /\ (id = <<id[1], "out">> \/ id = <<id[1], "in">>)
      BY <1>1, Ends DEF Own, AddrOf
    <2> QED BY <1>1, <2>1 DEF OwnEnds
  <1> QED BY <1>1, <1>3, <1>4 DEF Life, Attempt

\* A connection is rejected.
LEMMA RejectStep ==
  ASSUME ConnInv, NEW id, Takes("Accepted", id),
         pm' = (IF id[2] = "in" THEN pm ELSE [pm EXCEPT !.pending[AddrOf(id)] = "none"]),
         cmds' = Append(cmds, <<"Disconnect", id>>),
         UNCHANGED <<be, task, address, ops, failed, scenario>>
  PROVE  ConnInv'
  <1> USE DEF ConnInv
  <1>1. /\ be' = be /\ task' = task /\ address' = address /\ ops' = ops
        /\ scenario' = scenario /\ failed' = failed
    OBVIOUS
  <1>2. /\ id \in Ids /\ Life(id) /\ pm.peers[id] = "none" /\ ~Event("Error", id)
        /\ AddrOf(id) \in Addrs /\ be.peers[id] \in {"peer", "gone"}
        /\ id[2] = "out" => Attempt(id) /\ ~Command("Connect", id[1])
    BY AcceptedPeer
  <1>3. /\ \A k, x : Event(k, x) <=> Event(k, x)' \/ (k = "Accepted" /\ x = id)
        /\ ~Event("Accepted", id)' /\ Event("Accepted", id)
    BY DEF Takes
  <1>4. /\ cmds' \in Seq(CommandType) /\ CommandsOnce' /\ Command("Disconnect", id)'
        /\ \A kind, arg : Command(kind, arg)' <=> Command(kind, arg) \/ (kind = "Disconnect" /\ arg = id)
    <2>1. PICK y \in CommandType : y = <<"Disconnect", id>>
      BY <1>2 DEF CommandType
    <2>2. cmds' = Append(cmds, y) /\ cmds \in Seq(CommandType)
      BY <2>1 DEF Shape
    <2>3. \A z : In(Append(cmds, y), z) <=> In(cmds, z) \/ z = y
      BY <2>2, InAppend
    <2>4. \A z : z # y /\ Once(cmds, z) => Once(Append(cmds, y), z)
      BY <2>2, OnceAppend
    <2>5. /\ \A x \in Ids : <<"Accept", x>> # y
          /\ \A c \in Conns : <<"Connect", c>> # y
      BY <2>1
    <2>6. CommandsOnce'
      BY <2>2, <2>4, <2>5 DEF CommandsOnce
    <2> QED BY <2>1, <2>2, <2>3, <2>6 DEF Command
  <1>5. /\ pm' \in ManagerType /\ pm'.banned = pm.banned /\ pm'.leaving = pm.leaving
        /\ pm'.peers = pm.peers
        /\ pm'.pending = IF id[2] = "in" THEN pm.pending ELSE [pm.pending EXCEPT ![AddrOf(id)] = "none"]
    BY DEF Shape, ManagerType, Pending
  <1>6. Connected(pm)' = Connected(pm) /\ Connected(pm) \subseteq Ids
    BY <1>5 DEF Connected
  <1>7. Shape'
    BY <1>1, <1>4, <1>5, <1>6 DEF Shape, Takes
  <1>8. ASSUME NEW x \in Ids PROVE New(x)'
    BY <1>1, <1>3, <1>4, <1>5 DEF New, AddrOf
  <1>9. ASSUME NEW x \in Ids PROVE Life(x)'
    <2>1. Life(x)
      OBVIOUS
    <2> QED BY <2>1, <1>1, <1>2, <1>3, <1>4, <1>5 DEF Life, Told
  <1>10. Attempts'
    <2>1. \A x \in Ids : x # id => (Attempt(x)' <=> Attempt(x))
      BY <1>1, <1>3, <1>4 DEF Attempt
    <2>2. ~Attempt(id)'
      BY <1>1, <1>2, <1>3, <1>4 DEF Attempt
    <2>3. CASE id[2] = "out"
      BY <1>1, <1>2, <1>5, <2>1, <2>2, <2>3, AttemptEnds
    <2>4. CASE id[2] = "in"
      BY <1>1, <1>5, <2>1, <2>2, <2>4 DEF Attempts, AddrOf
    <2> QED BY <1>2, <2>3, <2>4, Ends
  <1>11. OutboundOnce' /\ BannedLeave'
    <2>1. \A x \in Connected(pm) : pm.pending[AddrOf(x)] = "none" => pm'.pending[AddrOf(x)] = "none"
      <3>1. pm.pending \in [Addrs -> Pending]
        BY Parts
      <3> QED BY <1>2, <1>5, <3>1
    <2>2. \A x : AddrOf(x)' = AddrOf(x)
      BY <1>1 DEF AddrOf
    <2>3. OutboundOnce'
      BY <2>1, <2>2, <1>6 DEF OutboundOnce, Ops
    <2>4. pm'.banned = pm.banned /\ pm'.leaving = pm.leaving
      BY <1>5
    <2>5. BannedLeave'
      BY <2>2, <2>4, <1>6 DEF BannedLeave
    <2> QED BY <2>3, <2>5
  <1>12. InboundLimited'
    <2>1. ActiveInbound(pm)' \subseteq ActiveInbound(pm)
      BY <1>5, <1>6 DEF ActiveInbound
    <2> QED BY <2>1, FewerInbound
  <1>13. Own'
    <2>1. ASSUME NEW c \in Conns, Quiet, address[c] = Self PROVE OwnEnds(<<c, "out">>, <<c, "in">>)'
      <3>1. OwnEnds(<<c, "out">>, <<c, "in">>) /\ <<c, "out">> \in Ids /\ <<c, "in">> \in Ids
        BY <2>1, Ends DEF Own
      <3> QED BY <1>1, <1>3, <1>5, <3>1 DEF OwnEnds
    <2> QED BY <2>1, <1>1, <1>4 DEF Own, Quiet, Ops, NeverOff
  <1> QED BY <1>4, <1>7, <1>8, <1>9, <1>10, <1>11, <1>12, <1>13 DEF Takes

\* A new inbound peer takes the place of the one that is evicted for it, if there is no room.
LEMMA RoomForOne ==
  ASSUME ConnInv, NEW id \in Ids, NEW p, NEW V, ActiveInbound(p) = ActiveInbound(pm),
         Admits(p, id, V), id \notin ActiveInbound(pm),
         ActiveInbound(pm)' \subseteq (ActiveInbound(pm) \ V) \cup (IF id[2] = "in" THEN {id} ELSE {}),
         UNCHANGED scenario
  PROVE  InboundLimited'
  <1> DEFINE A == ActiveInbound(pm)
             n == Cardinality(A)
  <1>1. IsFiniteSet(A) /\ n \in Nat
    <2>1. A \subseteq Ids
      BY DEF ActiveInbound, Connected
    <2> QED BY <2>1, IdsAreFinite, FS_Subset, FS_CardinalityType
  <1>2. MaxInbound' = MaxInbound /\ MaxInbound \in Nat
    BY ConnectionsAssumption DEF ConnInv, Shape, Scenario, MaxInbound
  <1>3. n <= MaxInbound
    BY DEF ConnInv, InboundLimited
  <1>4. CASE id[2] # "in"
    <2>1. ActiveInbound(pm)' \subseteq A
      BY <1>4
    <2> QED BY <2>1, FewerInbound
  <1>5. CASE id[2] = "in" /\ n < MaxInbound
    <2>1. ActiveInbound(pm)' \subseteq A \cup {id}
      BY <1>5
    <2>2. IsFiniteSet(A \cup {id}) /\ Cardinality(A \cup {id}) = n + 1
      BY <1>1, FS_AddElement
    <2>3. IsFiniteSet(ActiveInbound(pm)') /\ Cardinality(ActiveInbound(pm)') <= Cardinality(A \cup {id})
      BY <2>1, <2>2, FS_Subset
    <2>4. Cardinality(ActiveInbound(pm)') \in Nat
      BY <2>3, FS_CardinalityType
    <2> HIDE DEF A, n
    <2>5. Cardinality(ActiveInbound(pm)') <= MaxInbound
      BY <2>2, <2>3, <2>4, <1>1, <1>2, <1>5
    <2> QED BY <2>5, <1>2 DEF InboundLimited
  <1>6. CASE id[2] = "in" /\ ~(n < MaxInbound)
    <2>1. n >= MaxInbound
      BY <1>1, <1>2, <1>6
    <2>2. PICK v \in A : V = {v}
      BY <2>1, <1>6 DEF Admits
    <2>3. ActiveInbound(pm)' \subseteq (A \ {v}) \cup {id}
      BY <1>6, <2>2
    <2>4. IsFiniteSet(A \ {v}) /\ Cardinality(A \ {v}) = n - 1
      BY <1>1, FS_RemoveElement
    <2>5. IsFiniteSet((A \ {v}) \cup {id}) /\ Cardinality((A \ {v}) \cup {id}) = n
      <3>1. PICK B : B = A \ {v}
        OBVIOUS
      <3>2. IsFiniteSet(B \cup {id}) /\ Cardinality(B \cup {id}) = IF id \in B THEN Cardinality(B) ELSE Cardinality(B) + 1
        BY <2>4, <3>1, FS_AddElement
      <3>3. id \notin B /\ Cardinality(B) = n - 1 /\ n \in Nat
        BY <2>4, <1>1, <3>1
      <3> HIDE DEF A, n
      <3>4. IsFiniteSet(B \cup {id}) /\ Cardinality(B \cup {id}) = n
        BY <3>2, <3>3
      <3> QED BY <3>1, <3>4
    <2>6. IsFiniteSet(ActiveInbound(pm)') /\ Cardinality(ActiveInbound(pm)') <= n
      BY <2>3, <2>5, FS_Subset
    <2>7. Cardinality(ActiveInbound(pm)') \in Nat
      BY <2>6, FS_CardinalityType
    <2> HIDE DEF A, n
    <2>8. Cardinality(ActiveInbound(pm)') <= MaxInbound
      BY <2>6, <2>7, <1>1, <1>2, <1>3
    <2> QED BY <2>8, <1>2 DEF InboundLimited
  <1> QED BY <1>4, <1>5, <1>6

\* The peer is accepted, and the peers of V are evicted.
Accepts(id, role, p, V) ==
  /\ role = IF id[2] = "in" THEN "Inbound" ELSE pm.pending[AddrOf(id)]
  /\ p = IF id[2] = "in" THEN pm ELSE [pm EXCEPT !.pending[AddrOf(id)] = "none"]
  /\ Valid(p, id, role) /\ V \in SUBSET ActiveInbound(p) /\ Admits(p, id, V)
  /\ pm' = Disconnects([p EXCEPT !.peers[id] = role], IF role = "Feeler" THEN V \cup {id} ELSE V)
  /\ cmds' = cmds \o SetToSeq({<<"Disconnect", v>> : v \in V}) \o <<<<"Accept", id>>>>
               \o IF role = "Feeler" THEN <<<<"Disconnect", id>>>> ELSE <<>>

\* A connection is accepted, maybe in place of another peer.
LEMMA AcceptStep ==
  ASSUME ConnInv, NEW id, Takes("Accepted", id), NEW role, NEW p, NEW V, Accepts(id, role, p, V),
         UNCHANGED <<be, task, address, ops, failed, scenario>>
  PROVE  ConnInv'
  <1> USE DEF ConnInv
  <1>1. /\ be' = be /\ task' = task /\ address' = address /\ ops' = ops
        /\ scenario' = scenario /\ failed' = failed
    OBVIOUS
  <1>2. /\ id \in Ids /\ Life(id) /\ pm.peers[id] = "none" /\ ~Event("Error", id) /\ ~Command("Accept", id)
        /\ AddrOf(id) \in Addrs /\ be.peers[id] \in {"peer", "gone"}
        /\ be.peers[id] = "gone" => Event("Closed", id)
        /\ id[2] = "out" => Attempt(id) /\ ~Command("Connect", id[1])
        /\ Quiet => AddrOf(id) # Self
    BY AcceptedPeer
  <1>3. /\ \A k, x : Event(k, x) <=> Event(k, x)' \/ (k = "Accepted" /\ x = id)
        /\ ~Event("Accepted", id)' /\ Event("Accepted", id)
    BY DEF Takes
  <1>4. /\ role \in {"Inbound", "Outbound", "Feeler"} /\ (role = "Inbound" <=> id[2] = "in")
        /\ id[2] \in {"in", "out"}
    BY <1>2, Ends, Parts DEF Attempts, Pending, Accepts
  <1>5. /\ p \in ManagerType /\ p.peers = pm.peers /\ p.leaving = pm.leaving /\ p.banned = pm.banned
        /\ id[2] = "in" => p.pending = pm.pending
        /\ id[2] = "out" => p.pending = [pm.pending EXCEPT ![AddrOf(id)] = "none"]
    <2>1. CASE id[2] = "in"
      BY <2>1, <1>4 DEF Shape, Accepts
    <2>2. CASE id[2] = "out"
      BY <2>2 DEF Shape, ManagerType, Pending, Accepts
    <2> QED BY <1>4, <2>1, <2>2
  <1>6. ActiveInbound(p) = ActiveInbound(pm) /\ ActiveInbound(pm) \subseteq Connected(pm) /\ Connected(pm) \subseteq Ids
        /\ Connected(p) = Connected(pm) /\ id \notin Connected(pm)
    BY <1>2, <1>5 DEF ActiveInbound, Connected
  <1>7. PICK W : W = (IF role = "Feeler" THEN V \cup {id} ELSE V)
    OBVIOUS
  <1>8. PICK g : g = [p EXCEPT !.peers[id] = role]
    OBVIOUS
  <1>9. /\ g \in ManagerType /\ g.peers = [pm.peers EXCEPT ![id] = role] /\ g.leaving = pm.leaving
        /\ g.banned = pm.banned /\ g.pending = p.pending
    BY <1>2, <1>4, <1>5, <1>8 DEF ManagerType, Roles
  <1>10. pm.peers \in [Ids -> Roles]
    BY Parts
  <1>11. Connected(g) = Connected(pm) \cup {id}
    BY <1>2, <1>4, <1>9, <1>10 DEF Connected
  <1>12. V \subseteq W /\ W \subseteq Connected(g) /\ V \subseteq Connected(pm)
    BY <1>6, <1>7, <1>11 DEF Accepts
  <1>13. pm' = [g EXCEPT !.leaving = @ \cup W]
    <2>1. pm' = Disconnects(g, W)
      BY <1>7, <1>8 DEF Accepts
    <2>2. W \cap Connected(g) = W
      BY <1>12
    <2> QED BY <2>1, <2>2 DEF Disconnects
  <1>14. /\ pm' \in ManagerType /\ pm'.banned = pm.banned /\ pm'.leaving = pm.leaving \cup W
         /\ pm'.pending = p.pending /\ pm'.peers = g.peers
         /\ pm'.peers[id] = role /\ \A x \in Ids : x # id => pm'.peers[x] = pm.peers[x]
    <2>1. W \subseteq Ids
      BY <1>2, <1>6, <1>11, <1>12
    <2> QED BY <2>1, <1>2, <1>9, <1>10, <1>13 DEF ManagerType
  <1>15. Connected(pm)' = Connected(pm) \cup {id}
    BY <1>11, <1>14 DEF Connected
  <1>16. /\ cmds' \in Seq(CommandType) /\ CommandsOnce'
         /\ \A kind, arg : /\ Command(kind, arg) => Command(kind, arg)'
                           /\ kind # "Disconnect" =>
                                (Command(kind, arg)' <=> Command(kind, arg) \/ (kind = "Accept" /\ arg = id))
    <2>1. V \in SUBSET Ids
      BY <1>6, <1>12
    <2>2. PICK feeler \in BOOLEAN : feeler = (role = "Feeler")
      OBVIOUS
    <2>3. cmds' = cmds \o SetToSeq({<<"Disconnect", v>> : v \in V}) \o <<<<"Accept", id>>>>
                    \o IF feeler THEN <<<<"Disconnect", id>>>> ELSE <<>>
      BY <2>2 DEF Accepts
    <2> QED BY <2>1, <2>3, <1>2, AcceptCommands
  <1>17. Shape'
    <2>1. pm'.leaving \subseteq Connected(pm)'
      BY <1>11, <1>12, <1>14, <1>15 DEF Shape
    <2> QED BY <2>1, <1>1, <1>14, <1>16 DEF Shape, Takes
  <1>18. ASSUME NEW x \in Ids PROVE New(x)'
    <2>1. New(x) /\ AddrOf(x)' = AddrOf(x)
      BY <1>1 DEF AddrOf
    <2>2. AddrOf(id) # NoAddr
      BY <1>2, ConnectionsAssumption DEF Addrs
    <2> QED BY <2>1, <2>2, <1>1, <1>3, <1>14, <1>16 DEF New
  <1>19. ASSUME NEW x \in Ids PROVE Life(x)'
    <2>1. Life(x)
      OBVIOUS
    <2>2. CASE x # id
      BY <2>1, <2>2, <1>1, <1>3, <1>14, <1>16 DEF Life, Told
    <2>3. CASE x = id
      BY <2>1, <2>3, <1>1, <1>2, <1>3, <1>4, <1>14, <1>16 DEF Life, Told
    <2> QED BY <2>2, <2>3
  <1>20. Attempts'
    <2>1. \A x \in Ids : x # id => (Attempt(x)' <=> Attempt(x))
      BY <1>1, <1>3, <1>16 DEF Attempt
    <2>2. ~Attempt(id)'
      BY <1>1, <1>2, <1>3, <1>16 DEF Attempt
    <2>3. CASE id[2] = "out"
      BY <1>1, <1>2, <1>5, <1>14, <2>1, <2>2, <2>3, AttemptEnds
    <2>4. CASE id[2] = "in"
      BY <1>1, <1>5, <1>14, <2>1, <2>2, <2>4 DEF Attempts, AddrOf
    <2> QED BY <1>4, <2>3, <2>4
  <1>21. OutboundOnce'
    <2>1. pm.pending \in [Addrs -> Pending]
      BY Parts
    <2>2. /\ \A a : pm.pending[a] = "none" /\ a \in Addrs => pm'.pending[a] = "none"
          /\ id[2] = "out" => pm'.pending[AddrOf(id)] = "none" /\ pm.pending[AddrOf(id)] # "none"
      BY <2>1, <1>2, <1>4, <1>5, <1>14 DEF Attempts
    <2>3. \A x : AddrOf(x)' = AddrOf(x)
      BY <1>1 DEF AddrOf
    <2>4. \A x \in Connected(pm) : AddrOf(x) \in Addrs
      <3> SUFFICES ASSUME NEW x \in Connected(pm) PROVE AddrOf(x) \in Addrs
        OBVIOUS
      <3>1. x \in Ids /\ AddrOf(x) # NoAddr
        BY <1>6, NothingYet DEF Connected
      <3> QED BY <3>1, Ends DEF AddrOf, Shape
    <2>5. ASSUME "forgotten" \notin Ops
          PROVE  /\ \A x \in Connected(pm)' : x[2] = "out" => pm'.pending[AddrOf(x)'] = "none"
                 /\ \A x, y \in Connected(pm)' : x[2] = "out" /\ y[2] = "out" /\ AddrOf(x)' = AddrOf(y)' => x = y
      <3>1. \A x \in Connected(pm)' : x[2] = "out" => pm'.pending[AddrOf(x)'] = "none"
        BY <2>2, <2>3, <2>4, <2>5, <1>15 DEF OutboundOnce
      <3>2. \A x \in Connected(pm) : x[2] = "out" /\ id[2] = "out" => AddrOf(x) # AddrOf(id)
        BY <2>2, <2>5 DEF OutboundOnce
      <3>3. \A x, y \in Connected(pm)' : x[2] = "out" /\ y[2] = "out" /\ AddrOf(x)' = AddrOf(y)' => x = y
        BY <2>3, <2>5, <3>2, <1>15 DEF OutboundOnce
      <3> QED BY <3>1, <3>3
    <2>6. role = "Outbound" => \A x \in Connected(pm) : x[2] = "out" => AddrOf(x) # AddrOf(id)
      BY <1>6 DEF Accepts, Valid, Outbound
    <2>7. \A x \in Connected(pm) : pm'.peers[x] = pm.peers[x]
      BY <1>6, <1>14
    <2>8. \A x, y \in Connected(pm)' :
            x[2] = "out" /\ y[2] = "out" /\ pm'.peers[x] = "Outbound" /\ pm'.peers[y] = "Outbound"
            /\ AddrOf(x)' = AddrOf(y)' => x = y
      BY <2>3, <2>6, <2>7, <1>14, <1>15 DEF OutboundOnce
    <2> QED BY <2>5, <2>8, <1>1 DEF OutboundOnce, Ops
  <1>22. BannedLeave'
    <2>1. \A x : AddrOf(x)' = AddrOf(x)
      BY <1>1 DEF AddrOf
    <2>2. AddrOf(id) \notin pm.banned
      BY <1>5 DEF Valid, Accepts
    <2> QED BY <2>1, <2>2, <1>14, <1>15 DEF BannedLeave
  <1>23. InboundLimited'
    <2>1. ActiveInbound(pm)' \subseteq (ActiveInbound(pm) \ V) \cup (IF id[2] = "in" THEN {id} ELSE {})
      <3> SUFFICES ASSUME NEW x \in ActiveInbound(pm)'
                   PROVE  x \in ActiveInbound(pm) \ V \/ (id[2] = "in" /\ x = id)
        OBVIOUS
      <3>1. x \in Connected(pm) \cup {id} /\ pm'.peers[x] = "Inbound" /\ x \notin pm.leaving \cup W
        BY <1>14, <1>15 DEF ActiveInbound
      <3>2. CASE x = id
        BY <3>1, <3>2, <1>4, <1>14
      <3>3. CASE x # id
        BY <3>1, <3>3, <1>6, <1>12, <1>14 DEF ActiveInbound
      <3> QED BY <3>2, <3>3
    <2>2. id \notin ActiveInbound(pm)
      BY <1>6
    <2> QED BY <1>1, <1>2, <1>6, <2>1, <2>2, RoomForOne DEF Accepts
  <1>24. Own'
    <2>1. ASSUME NEW c \in Conns, Quiet, address[c] = Self PROVE OwnEnds(<<c, "out">>, <<c, "in">>)'
      <3>1. OwnEnds(<<c, "out">>, <<c, "in">>) /\ <<c, "out">> \in Ids /\ <<c, "in">> \in Ids
        BY <2>1, Ends DEF Own
      <3>2. id # <<c, "out">> /\ id # <<c, "in">>
        BY <1>2, <2>1 DEF AddrOf
      <3> QED BY <1>1, <1>3, <1>14, <3>1, <3>2 DEF OwnEnds
    <2>2. (Quiet' <=> Quiet) /\ Ops' = Ops /\ ("network" \notin Ops => NeverOff')
      BY <1>1, <1>16 DEF Own, Quiet, Ops, NeverOff
    <2> QED BY <2>1, <2>2, <1>1 DEF Own
  <1> QED BY <1>16, <1>17, <1>18, <1>19, <1>20, <1>21, <1>22, <1>23, <1>24 DEF Takes

\* The peer manager hears of a connection.
LEMMA AcceptConnectionStep ==
  ASSUME ConnInv, NEW id, Takes("Accepted", id), AcceptConnection(id),
         UNCHANGED <<be, task, address, ops, scenario>>
  PROVE  ConnInv'
  <1> DEFINE role == IF id[2] = "in" THEN "Inbound" ELSE pm.pending[AddrOf(id)]
             p == IF id[2] = "in" THEN pm ELSE [pm EXCEPT !.pending[AddrOf(id)] = "none"]
  <1>1. /\ id \in Ids /\ pm.peers[id] = "none" /\ AddrOf(id) \in Addrs
        /\ id[2] = "out" => Attempt(id)
    BY AcceptedPeer
  <1>2. role # "none" /\ p.peers = pm.peers
    BY <1>1, Ends DEF ConnInv, Attempts, Shape, ManagerType
  <1>3. failed' = (role = "none" \/ p.peers[id] # "none")
    BY DEF AcceptConnection
  <1>4. failed' = failed
    BY <1>1, <1>2, <1>3 DEF ConnInv, Shape
  <1>5. \/ pm' = p /\ cmds' = Append(cmds, <<"Disconnect", id>>)
        \/ \E V : Accepts(id, role, p, V)
    BY DEF AcceptConnection, Accepts
  <1>6. CASE pm' = p /\ cmds' = Append(cmds, <<"Disconnect", id>>)
    BY <1>4, <1>6, RejectStep
  <1> HIDE DEF role, p
  <1>7. CASE \E V : Accepts(id, role, p, V)
    BY <1>4, <1>7, AcceptStep
  <1> QED BY <1>5, <1>6, <1>7

\* The peer manager handles an event.
LEMMA HandleEventStep ==
  ASSUME ConnInv, HandleEvent, UNCHANGED scenario
  PROVE  ConnInv'
  <1>1. PICK kind, id : Head(events) = <<kind, id>> /\ Takes(kind, id)
    BY EventTaken DEF HandleEvent
  <1>2. kind \in {"Accepted", "Closed", "Error", "Misbehaved", "BadHandshake"}
    BY <1>1 DEF Takes
  <1>3. UNCHANGED <<be, task, address, ops>>
    BY DEF HandleEvent
  <1>4. /\ kind = "Accepted" => AcceptConnection(id)
        /\ kind = "Closed" => pm' = ConnectionClosed(pm, id) /\ UNCHANGED <<cmds, failed>>
        /\ kind = "Error" => /\ pm' = OutboundError(pm, id)
                             /\ failed' = (pm.pending[AddrOf(id)] = "none")
                             /\ UNCHANGED cmds
        /\ kind \in {"Misbehaved", "BadHandshake"} =>
             (UNCHANGED <<pm, cmds>> \/ Discourage(AddrOf(id))) /\ UNCHANGED failed
    <2>1. Head(events)[1] = kind /\ Head(events)[2] = id
      BY <1>1
    <2> QED BY <1>2, <2>1 DEF HandleEvent
  <1>5. CASE kind = "Accepted"
    BY <1>1, <1>3, <1>4, <1>5, AcceptConnectionStep
  <1>6. CASE kind = "Closed"
    BY <1>1, <1>3, <1>4, <1>6, ClosedStep
  <1>7. CASE kind = "Error"
    BY <1>1, <1>3, <1>4, <1>7, ErrorStep
  <1>8. CASE kind \in {"Misbehaved", "BadHandshake"}
    BY <1>1, <1>3, <1>4, <1>8, MisbehavedStep
  <1> QED BY <1>2, <1>5, <1>6, <1>7, <1>8

----------------------------------------------------------------------------
(* The backend. *)

\* The first command is taken from the queue.
TakesCommand(kind, arg) ==
  /\ <<kind, arg>> \in CommandType /\ Command(kind, arg)
  /\ cmds' \in Seq(CommandType) /\ CommandsOnce'
  /\ \A k, x : Command(k, x) <=> Command(k, x)' \/ (k = kind /\ x = arg)
  /\ kind \in {"Accept", "Connect"} => ~Command(kind, arg)'

\* The first command of the queue.
LEMMA CommandTaken ==
  ASSUME ConnInv, cmds # <<>>, cmds' = Tail(cmds)
  PROVE  \E kind, arg : Head(cmds) = <<kind, arg>> /\ TakesCommand(kind, arg)
  <1> USE DEF ConnInv
  <1>1. PICK s \in Seq(CommandType) : s = cmds
    BY DEF Shape
  <1>2. s # <<>> /\ cmds' = Tail(s) /\ Head(s) \in CommandType /\ Tail(s) \in Seq(CommandType)
    BY <1>1
  <1>3. PICK kind, arg : Head(s) = <<kind, arg>>
    BY <1>2 DEF CommandType
  <1>4. \A y : In(s, y) <=> y = Head(s) \/ In(Tail(s), y)
    BY <1>2, InTail
  <1>5. \A y : Once(s, y) => Once(Tail(s), y) /\ (Head(s) = y => ~In(Tail(s), y))
    BY <1>2, OnceTail
  <1>6. CommandsOnce'
    BY <1>1, <1>2, <1>5 DEF CommandsOnce
  <1>7. kind \in {"Accept", "Connect"} => ~Command(kind, arg)'
    <2>1. (kind = "Accept" => arg \in Ids) /\ (kind = "Connect" => arg \in Conns)
      BY <1>2, <1>3 DEF CommandType
    <2> QED BY <2>1, <1>1, <1>2, <1>3, <1>5 DEF CommandsOnce, Command
  <1>8. \A k, x : Command(k, x) <=> Command(k, x)' \/ (k = kind /\ x = arg)
    BY <1>1, <1>2, <1>3, <1>4 DEF Command
  <1>9. TakesCommand(kind, arg)
    BY <1>2, <1>3, <1>6, <1>7, <1>8 DEF TakesCommand
  <1> QED BY <1>1, <1>3, <1>9

\* Tasks are told something, and do nothing yet.
InboxesGrow ==
  /\ task' \in [Ids -> TaskType]
  /\ \A id \in Ids : /\ task'[id].phase = task[id].phase /\ task'[id].greeted = task[id].greeted
                     /\ task'[id].outbox = task[id].outbox
                     /\ \A m : In(task[id].inbox, m) => In(task'[id].inbox, m)

\* Tasks are told something.
LEMMA TellGrows ==
  ASSUME Shape, NEW ids \in SUBSET Ids, NEW m \in {"Disconnect", "Accepted", "Dropped"}, task' = Tell(ids, m)
  PROVE  InboxesGrow /\ \A id \in ids : In(task'[id].inbox, m)
  <1>1. ASSUME NEW id \in Ids
        PROVE  /\ task'[id] \in TaskType
               /\ task'[id].phase = task[id].phase /\ task'[id].greeted = task[id].greeted
               /\ task'[id].outbox = task[id].outbox
               /\ \A n : In(task[id].inbox, n) => In(task'[id].inbox, n)
               /\ id \in ids => In(task'[id].inbox, m)
    <2>1. task[id] \in TaskType
      BY DEF Shape
    <2>2. PICK in \in Inbox : in = task[id].inbox
      BY <2>1 DEF TaskType
    <2>3. Append(in, m) \in Inbox /\ \A n : In(Append(in, m), n) <=> In(in, n) \/ n = m
      BY InAppend DEF Inbox
    <2>4. task'[id] = IF id \in ids THEN [task[id] EXCEPT !.inbox = Append(in, m)] ELSE task[id]
      BY <2>2 DEF Tell
    <2>5. CASE id \in ids
      <3>1. /\ task'[id] \in TaskType /\ task'[id].inbox = Append(in, m)
            /\ task'[id].phase = task[id].phase /\ task'[id].greeted = task[id].greeted
            /\ task'[id].outbox = task[id].outbox
        BY <2>1, <2>3, <2>4, <2>5 DEF TaskType
      <3> QED BY <3>1, <2>2, <2>3
    <2>6. CASE id \notin ids
      BY <2>1, <2>4, <2>6
    <2> QED BY <2>5, <2>6
  <1>2. task' \in [Ids -> TaskType]
    BY <1>1 DEF Tell
  <1> QED BY <1>1, <1>2 DEF InboxesGrow

\* No task is told anything.
LEMMA SameTasksGrow ==
  ASSUME Shape, task' = task
  PROVE  InboxesGrow
  BY DEF Shape, InboxesGrow

\* The backend begins to dial.
LEMMA ConnectCommand ==
  ASSUME ConnInv, NEW c, TakesCommand("Connect", c),
         be' = [be EXCEPT !.peers[<<c, "out">>] = "dialing"],
         UNCHANGED <<task, failed, pm, events, address, ops, scenario>>
  PROVE  ConnInv'
  <1> USE DEF ConnInv
  <1> DEFINE o == <<c, "out">>
  <1>1. c \in Conns /\ o \in Ids /\ o[1] = c /\ o[2] = "out"
    BY Ends DEF TakesCommand, CommandType
  <1> HIDE DEF o
  <1>2. /\ task' = task /\ failed' = failed /\ pm' = pm /\ events' = events /\ address' = address
        /\ ops' = ops /\ scenario' = scenario
    OBVIOUS
  <1>3. /\ be' \in BackendType /\ be'.networking = be.networking /\ be'.peers[o] = "dialing"
        /\ \A x \in Ids : x # o => be'.peers[x] = be.peers[x]
    BY <1>1 DEF Shape, BackendType, Contexts, o
  <1>4. /\ cmds' \in Seq(CommandType) /\ CommandsOnce' /\ ~Command("Connect", c)' /\ Command("Connect", c)
        /\ \A k, x : Command(k, x) <=> Command(k, x)' \/ (k = "Connect" /\ x = c)
    BY DEF TakesCommand
  <1>5. Life(o) /\ New(o) /\ be.peers[o] = "none" /\ address[c] # NoAddr
    BY <1>1, <1>4 DEF Life, New, AddrOf
  <1>6. Shape'
    BY <1>2, <1>3, <1>4 DEF Shape, Connected
  <1>7. ASSUME NEW x \in Ids PROVE New(x)'
    <2>1. New(x)
      OBVIOUS
    <2> QED BY <2>1, <1>1, <1>2, <1>3, <1>4, <1>5 DEF New, AddrOf, Event
  <1>8. ASSUME NEW x \in Ids PROVE Life(x)'
    <2>1. Life(x)
      OBVIOUS
    <2>2. CASE x = o
      BY <2>2, <1>1, <1>2, <1>3, <1>4, <1>5 DEF Life, Told, Event
    <2>3. CASE x # o
      BY <2>1, <2>3, <1>2, <1>3, <1>4 DEF Life, Told, Event
    <2> QED BY <2>2, <2>3
  <1>9. EventsOnce' /\ OutboundOnce' /\ BannedLeave' /\ InboundLimited'
    BY <1>2 DEF EventsOnce, OutboundOnce, Ops, BannedLeave, InboundLimited, ActiveInbound, Connected, AddrOf, MaxInbound
  <1>10. Attempts'
    <2>1. ASSUME NEW x \in Ids PROVE Attempt(x)' <=> Attempt(x)
      <3>1. x[2] = "out" /\ x[1] = c => x = o
        BY Ends DEF o
      <3> QED BY <3>1, <1>1, <1>2, <1>3, <1>4 DEF Attempt, Event
    <2> QED BY <2>1, <1>2 DEF Attempts, AddrOf
  <1>11. Own'
    <2>1. (Quiet' <=> Quiet) /\ Ops' = Ops /\ ("network" \notin Ops => NeverOff')
      BY <1>2, <1>3, <1>4 DEF Own, Quiet, Ops, NeverOff
    <2>2. ASSUME NEW d \in Conns, Quiet, address[d] = Self PROVE OwnEnds(<<d, "out">>, <<d, "in">>)'
      <3>1. OwnEnds(<<d, "out">>, <<d, "in">>) /\ <<d, "out">> \in Ids /\ <<d, "in">> \in Ids /\ <<d, "in">> # o
        BY <2>2, Ends DEF Own, o
      <3>2. CASE d # c
        <4>1. <<d, "out">> # o
          BY <3>2 DEF o
        <4> QED BY <4>1, <3>1, <1>2, <1>3 DEF OwnEnds, Event
      <3>3. CASE d = c
        <4>1. <<d, "out">> = o
          BY <3>3 DEF o
        <4>2. ~task[o].greeted
          BY <1>5 DEF Life
        <4> QED BY <4>1, <4>2, <3>1, <1>2, <1>3, <1>5 DEF OwnEnds, Event
      <3> QED BY <3>2, <3>3
    <2> QED BY <2>1, <2>2, <1>2 DEF Own
  <1> QED BY <1>4, <1>6, <1>7, <1>8, <1>9, <1>10, <1>11

\* A command that is no Connect, after which at most one end has become an accepted peer.
LEMMA OtherCommand ==
  ASSUME ConnInv, NEW kind \in {"Accept", "Disconnect", "Networking"}, NEW arg, TakesCommand(kind, arg),
         InboxesGrow, be' \in BackendType, failed' = FALSE,
         "network" \notin Ops => be'.networking = be.networking,
         \A x \in Ids : \/ be'.peers[x] = be.peers[x]
                        \/ /\ kind = "Accept" /\ x = arg
                           /\ be.peers[x] = "peer" /\ be'.peers[x] = "accepted",
         kind = "Accept" /\ be.peers[arg] = "peer" => be'.peers[arg] = "accepted",
         kind = "Disconnect" /\ be.peers[arg] \in {"peer", "accepted"} => In(task'[arg].inbox, "Disconnect"),
         UNCHANGED <<pm, events, address, ops, scenario>>
  PROVE  ConnInv'
  <1> USE DEF ConnInv
  <1>1. pm' = pm /\ events' = events /\ address' = address /\ ops' = ops /\ scenario' = scenario
    OBVIOUS
  <1>2. /\ cmds' \in Seq(CommandType) /\ CommandsOnce' /\ Command(kind, arg)
        /\ kind = "Accept" => ~Command(kind, arg)'
        /\ \A k, x : Command(k, x) <=> Command(k, x)' \/ (k = kind /\ x = arg)
    BY DEF TakesCommand
  <1>3. Shape'
    BY <1>1, <1>2 DEF Shape, Connected, InboxesGrow
  <1>4. ASSUME NEW x \in Ids PROVE New(x)'
    <2>1. New(x) /\ x[1] \in Conns
      BY Ends
    <2> QED BY <2>1, <1>1, <1>2 DEF New, AddrOf, Event, InboxesGrow
  <1>5. ASSUME NEW x \in Ids PROVE Life(x)'
    <2>1. Life(x)
      OBVIOUS
    <2>2. be'.peers[x] \in {"peer", "accepted"} => (Told(x) => Told(x)')
      BY <1>2 DEF Told, InboxesGrow
    <2>3. CASE be'.peers[x] = be.peers[x]
      BY <2>1, <2>2, <2>3, <1>1, <1>2 DEF Life, Event, InboxesGrow
    <2>4. CASE be'.peers[x] # be.peers[x]
      <3>1. kind = "Accept" /\ x = arg /\ be.peers[x] = "peer" /\ be'.peers[x] = "accepted"
        BY <2>4
      <3> QED BY <2>1, <2>2, <3>1, <1>1, <1>2 DEF Life, Event, InboxesGrow
    <2> QED BY <2>3, <2>4
  <1>6. EventsOnce' /\ OutboundOnce' /\ BannedLeave' /\ InboundLimited'
    BY <1>1 DEF EventsOnce, OutboundOnce, Ops, BannedLeave, InboundLimited, ActiveInbound, Connected, AddrOf, MaxInbound
  <1>7. Attempts'
    <2>1. ASSUME NEW x \in Ids PROVE Attempt(x)' <=> Attempt(x)
      BY <1>1, <1>2 DEF Attempt, Event
    <2> QED BY <2>1, <1>1 DEF Attempts, AddrOf
  <1>8. Own'
    <2>1. (Quiet' <=> Quiet) /\ Ops' = Ops
      BY <1>1 DEF Quiet, Ops
    <2>2. "network" \notin Ops => NeverOff'
      BY <1>2 DEF Own, NeverOff
    <2>3. ASSUME NEW d \in Conns, Quiet, address[d] = Self PROVE OwnEnds(<<d, "out">>, <<d, "in">>)'
      <3>1. OwnEnds(<<d, "out">>, <<d, "in">>) /\ <<d, "out">> \in Ids /\ <<d, "in">> \in Ids
        BY <2>3, Ends DEF Own
      <3>2. be'.peers[<<d, "out">>] = be.peers[<<d, "out">>] /\ be'.peers[<<d, "in">>] = be.peers[<<d, "in">>]
        BY <3>1 DEF OwnEnds
      <3> QED BY <3>1, <3>2, <1>1 DEF OwnEnds, Event, InboxesGrow
    <2> QED BY <2>1, <2>2, <2>3, <1>1 DEF Own
  <1> QED BY <1>2, <1>3, <1>4, <1>5, <1>6, <1>7, <1>8

\* The backend handles a command.
LEMMA HandleCommandStep ==
  ASSUME ConnInv, HandleCommand, UNCHANGED scenario
  PROVE  ConnInv'
  <1> USE DEF ConnInv
  <1>1. PICK kind, arg : Head(cmds) = <<kind, arg>> /\ TakesCommand(kind, arg)
    BY CommandTaken DEF HandleCommand
  <1>2. /\ kind \in {"Connect", "Accept", "Disconnect", "Networking"} /\ Command(kind, arg)
        /\ kind \in {"Accept", "Disconnect"} => arg \in Ids
        /\ kind = "Networking" => arg \in BOOLEAN
    BY <1>1 DEF TakesCommand, CommandType
  <1>3. UNCHANGED <<pm, events, address, ops>> /\ be \in BackendType /\ failed = FALSE /\ Shape
    BY DEF HandleCommand, Shape
  <1>4. /\ kind = "Connect" => /\ be' = [be EXCEPT !.peers[<<arg, "out">>] = "dialing"]
                               /\ UNCHANGED <<task, failed>>
        /\ kind = "Accept" =>
             /\ be' = IF be.peers[arg] = "peer" THEN [be EXCEPT !.peers[arg] = "accepted"] ELSE be
             /\ task' = IF be.peers[arg] = "peer" THEN Tell({arg}, "Accepted") ELSE task
             /\ failed' = (be.peers[arg] = "accepted")
        /\ kind = "Disconnect" => task' = DisconnectPeer(arg) /\ UNCHANGED <<be, failed>>
        /\ kind = "Networking" =>
             /\ be' = [be EXCEPT !.networking = arg]
             /\ task' = IF be.networking /\ ~arg THEN Tell(Held, "Disconnect") ELSE task
             /\ UNCHANGED failed
    <2>1. Head(cmds)[1] = kind /\ Head(cmds)[2] = arg
      BY <1>1
    <2> QED BY <1>2, <2>1 DEF HandleCommand
  <1>5. CASE kind = "Connect"
    BY <1>1, <1>3, <1>4, <1>5, ConnectCommand
  <1>6. CASE kind = "Accept"
    <2>1. Life(arg) /\ be.peers[arg] # "accepted"
      BY <1>2, <1>6 DEF Life
    <2>2. CASE be.peers[arg] = "peer"
      <3>1. be' = [be EXCEPT !.peers[arg] = "accepted"] /\ task' = Tell({arg}, "Accepted") /\ failed' = FALSE
        BY <1>4, <1>6, <2>2
      <3>2. InboxesGrow
        BY <3>1, <1>2, <1>3, <1>6, TellGrows
      <3>3. /\ be' \in BackendType /\ be'.networking = be.networking /\ be'.peers[arg] = "accepted"
            /\ \A x \in Ids : x # arg => be'.peers[x] = be.peers[x]
        BY <3>1, <1>2, <1>3, <1>6 DEF BackendType, Contexts
      <3> QED BY <3>1, <3>2, <3>3, <2>2, <1>1, <1>3, <1>6, OtherCommand
    <2>3. CASE be.peers[arg] # "peer"
      <3>1. be' = be /\ task' = task /\ failed' = FALSE
        BY <1>4, <1>6, <2>1, <2>3
      <3>2. InboxesGrow
        BY <3>1, <1>3, SameTasksGrow
      <3> QED BY <3>1, <3>2, <2>3, <1>1, <1>3, <1>6, OtherCommand
    <2> QED BY <2>2, <2>3
  <1>7. CASE kind = "Disconnect"
    <2>1. be' = be /\ failed' = FALSE
      BY <1>3, <1>4, <1>7
    <2>2. InboxesGrow /\ (be.peers[arg] \in {"peer", "accepted"} => In(task'[arg].inbox, "Disconnect"))
      <3>1. CASE be.peers[arg] \in {"peer", "accepted"}
        <4>1. task' = Tell({arg}, "Disconnect")
          BY <1>4, <1>7, <3>1 DEF DisconnectPeer
        <4> QED BY <4>1, <1>2, <1>3, <1>7, TellGrows
      <3>2. CASE be.peers[arg] \notin {"peer", "accepted"}
        <4>1. task' = task
          BY <1>4, <1>7, <3>2 DEF DisconnectPeer
        <4> QED BY <4>1, <1>3, <3>2, SameTasksGrow
      <3> QED BY <3>1, <3>2
    <2> QED BY <2>1, <2>2, <1>1, <1>3, <1>7, OtherCommand
  <1>8. CASE kind = "Networking"
    <2>1. "network" \in Ops
      BY <1>2, <1>8 DEF Own, NeverOff
    <2>2. /\ be' \in BackendType /\ failed' = FALSE /\ \A x \in Ids : be'.peers[x] = be.peers[x]
      BY <1>2, <1>3, <1>4, <1>8 DEF BackendType
    <2>3. InboxesGrow
      <3>1. CASE task' = task
        BY <3>1, <1>3, SameTasksGrow
      <3>2. CASE task' = Tell(Held, "Disconnect")
        BY <3>2, <1>3, TellGrows DEF Held
      <3> QED BY <3>1, <3>2, <1>4, <1>8
    <2> QED BY <2>1, <2>2, <2>3, <1>1, <1>3, <1>8, OtherCommand
  <1> QED BY <1>2, <1>5, <1>6, <1>7, <1>8

\* An event is added to the queue, if any.
LEMMA EventAdded ==
  ASSUME ConnInv, NEW kind \in {"Accepted", "Closed", "Error", "Misbehaved", "BadHandshake"},
         NEW id \in Ids, events' = Append(events, <<kind, id>>),
         kind \in {"Accepted", "Closed", "Error"} => ~Event(kind, id),
         kind = "Accepted" => ~Event("Closed", id)
  PROVE  /\ events' \in Seq(EventType) /\ EventsOnce'
         /\ \A k, x : Event(k, x)' <=> Event(k, x) \/ (k = kind /\ x = id)
  <1> USE DEF ConnInv
  <1>1. PICK y \in EventType : y = <<kind, id>>
    BY DEF EventType
  <1>2. events \in Seq(EventType) /\ events' = Append(events, y)
    BY <1>1 DEF Shape
  <1>3. \A z : In(Append(events, y), z) <=> In(events, z) \/ z = y
    BY <1>2, InAppend
  <1>4. \A z : Once(events, z) /\ (z = y => ~In(events, z)) => Once(Append(events, y), z)
    BY <1>2, OnceAppend
  <1>5. \A z, w : z # w /\ Before(events, z, w) /\ (z = y => ~In(events, w)) => Before(Append(events, y), z, w)
    BY <1>2, BeforeAppend
  <1>6. \A x \in Ids : /\ \A k \in {"Accepted", "Closed", "Error"} :
                            <<k, x>> = y => ~In(events, <<k, x>>)
                       /\ <<"Accepted", x>> = y => ~In(events, <<"Closed", x>>)
                       /\ <<"Accepted", x>> # <<"Closed", x>>
    BY <1>1 DEF Event
  <1>7. \A x \in Ids : /\ Once(events, <<"Accepted", x>>) /\ Once(events, <<"Closed", x>>)
                       /\ Once(events, <<"Error", x>>)
                       /\ Before(events, <<"Accepted", x>>, <<"Closed", x>>)
    BY DEF EventsOnce
  <1>8. \A x \in Ids : /\ Once(events', <<"Accepted", x>>) /\ Once(events', <<"Closed", x>>)
                       /\ Once(events', <<"Error", x>>)
    BY <1>2, <1>4, <1>6, <1>7
  <1>9. \A x \in Ids : Before(events', <<"Accepted", x>>, <<"Closed", x>>)
    BY <1>2, <1>5, <1>6, <1>7
  <1>10. EventsOnce'
    BY <1>8, <1>9 DEF EventsOnce
  <1>11. \A k, x : Event(k, x)' <=> Event(k, x) \/ (k = kind /\ x = id)
    BY <1>1, <1>2, <1>3 DEF Event
  <1> QED BY <1>2, <1>10, <1>11

\* Dialing has ended.
LEMMA HandleConnectResStep ==
  ASSUME ConnInv, NEW c \in Conns, NEW succeeded \in BOOLEAN, HandleConnectRes(c, succeeded),
         UNCHANGED scenario
  PROVE  ConnInv'
  <1> USE DEF ConnInv
  <1> DEFINE o == <<c, "out">>
             i == <<c, "in">>
  <1>1. o \in Ids /\ i \in Ids /\ o # i /\ o[1] = c /\ o[2] = "out" /\ AddrOf(o) = address[c]
    BY Ends DEF AddrOf
  <1>2. /\ pm' = pm /\ cmds' = cmds /\ address' = address /\ ops' = ops /\ failed' = failed
        /\ scenario' = scenario
    BY DEF HandleConnectRes
  <1>3. /\ be \in BackendType /\ task \in [Ids -> TaskType] /\ be.peers[o] = "dialing"
        /\ be' = [be EXCEPT !.peers[o] = IF succeeded THEN "pending" ELSE "gone"]
        /\ task' = [task EXCEPT ![o].phase = IF succeeded THEN "hello" ELSE "refused",
                                ![o].greeted = succeeded]
        /\ events' = IF succeeded THEN events ELSE Append(events, <<"Error", o>>)
    BY DEF HandleConnectRes, Shape
  <1> HIDE DEF o, i
  <1>4. /\ be' \in BackendType /\ be'.networking = be.networking
        /\ be'.peers[o] = (IF succeeded THEN "pending" ELSE "gone")
        /\ \A x \in Ids : x # o => be'.peers[x] = be.peers[x]
    BY <1>1, <1>3 DEF BackendType, Contexts
  <1>5. /\ task' \in [Ids -> TaskType]
        /\ task'[o].phase = (IF succeeded THEN "hello" ELSE "refused") /\ task'[o].greeted = succeeded
        /\ task'[o].inbox = task[o].inbox /\ task'[o].outbox = task[o].outbox
        /\ \A x \in Ids : x # o => task'[x] = task[x]
    BY <1>1, <1>3 DEF TaskType, Phases
  <1>6. /\ Life(o) /\ task[o].phase \in {"none", "refused"} /\ ~task[o].greeted /\ task[o].outbox = <<>>
        /\ pm.peers[o] = "none" /\ ~Command("Accept", o) /\ ~Command("Connect", c)
        /\ ~Event("Accepted", o) /\ ~Event("Closed", o) /\ ~Event("Error", o)
    BY <1>1, <1>3 DEF Life
  <1>7. /\ events' \in Seq(EventType) /\ EventsOnce'
        /\ \A k, x : Event(k, x)' <=> Event(k, x) \/ (~succeeded /\ k = "Error" /\ x = o)
    <2>1. CASE succeeded
      BY <2>1, <1>3 DEF Shape, EventsOnce, Event
    <2>2. CASE ~succeeded
      <3>1. events' = Append(events, <<"Error", o>>)
        BY <2>2, <1>3
      <3> QED BY <3>1, <2>2, <1>1, <1>6, EventAdded
    <2> QED BY <2>1, <2>2
  <1>8. address[c] # NoAddr
    <2>1. AddrOf(o) # NoAddr
      BY <1>1, <1>3, NothingYet
    <2> QED BY <2>1, <1>1
  <1>9. Shape'
    BY <1>2, <1>4, <1>5, <1>7 DEF Shape, Connected
  <1>10. ASSUME NEW x \in Ids PROVE New(x)'
    <2>1. New(x) /\ AddrOf(x)' = AddrOf(x)
      BY <1>2 DEF AddrOf
    <2>2. CASE x = o
      BY <2>1, <2>2, <1>1, <1>8 DEF New
    <2>3. CASE x # o
      BY <2>1, <2>3, <1>2, <1>4, <1>5, <1>7 DEF New, Command
    <2> QED BY <2>2, <2>3
  <1>11. ASSUME NEW x \in Ids PROVE Life(x)'
    <2>1. CASE x = o
      <3>1. ~In(task'[o].outbox, "Closed")
        BY <1>5, <1>6, InShort
      <3> QED BY <2>1, <3>1, <1>1, <1>2, <1>4, <1>5, <1>6, <1>7 DEF Life, Told, Command
    <2>2. CASE x # o
      <3>1. Life(x)
        OBVIOUS
      <3> QED BY <2>2, <3>1, <1>2, <1>4, <1>5, <1>7 DEF Life, Told, Command
    <2> QED BY <2>1, <2>2
  <1>12. CommandsOnce' /\ OutboundOnce' /\ BannedLeave' /\ InboundLimited'
    BY <1>2 DEF CommandsOnce, OutboundOnce, Ops, BannedLeave, InboundLimited, ActiveInbound, Connected, AddrOf, MaxInbound
  <1>13. Attempts'
    <2>1. ASSUME NEW x \in Ids PROVE Attempt(x)' <=> Attempt(x)
      BY <1>1, <1>2, <1>3, <1>4, <1>7 DEF Attempt, Command
    <2> QED BY <2>1, <1>2 DEF Attempts, AddrOf
  <1>14. Own'
    <2>1. (Quiet' <=> Quiet) /\ Ops' = Ops /\ ("network" \notin Ops => NeverOff')
      BY <1>2, <1>4 DEF Own, Quiet, Ops, NeverOff, Command
    <2>2. ASSUME NEW d \in Conns, Quiet, address[d] = Self PROVE OwnEnds(<<d, "out">>, <<d, "in">>)'
      <3>1. OwnEnds(<<d, "out">>, <<d, "in">>) /\ <<d, "out">> \in Ids /\ <<d, "in">> \in Ids
        BY <2>2, Ends DEF Own
      <3>2. CASE d # c
        <4>1. <<d, "out">> # o /\ <<d, "in">> # o
          BY <3>2 DEF o
        <4> QED BY <4>1, <3>1, <1>2, <1>4, <1>5, <1>7 DEF OwnEnds
      <3>3. CASE d = c
        <4>1. <<d, "out">> = o /\ <<d, "in">> = i
          BY <3>3 DEF o, i
        <4>2. OwnEnds(o, i) /\ be.peers[o] = "dialing" /\ ~task[o].greeted
          BY <4>1, <3>1, <1>3, <1>6
        <4>3. /\ be'.peers[i] = be.peers[i] /\ task'[i] = task[i] /\ pm' = pm
              /\ ~Event("Accepted", o)' /\ ~Event("Accepted", i)'
          BY <4>2, <1>1, <1>2, <1>4, <1>5, <1>7 DEF OwnEnds
        <4>4. CASE succeeded
          <5>1. /\ be'.peers[o] = "pending" /\ task'[o].phase = "hello" /\ task'[o].greeted
                /\ task'[o].outbox = <<>>
            BY <4>4, <1>4, <1>5, <1>6
          <5>2. OwnEnds(o, i)'
            BY <4>2, <4>3, <5>1 DEF OwnEnds
          <5> QED BY <4>1, <5>2
        <4>5. CASE ~succeeded
          <5>1. be'.peers[o] = "gone" /\ task'[o].phase = "refused" /\ ~task'[o].greeted
            BY <4>5, <1>4, <1>5, <1>6
          <5>2. OwnEnds(o, i)'
            BY <4>2, <4>3, <5>1 DEF OwnEnds
          <5> QED BY <4>1, <5>2
        <4> QED BY <4>4, <4>5
      <3> QED BY <3>2, <3>3
    <2> QED BY <2>1, <2>2, <1>2 DEF Own
  <1> QED BY <1>7, <1>9, <1>10, <1>11, <1>12, <1>13, <1>14

\* A connection comes in.
LEMMA AcceptSocketStep ==
  ASSUME ConnInv, NEW id \in Ids, NEW a \in Addrs, AcceptSocket(id, a), UNCHANGED scenario
  PROVE  ConnInv'
  <1> USE DEF ConnInv
  <1>1. /\ pm' = pm /\ cmds' = cmds /\ events' = events /\ ops' = ops /\ failed' = failed
        /\ scenario' = scenario
    BY DEF AcceptSocket
  <1>2. PICK c \in Conns : c = id[1] /\ id = <<c, "in">> /\ Other(id) = <<c, "out">> /\ <<c, "out">> \in Ids
    BY Ends DEF AcceptSocket
  <1>3. /\ id[2] = "in" /\ task[id].phase = "none" /\ be \in BackendType /\ task \in [Ids -> TaskType]
        /\ address' = [address EXCEPT ![c] = a]
        /\ be' = IF be.networking THEN [be EXCEPT !.peers[id] = "pending"] ELSE be
        /\ task' = [task EXCEPT ![id].phase = IF be.networking THEN "hello" ELSE "refused"]
    BY <1>2 DEF AcceptSocket, Shape
  <1>4. address[c] = a \/ (address[c] = NoAddr /\ a # Self)
    <2>1. CASE a = Self
      BY <2>1, <1>2 DEF AcceptSocket
    <2>2. CASE a # Self
      <3>1. FreshConns # {} /\ c = Fresh
        BY <2>2, <1>2 DEF AcceptSocket
      <3> QED BY <2>2, <3>1 DEF Fresh, FreshConns
    <2> QED BY <2>1, <2>2
  <1>5. /\ address' \in [Conns -> Addrs \cup {NoAddr}] /\ address'[c] = a /\ a # NoAddr
        /\ \A d \in Conns : d # c => address'[d] = address[d]
    BY <1>3, ConnectionsAssumption DEF Shape, Addrs
  <1>6. /\ be' \in BackendType /\ be'.networking = be.networking
        /\ be'.peers[id] = (IF be.networking THEN "pending" ELSE be.peers[id])
        /\ \A x \in Ids : x # id => be'.peers[x] = be.peers[x]
    BY <1>3 DEF BackendType, Contexts
  <1>7. /\ task' \in [Ids -> TaskType]
        /\ task'[id].phase = (IF be.networking THEN "hello" ELSE "refused")
        /\ task'[id].greeted = task[id].greeted
        /\ task'[id].inbox = task[id].inbox /\ task'[id].outbox = task[id].outbox
        /\ \A x \in Ids : x # id => task'[x] = task[x]
    BY <1>3 DEF TaskType, Phases
  <1>8. /\ Life(id) /\ ~task[id].greeted /\ task[id].outbox = <<>> /\ be.peers[id] = "none"
        /\ pm.peers[id] = "none" /\ ~Command("Accept", id)
        /\ ~Event("Accepted", id) /\ ~Event("Closed", id) /\ ~Event("Error", id)
    BY <1>3 DEF Life
  <1>9. ASSUME NEW x \in Ids, AddrOf(x)' # AddrOf(x) PROVE AddrOf(x) = NoAddr /\ x[1] = c
    BY <1>2, <1>4, <1>5, <1>9, Ends DEF AddrOf
  <1>10. Shape'
    BY <1>1, <1>5, <1>6, <1>7 DEF Shape, Connected
  <1>11. ASSUME NEW x \in Ids PROVE New(x)'
    <2>1. New(x) /\ x[1] \in Conns
      BY Ends
    <2>2. CASE x[1] = c
      BY <2>2, <1>5 DEF New, AddrOf
    <2>3. CASE x[1] # c
      BY <2>1, <2>3, <1>1, <1>2, <1>5, <1>6, <1>7 DEF New, AddrOf, Command, Event
    <2> QED BY <2>2, <2>3
  <1>12. ASSUME NEW x \in Ids PROVE Life(x)'
    <2>1. CASE x = id
      <3>1. ~In(task'[id].outbox, "Closed")
        BY <1>7, <1>8, InShort
      <3>2. \/ be'.peers[id] = "pending" /\ task'[id].phase = "hello"
            \/ be'.peers[id] = "none" /\ task'[id].phase = "refused"
        BY <1>6, <1>7, <1>8
      <3>3. task'[id].outbox = <<>> /\ ~task'[id].greeted /\ id[2] = "in" /\ pm'.peers[id] = "none"
        BY <1>1, <1>3, <1>7, <1>8
      <3>4. \A k : (Event(k, id)' <=> Event(k, id)) /\ (Command(k, id)' <=> Command(k, id))
        BY <1>1 DEF Event, Command
      <3> QED BY <2>1, <3>1, <3>2, <3>3, <3>4, <1>8 DEF Life
    <2>2. CASE x # id
      <3>1. Life(x)
        OBVIOUS
      <3> QED BY <2>2, <3>1, <1>1, <1>6, <1>7 DEF Life, Told, Command, Event
    <2> QED BY <2>1, <2>2
  <1>13. EventsOnce' /\ CommandsOnce' /\ InboundLimited'
    BY <1>1 DEF EventsOnce, CommandsOnce, InboundLimited, ActiveInbound, Connected, MaxInbound
  <1>14. Connected(pm)' = Connected(pm) /\ \A x \in Connected(pm) : x \in Ids /\ AddrOf(x)' = AddrOf(x)
    BY <1>1, <1>9, NothingYet DEF Connected
  <1>15. OutboundOnce' /\ BannedLeave'
    BY <1>1, <1>14 DEF OutboundOnce, Ops, BannedLeave
  <1>16. Attempts'
    <2>1. \A x \in Ids : Attempt(x)' <=> Attempt(x)
      BY <1>1, <1>3, <1>6 DEF Attempt, Command, Event
    <2>2. \A x \in Ids : Attempt(x) => AddrOf(x)' = AddrOf(x)
      BY <1>9, NothingYet
    <2> QED BY <2>1, <2>2, <1>1 DEF Attempts
  <1>17. Own'
    <2>1. (Quiet' <=> Quiet) /\ Ops' = Ops /\ ("network" \notin Ops => NeverOff')
      BY <1>1, <1>6 DEF Own, Quiet, Ops, NeverOff, Command
    <2>2. ASSUME NEW d \in Conns, Quiet, address'[d] = Self PROVE OwnEnds(<<d, "out">>, <<d, "in">>)'
      <3>1. <<d, "out">> \in Ids /\ <<d, "in">> \in Ids /\ <<d, "out">> # id
        BY Ends, <1>2
      <3>2. address[d] = Self
        BY <2>2, <1>4, <1>5
      <3>3. OwnEnds(<<d, "out">>, <<d, "in">>) /\ be.networking
        BY <2>2, <3>2 DEF Own, Quiet, NeverOff
      <3>4. CASE d # c
        <4>1. <<d, "in">> # id
          BY <3>4, <1>2
        <4> QED BY <4>1, <3>1, <3>3, <1>1, <1>6, <1>7 DEF OwnEnds, Event
      <3>5. CASE d = c
        <4>1. <<d, "in">> = id
          BY <3>5, <1>2
        <4> QED BY <4>1, <3>1, <3>3, <1>1, <1>3, <1>6, <1>7, <1>8, InShort DEF OwnEnds, Event
      <3> QED BY <3>4, <3>5
    <2> QED BY <2>1, <2>2 DEF Own
  <1> QED BY <1>10, <1>11, <1>12, <1>13, <1>15, <1>16, <1>17

\* A task has sent something to the backend.
Speaks(id, kind, out) ==
  /\ kind \in {"Info", "Sync", "Misbehaved", "BadHandshake", "Closed"} /\ out \in Outbox
  /\ In(task[id].outbox, kind)
  /\ \A m : In(out, m) => In(task[id].outbox, m)
  /\ task[id].outbox # <<>>
  /\ task[id].outbox = <<"Info", "Sync">> => kind = "Info"
  /\ task[id].phase \notin {"none", "refused", "hello"}
  /\ be.peers[id] \in {"pending", "peer", "accepted", "gone"}
  /\ AddrOf(id) # NoAddr

\* What the first message of a task to the backend says.
LEMMA Spoken ==
  ASSUME ConnInv, NEW id \in Ids, task[id].outbox # <<>>
  PROVE  Speaks(id, Head(task[id].outbox), Tail(task[id].outbox))
  <1> DEFINE M == {"Info", "Sync", "Misbehaved", "BadHandshake", "Closed"}
  <1>1. PICK s \in Seq(M) : s = task[id].outbox
    BY Parts DEF ConnInv, Outbox
  <1>2. s # <<>>
    BY <1>1
  <1>3. /\ Head(s) \in M /\ Tail(s) \in Seq(M)
        /\ \A m : In(s, m) <=> m = Head(s) \/ In(Tail(s), m)
    BY <1>2, InTail
  <1>4. s = <<"Info", "Sync">> => Head(s) = "Info"
    OBVIOUS
  <1>5. Life(id) /\ be.peers[id] \in Contexts
    BY Parts DEF ConnInv
  <1>6. AddrOf(id) # NoAddr
    BY <1>1, <1>2, NothingYet
  <1> QED BY <1>1, <1>2, <1>3, <1>4, <1>5, <1>6 DEF Speaks, Life, Contexts, Outbox

\* What is sent is taken, and leaves the backend's peers as they are.
LEMMA HeardStep ==
  ASSUME ConnInv, NEW id \in Ids, NEW kind, NEW out, Speaks(id, kind, out),
         NEW now \in TaskType, task' = [task EXCEPT ![id] = now],
         now.outbox = out, now.greeted = task[id].greeted, now.inbox = task[id].inbox,
         \/ now.phase = task[id].phase
         \/ task[id].phase = "sync" /\ now.phase = "ack",
         ~(kind = "Info" /\ be.networking /\ be.peers[id] = "pending"),
         \/ events' = events
         \/ \E k \in {"Misbehaved", "BadHandshake"} : events' = Append(events, <<k, id>>),
         UNCHANGED <<be, pm, cmds, address, ops, failed, scenario>>
  PROVE  ConnInv'
  <1> USE DEF ConnInv
  <1>1. /\ be' = be /\ pm' = pm /\ cmds' = cmds /\ address' = address /\ ops' = ops /\ failed' = failed
        /\ scenario' = scenario
    OBVIOUS
  <1>2. /\ task' \in [Ids -> TaskType] /\ task'[id] = now
        /\ \A x \in Ids : x # id => task'[x] = task[x]
    BY DEF Shape
  <1>3. /\ events' \in Seq(EventType) /\ EventsOnce'
        /\ \A k \in {"Accepted", "Closed", "Error"}, x \in Ids : Event(k, x)' <=> Event(k, x)
        /\ \A k, x : Event(k, x)' => Event(k, x) \/ x = id
    <2>1. CASE events' = events
      BY <2>1 DEF Shape, EventsOnce, Event
    <2>2. CASE \E k \in {"Misbehaved", "BadHandshake"} : events' = Append(events, <<k, id>>)
      <3>1. PICK k \in {"Misbehaved", "BadHandshake"} : events' = Append(events, <<k, id>>)
        BY <2>2
      <3> QED BY <3>1, EventAdded
    <2> QED BY <2>1, <2>2
  <1>4. Shape'
    BY <1>1, <1>2, <1>3 DEF Shape, Connected
  <1>5. ASSUME NEW x \in Ids PROVE New(x)'
    <2>1. New(x) /\ AddrOf(x)' = AddrOf(x)
      BY <1>1 DEF AddrOf
    <2>2. CASE x = id
      BY <2>1, <2>2 DEF New, Speaks
    <2>3. CASE x # id
      BY <2>1, <2>3, <1>1, <1>2, <1>3 DEF New, Command
    <2> QED BY <2>2, <2>3
  <1>6. ASSUME NEW x \in Ids PROVE Life(x)'
    <2>1. Life(x)
      OBVIOUS
    <2>2. CASE x = id
      BY <2>1, <2>2, <1>1, <1>2, <1>3 DEF Life, Told, Command, Speaks
    <2>3. CASE x # id
      BY <2>1, <2>3, <1>1, <1>2, <1>3 DEF Life, Told, Command
    <2> QED BY <2>2, <2>3
  <1>7. CommandsOnce' /\ OutboundOnce' /\ BannedLeave' /\ InboundLimited'
    BY <1>1 DEF CommandsOnce, OutboundOnce, Ops, BannedLeave, InboundLimited, ActiveInbound, Connected, AddrOf, MaxInbound
  <1>8. Attempts'
    <2>1. ASSUME NEW x \in Ids PROVE Attempt(x)' <=> Attempt(x)
      BY <1>1, <1>3 DEF Attempt, Command
    <2> QED BY <2>1, <1>1 DEF Attempts, AddrOf
  <1>9. Own'
    <2>1. (Quiet' <=> Quiet) /\ Ops' = Ops /\ ("network" \notin Ops => NeverOff')
      BY <1>1 DEF Own, Quiet, Ops, NeverOff, Command
    <2>2. ASSUME NEW d \in Conns, Quiet, address[d] = Self PROVE OwnEnds(<<d, "out">>, <<d, "in">>)'
      <3> DEFINE o == <<d, "out">>
                 i == <<d, "in">>
      <3>1. OwnEnds(o, i) /\ o \in Ids /\ i \in Ids /\ o # i /\ be.networking
        BY <2>2, Ends DEF Own, NeverOff, Quiet
      <3> HIDE DEF o, i
      <3>2. CASE id # o /\ id # i
        <4>1. OwnEnds(o, i)'
          BY <3>1, <3>2, <1>1, <1>2, <1>3 DEF OwnEnds
        <4> QED BY <4>1 DEF o, i
      <3>3. CASE id = o
        <4>1. be.peers[o] # "pending" /\ task[o].greeted
          BY <3>1, <3>3 DEF OwnEnds, Speaks
        <4>2. OwnEnds(o, i)'
          BY <3>1, <3>3, <4>1, <1>1, <1>2, <1>3 DEF OwnEnds
        <4> QED BY <4>2 DEF o, i
      <3>4. CASE id = i
        <4>1. be.peers[o] # "pending"
          BY <3>1, <3>4 DEF OwnEnds, Speaks
        <4>2. ~task[o].greeted => now.phase = "done" /\ ~In(now.outbox, "Info")
          BY <3>1, <3>4 DEF OwnEnds, Speaks
        <4>3. OwnEnds(o, i)'
          BY <3>1, <3>4, <4>1, <4>2, <1>1, <1>2, <1>3 DEF OwnEnds
        <4> QED BY <4>3 DEF o, i
      <3> QED BY <3>2, <3>3, <3>4
    <2> QED BY <2>1, <2>2, <1>1 DEF Own
  <1> QED BY <1>3, <1>4, <1>5, <1>6, <1>7, <1>8, <1>9

\* A peer is created: the handshake of the node with another one is done.
LEMMA CreatedStep ==
  ASSUME ConnInv, NEW id \in Ids, NEW out, Speaks(id, "Info", out), be.peers[id] = "pending",
         ~(id[2] = "in" /\ AddrOf(id) = Self /\ be.peers[Other(id)] = "pending"),
         NEW now \in TaskType, task' = [task EXCEPT ![id] = now],
         now.outbox = out, now.greeted = task[id].greeted, now.inbox = task[id].inbox,
         now.phase = task[id].phase,
         be' = [be EXCEPT !.peers[id] = "peer"], events' = Append(events, <<"Accepted", id>>),
         UNCHANGED <<pm, cmds, address, ops, failed, scenario>>
  PROVE  ConnInv'
  <1> USE DEF ConnInv
  <1>1. pm' = pm /\ cmds' = cmds /\ address' = address /\ ops' = ops /\ failed' = failed /\ scenario' = scenario
    OBVIOUS
  <1>2. /\ task' \in [Ids -> TaskType] /\ task'[id] = now
        /\ \A x \in Ids : x # id => task'[x] = task[x]
    BY DEF Shape
  <1>3. /\ be' \in BackendType /\ be'.networking = be.networking /\ be'.peers[id] = "peer"
        /\ \A x \in Ids : x # id => be'.peers[x] = be.peers[x]
    BY DEF Shape, BackendType, Contexts
  <1>4. /\ Life(id) /\ pm.peers[id] = "none" /\ ~Command("Accept", id)
        /\ ~Event("Accepted", id) /\ ~Event("Closed", id) /\ ~Event("Error", id)
        /\ id[2] = "out" => ~Command("Connect", id[1])
    BY DEF Life
  <1>5. /\ events' \in Seq(EventType) /\ EventsOnce'
        /\ \A k, x : Event(k, x)' <=> Event(k, x) \/ (k = "Accepted" /\ x = id)
    BY <1>4, EventAdded
  <1>6. Quiet => AddrOf(id) # Self
    <2> SUFFICES ASSUME Quiet, AddrOf(id) = Self PROVE FALSE
      OBVIOUS
    <2>1. \/ id = <<id[1], "out">> /\ id[2] = "out"
          \/ id = <<id[1], "in">> /\ id[2] = "in" /\ Other(id) = <<id[1], "out">>
      BY Ends
    <2>2. OwnEnds(<<id[1], "out">>, <<id[1], "in">>)
      BY Ends DEF Own, AddrOf
    <2>3. CASE id = <<id[1], "out">> /\ id[2] = "out"
      BY <2>2, <2>3 DEF OwnEnds, Speaks
    <2>4. CASE id = <<id[1], "in">> /\ id[2] = "in" /\ Other(id) = <<id[1], "out">>
      BY <2>2, <2>4 DEF OwnEnds, Speaks
    <2> QED BY <2>1, <2>3, <2>4
  <1>7. Shape'
    BY <1>1, <1>2, <1>3, <1>5 DEF Shape, Connected
  <1>8. ASSUME NEW x \in Ids PROVE New(x)'
    <2>1. New(x) /\ AddrOf(x)' = AddrOf(x)
      BY <1>1 DEF AddrOf
    <2>2. CASE x = id
      BY <2>1, <2>2 DEF New, Speaks
    <2>3. CASE x # id
      BY <2>1, <2>3, <1>1, <1>2, <1>3, <1>5 DEF New, Command
    <2> QED BY <2>2, <2>3
  <1>9. ASSUME NEW x \in Ids PROVE Life(x)'
    <2>1. Life(x)
      OBVIOUS
    <2>2. CASE x = id
      <3>1. /\ Event("Accepted", id)' /\ ~Event("Closed", id)' /\ ~Event("Error", id)'
            /\ ~Command("Accept", id)' /\ pm'.peers[id] = "none"
            /\ id[2] = "out" => ~Command("Connect", id[1])'
        BY <1>1, <1>4, <1>5 DEF Command
      <3>2. /\ task'[id].phase \notin {"none", "refused", "hello"}
            /\ In(task'[id].outbox, "Closed") => task'[id].phase = "done"
        BY <1>2, <1>4 DEF Speaks, Life
      <3> QED BY <2>2, <3>1, <3>2, <1>3 DEF Life
    <2>3. CASE x # id
      BY <2>1, <2>3, <1>1, <1>2, <1>3, <1>5 DEF Life, Told, Command
    <2> QED BY <2>2, <2>3
  <1>10. CommandsOnce' /\ OutboundOnce' /\ BannedLeave' /\ InboundLimited'
    BY <1>1 DEF CommandsOnce, OutboundOnce, Ops, BannedLeave, InboundLimited, ActiveInbound, Connected, AddrOf, MaxInbound
  <1>11. Attempts'
    <2>1. ASSUME NEW x \in Ids PROVE Attempt(x)' <=> Attempt(x)
      BY <1>1, <1>3, <1>5 DEF Attempt, Command
    <2> QED BY <2>1, <1>1 DEF Attempts, AddrOf
  <1>12. Own'
    <2>1. (Quiet' <=> Quiet) /\ Ops' = Ops /\ ("network" \notin Ops => NeverOff')
      BY <1>1, <1>3 DEF Own, Quiet, Ops, NeverOff, Command
    <2>2. ASSUME NEW d \in Conns, Quiet, address[d] = Self PROVE OwnEnds(<<d, "out">>, <<d, "in">>)'
      <3>1. OwnEnds(<<d, "out">>, <<d, "in">>) /\ <<d, "out">> \in Ids /\ <<d, "in">> \in Ids
        BY <2>2, Ends DEF Own
      <3>2. id # <<d, "out">> /\ id # <<d, "in">>
        BY <1>6, <2>2 DEF AddrOf
      <3> QED BY <3>1, <3>2, <1>1, <1>2, <1>3, <1>5 DEF OwnEnds
    <2> QED BY <2>1, <2>2, <1>1 DEF Own
  <1> QED BY <1>5, <1>7, <1>8, <1>9, <1>10, <1>11, <1>12

\* What is reported when a task has closed its connection.
LEMMA ClosureReported ==
  ASSUME ConnInv, NEW id \in Ids, events' = events \o Closure(id)
  PROVE  /\ events' \in Seq(EventType) /\ EventsOnce'
         /\ \A k, x : Event(k, x)' <=>
              \/ Event(k, x)
              \/ k = "Closed" /\ x = id /\ be.peers[id] \in {"peer", "accepted"}
              \/ k = "Error" /\ x = id /\ be.peers[id] = "pending" /\ id[2] = "out"
  <1>1. Life(id) /\ events \in Seq(EventType) /\ EventsOnce
    BY DEF ConnInv, Shape
  <1>2. CASE be.peers[id] = "pending" /\ id[2] = "out"
    <2>1. events' = Append(events, <<"Error", id>>)
      BY <1>1, <1>2 DEF Closure
    <2>2. ~Event("Error", id)
      BY <1>1, <1>2 DEF Life
    <2> QED BY <1>2, <2>1, <2>2, EventAdded
  <1>3. CASE be.peers[id] \in {"peer", "accepted"}
    <2>1. events' = Append(events, <<"Closed", id>>)
      BY <1>1, <1>3 DEF Closure
    <2>2. ~Event("Closed", id)
      BY <1>1, <1>3 DEF Life
    <2> QED BY <1>3, <2>1, <2>2, EventAdded
  <1>4. CASE ~(be.peers[id] = "pending" /\ id[2] = "out") /\ be.peers[id] \notin {"peer", "accepted"}
    <2>1. events' = events
      BY <1>1, <1>4 DEF Closure
    <2> QED BY <1>1, <1>4, <2>1 DEF EventsOnce, Event
  <1> QED BY <1>2, <1>3, <1>4

\* A task has closed its connection, and the backend forgets the peer.
LEMMA GoneStep ==
  ASSUME ConnInv, NEW id \in Ids, NEW out, Speaks(id, "Closed", out),
         NEW next \in TaskType, task' = [task EXCEPT ![id] = next],
         next.outbox = out, next.greeted = task[id].greeted, next.inbox = task[id].inbox,
         next.phase = task[id].phase,
         be' = [be EXCEPT !.peers[id] = "gone"], events' = events \o Closure(id),
         UNCHANGED <<pm, cmds, address, ops, failed, scenario>>
  PROVE  ConnInv'
  <1> USE DEF ConnInv
  <1>1. pm' = pm /\ cmds' = cmds /\ address' = address /\ ops' = ops /\ failed' = failed /\ scenario' = scenario
    OBVIOUS
  <1>2. /\ task' \in [Ids -> TaskType] /\ task'[id] = next
        /\ \A x \in Ids : x # id => task'[x] = task[x]
    BY DEF Shape
  <1>3. /\ be' \in BackendType /\ be'.networking = be.networking /\ be'.peers[id] = "gone"
        /\ \A x \in Ids : x # id => be'.peers[x] = be.peers[x]
    BY DEF Shape, BackendType, Contexts
  <1>4. Life(id) /\ next.phase = "done"
    BY DEF Life, Speaks
  <1>5. /\ events' \in Seq(EventType) /\ EventsOnce'
        /\ \A k, x : Event(k, x)' <=>
             \/ Event(k, x)
             \/ k = "Closed" /\ x = id /\ be.peers[id] \in {"peer", "accepted"}
             \/ k = "Error" /\ x = id /\ be.peers[id] = "pending" /\ id[2] = "out"
    BY ClosureReported
  <1>6. Shape'
    BY <1>1, <1>2, <1>3, <1>5 DEF Shape, Connected
  <1>7. ASSUME NEW x \in Ids PROVE New(x)'
    <2>1. New(x) /\ AddrOf(x)' = AddrOf(x)
      BY <1>1 DEF AddrOf
    <2>2. CASE x = id
      BY <2>1, <2>2 DEF New, Speaks
    <2>3. CASE x # id
      BY <2>1, <2>3, <1>1, <1>2, <1>3, <1>5 DEF New, Command
    <2> QED BY <2>2, <2>3
  <1>8. ASSUME NEW x \in Ids PROVE Life(x)'
    <2>1. Life(x)
      OBVIOUS
    <2>2. CASE x = id
      <3>1. /\ Event("Accepted", id)' => /\ Event("Closed", id)' /\ pm.peers[id] = "none"
                                         /\ ~Command("Accept", id) /\ ~Event("Error", id)'
            /\ Event("Closed", id)' => ~Event("Error", id)'
            /\ Event("Error", id)' => id[2] = "out" /\ pm.peers[id] = "none"
            /\ pm.peers[id] # "none" => Event("Closed", id)'
        BY <1>4, <1>5 DEF Life
      <3>2. /\ pm'.peers[id] = pm.peers[id] /\ (Command("Accept", id)' <=> Command("Accept", id))
            /\ id[2] = "out" => ~Command("Connect", id[1])'
            /\ pm.peers[id] = "Inbound" => id[2] = "in"
        BY <1>1, <1>4 DEF Command, Life, Speaks
      <3> QED BY <2>2, <3>1, <3>2, <1>2, <1>3, <1>4 DEF Life
    <2>3. CASE x # id
      BY <2>1, <2>3, <1>1, <1>2, <1>3, <1>5 DEF Life, Told, Command
    <2> QED BY <2>2, <2>3
  <1>9. CommandsOnce' /\ OutboundOnce' /\ BannedLeave' /\ InboundLimited'
    BY <1>1 DEF CommandsOnce, OutboundOnce, Ops, BannedLeave, InboundLimited, ActiveInbound, Connected, AddrOf, MaxInbound
  <1>10. Attempts'
    <2>1. ASSUME NEW x \in Ids PROVE Attempt(x)' => Attempt(x)
      BY <1>1, <1>3, <1>5 DEF Attempt, Command
    <2> QED BY <2>1, <1>1 DEF Attempts, AddrOf
  <1>11. Own'
    <2>1. (Quiet' <=> Quiet) /\ Ops' = Ops /\ ("network" \notin Ops => NeverOff')
      BY <1>1, <1>3 DEF Own, Quiet, Ops, NeverOff, Command
    <2>2. ASSUME NEW d \in Conns, Quiet, address[d] = Self PROVE OwnEnds(<<d, "out">>, <<d, "in">>)'
      <3> DEFINE o == <<d, "out">>
                 i == <<d, "in">>
      <3>1. OwnEnds(o, i) /\ o \in Ids /\ i \in Ids /\ o # i
        BY <2>2, Ends DEF Own
      <3> HIDE DEF o, i
      <3>2. CASE id # o /\ id # i
        <4>1. OwnEnds(o, i)'
          BY <3>1, <3>2, <1>1, <1>2, <1>3, <1>5 DEF OwnEnds
        <4> QED BY <4>1 DEF o, i
      <3>3. CASE id = o
        <4>1. be.peers[o] = "gone" /\ task[o].greeted
          BY <3>1, <3>3 DEF OwnEnds, Speaks
        <4>2. OwnEnds(o, i)'
          BY <3>1, <3>3, <4>1, <1>1, <1>2, <1>3, <1>5 DEF OwnEnds
        <4> QED BY <4>2 DEF o, i
      <3>4. CASE id = i
        <4>1. be.peers[o] # "pending"
          BY <3>1, <3>4 DEF OwnEnds, Speaks
        <4>2. ~In(task[i].outbox, "Info") => ~In(next.outbox, "Info")
          BY <3>4 DEF Speaks
        <4>3. OwnEnds(o, i)'
          BY <3>1, <3>4, <4>1, <4>2, <1>1, <1>2, <1>3, <1>4, <1>5 DEF OwnEnds
        <4> QED BY <4>3 DEF o, i
      <3> QED BY <3>2, <3>3, <3>4
    <2> QED BY <2>1, <2>2, <1>1 DEF Own
  <1> QED BY <1>5, <1>6, <1>7, <1>8, <1>9, <1>10, <1>11

\* The node has connected to itself: the backend forgets both ends.
LEMMA SelfFoundStep ==
  ASSUME ConnInv, NEW id \in Ids, NEW out, Speaks(id, "Info", out), be.peers[id] = "pending",
         id[2] = "in", NEW o \in Ids, o = Other(id), be.peers[o] = "pending",
         NEW next \in TaskType, NEW other \in TaskType,
         task' = [x \in Ids |-> IF x = id THEN next ELSE IF x = o THEN other ELSE task[x]],
         next.outbox = out, next.greeted = task[id].greeted, next.phase = task[id].phase,
         other.outbox = task[o].outbox, other.greeted = task[o].greeted, other.phase = task[o].phase,
         be' \in BackendType, be'.networking = be.networking,
         be'.peers[id] = "gone", be'.peers[o] = "gone",
         \A x \in Ids : x # id /\ x # o => be'.peers[x] = be.peers[x],
         events' = Append(events, <<"Error", o>>),
         UNCHANGED <<pm, cmds, address, ops, failed, scenario>>
  PROVE  ConnInv'
  <1> USE DEF ConnInv
  <1>1. pm' = pm /\ cmds' = cmds /\ address' = address /\ ops' = ops /\ failed' = failed /\ scenario' = scenario
    OBVIOUS
  <1>2. o # id /\ o = <<id[1], "out">> /\ id = <<id[1], "in">> /\ o[2] = "out" /\ o[1] = id[1]
    BY Ends
  <1>3. /\ task' \in [Ids -> TaskType] /\ task'[id] = next /\ task'[o] = other
        /\ \A x \in Ids : x # id /\ x # o => task'[x] = task[x]
    BY <1>2 DEF Shape
  <1>4. /\ be' \in BackendType /\ be'.networking = be.networking
        /\ be'.peers[id] = "gone" /\ be'.peers[o] = "gone"
        /\ \A x \in Ids : x # id /\ x # o => be'.peers[x] = be.peers[x]
    OBVIOUS
  <1>5. \A x \in {id, o} : /\ pm.peers[x] = "none" /\ ~Command("Accept", x)
                           /\ ~Event("Accepted", x) /\ ~Event("Closed", x) /\ ~Event("Error", x)
                           /\ x[2] = "out" => ~Command("Connect", x[1])
                           /\ In(task[x].outbox, "Closed") => task[x].phase = "done"
                           /\ task[x].phase \in {"none", "refused"} => ~task[x].greeted
                           /\ task[x].phase \in {"none", "refused", "hello"} => task[x].outbox = <<>>
    BY DEF Life
  <1>6. /\ events' \in Seq(EventType) /\ EventsOnce'
        /\ \A k, x : Event(k, x)' <=> Event(k, x) \/ (k = "Error" /\ x = o)
    BY <1>5, EventAdded
  <1>7. Shape'
    BY <1>1, <1>3, <1>4, <1>6 DEF Shape, Connected
  <1>8. ASSUME NEW x \in Ids PROVE New(x)'
    <2>1. New(x) /\ AddrOf(x)' = AddrOf(x)
      BY <1>1 DEF AddrOf
    <2>2. CASE x = id \/ x = o
      BY <2>1, <2>2, <1>2 DEF New, Speaks, AddrOf
    <2>3. CASE x # id /\ x # o
      BY <2>1, <2>3, <1>1, <1>3, <1>4, <1>6 DEF New, Command
    <2> QED BY <2>2, <2>3
  <1>9. ASSUME NEW x \in Ids PROVE Life(x)'
    <2>1. Life(x)
      OBVIOUS
    <2>2. CASE x = id
      <3>1. /\ ~Event("Accepted", id)' /\ ~Event("Closed", id)' /\ ~Event("Error", id)'
            /\ ~Command("Accept", id)' /\ pm'.peers[id] = "none"
        BY <1>1, <1>2, <1>5, <1>6 DEF Command
      <3>2. /\ task'[id].phase \notin {"none", "refused", "hello"}
            /\ In(task'[id].outbox, "Closed") => task'[id].phase = "done"
        BY <1>3, <1>5 DEF Speaks
      <3> QED BY <2>2, <3>1, <3>2, <1>4 DEF Life
    <2>3. CASE x = o
      <3>1. /\ ~Event("Accepted", o)' /\ ~Event("Closed", o)' /\ Event("Error", o)'
            /\ ~Command("Accept", o)' /\ pm'.peers[o] = "none" /\ ~Command("Connect", o[1])'
        BY <1>1, <1>2, <1>5, <1>6 DEF Command
      <3>2. /\ In(task'[o].outbox, "Closed") => task'[o].phase = "done"
            /\ task'[o].phase \in {"none", "refused"} => ~task'[o].greeted
            /\ task'[o].phase \in {"none", "refused", "hello"} => task'[o].outbox = <<>>
        BY <1>3, <1>5
      <3> QED BY <2>3, <3>1, <3>2, <1>2, <1>4 DEF Life
    <2>4. CASE x # id /\ x # o
      <3>1. \A k : Event(k, x)' <=> Event(k, x)
        BY <2>4, <1>6
      <3>2. be'.peers[x] = be.peers[x] /\ task'[x] = task[x] /\ pm' = pm /\ cmds' = cmds
        BY <2>4, <1>1, <1>3, <1>4
      <3> QED BY <2>1, <3>1, <3>2 DEF Life, Told, Command
    <2> QED BY <2>2, <2>3, <2>4
  <1>10. CommandsOnce' /\ OutboundOnce' /\ BannedLeave' /\ InboundLimited'
    BY <1>1 DEF CommandsOnce, OutboundOnce, Ops, BannedLeave, InboundLimited, ActiveInbound, Connected, AddrOf, MaxInbound
  <1>11. Attempts'
    <2>1. ASSUME NEW x \in Ids PROVE Attempt(x)' => Attempt(x)
      BY <1>1, <1>2, <1>4, <1>6 DEF Attempt, Command
    <2> QED BY <2>1, <1>1 DEF Attempts, AddrOf
  <1>12. Own'
    <2>1. (Quiet' <=> Quiet) /\ Ops' = Ops /\ ("network" \notin Ops => NeverOff')
      BY <1>1, <1>4 DEF Own, Quiet, Ops, NeverOff, Command
    <2>2. ASSUME NEW d \in Conns, Quiet, address[d] = Self PROVE OwnEnds(<<d, "out">>, <<d, "in">>)'
      <3>1. OwnEnds(<<d, "out">>, <<d, "in">>) /\ <<d, "out">> \in Ids /\ <<d, "in">> \in Ids
        BY <2>2, Ends DEF Own
      <3>2. CASE d = id[1]
        <4>1. OwnEnds(o, id) /\ <<d, "out">> = o /\ <<d, "in">> = id
          BY <3>1, <3>2, <1>2
        <4>2. task'[o].greeted
          BY <4>1, <1>3 DEF OwnEnds
        <4>3. OwnEnds(o, id)'
          BY <4>1, <4>2, <1>1, <1>4, <1>5, <1>6 DEF OwnEnds
        <4> QED BY <4>1, <4>3
      <3>3. CASE d # id[1]
        <4>1. <<d, "out">> \notin {id, o} /\ <<d, "in">> \notin {id, o}
          BY <3>3, <1>2
        <4> QED BY <4>1, <3>1, <1>1, <1>3, <1>4, <1>6 DEF OwnEnds
      <3> QED BY <3>2, <3>3
    <2> QED BY <2>1, <2>2, <1>1 DEF Own
  <1> QED BY <1>6, <1>7, <1>8, <1>9, <1>10, <1>11, <1>12

\* The backend handles what a task has sent.
LEMMA HandlePeerEventStep ==
  ASSUME ConnInv, NEW id \in Ids, HandlePeerEvent(id), UNCHANGED scenario
  PROVE  ConnInv'
  <1>1. PICK kind, out : /\ Head(task[id].outbox) = kind /\ Tail(task[id].outbox) = out
                         /\ Speaks(id, kind, out)
    BY Spoken DEF HandlePeerEvent
  <1>2. /\ pm' = pm /\ cmds' = cmds /\ address' = address /\ ops' = ops /\ failed' = failed
        /\ scenario' = scenario
    BY DEF HandlePeerEvent
  <1>3. task \in [Ids -> TaskType] /\ be \in BackendType
    BY DEF ConnInv, Shape
  <1>4. PICK taken : taken = [task[id] EXCEPT !.outbox = out]
    OBVIOUS
  <1>5. /\ task[id] \in TaskType /\ out \in Outbox
        /\ kind \in {"Info", "Sync", "Misbehaved", "BadHandshake", "Closed"}
    BY <1>1, <1>3 DEF Speaks
  <1>6. /\ taken \in TaskType /\ taken.outbox = out /\ taken.greeted = task[id].greeted
        /\ taken.inbox = task[id].inbox /\ taken.phase = task[id].phase
    BY <1>4, <1>5 DEF TaskType
  <1>7. [task EXCEPT ![id].outbox = Tail(@)] = [task EXCEPT ![id] = taken]
    BY <1>1, <1>3, <1>4
  <1>8. CASE kind = "Info" /\ be.networking /\ be.peers[id] = "pending"
    <2>1. CreatePeer(id)
      BY <1>1, <1>8 DEF HandlePeerEvent
    <2>2. CASE id[2] = "in" /\ AddrOf(id) = Self /\ be.peers[Other(id)] = "pending"
      <3>1. PICK o \in Ids : o = Other(id)
        BY Ends
      <3>2. /\ be' = [be EXCEPT !.peers[id] = "gone", !.peers[o] = "gone"]
            /\ task' = [task EXCEPT ![id].inbox = Append(@, "Disconnect"),
                                    ![o].inbox = Append(@, "Dropped"),
                                    ![id].outbox = Tail(@)]
            /\ events' = Append(events, <<"Error", o>>)
        BY <2>1, <2>2, <3>1 DEF CreatePeer
      <3>3. PICK next, other : /\ next = [taken EXCEPT !.inbox = Append(@, "Disconnect")]
                               /\ other = [task[o] EXCEPT !.inbox = Append(@, "Dropped")]
        OBVIOUS
      <3>a. \A s \in Inbox : Append(s, "Disconnect") \in Inbox /\ Append(s, "Dropped") \in Inbox
        BY DEF Inbox
      <3>4. /\ next \in TaskType /\ next.outbox = out /\ next.greeted = task[id].greeted
            /\ next.phase = task[id].phase
        BY <3>3, <3>a, <1>6 DEF TaskType
      <3>5. /\ other \in TaskType /\ other.outbox = task[o].outbox /\ other.greeted = task[o].greeted
            /\ other.phase = task[o].phase
        BY <3>3, <3>a, <1>3 DEF TaskType
      <3>6. o # id
        BY <3>1, <2>2, Ends
      <3>7. task' = [x \in Ids |-> IF x = id THEN next ELSE IF x = o THEN other ELSE task[x]]
        BY <3>2, <3>3, <3>6, <1>1, <1>3, <1>4, <1>5 DEF TaskType
      <3>8. /\ Speaks(id, "Info", out) /\ be.peers[id] = "pending" /\ be.peers[o] = "pending"
            /\ UNCHANGED <<pm, cmds, address, ops, failed, scenario>>
        BY <1>1, <1>2, <1>8, <2>2, <3>1
      <3>9. id[2] = "in" /\ events' = Append(events, <<"Error", o>>)
        BY <2>2, <3>2
      <3>10. /\ be' \in BackendType /\ be'.networking = be.networking
             /\ be'.peers[id] = "gone" /\ be'.peers[o] = "gone"
             /\ \A x \in Ids : x # id /\ x # o => be'.peers[x] = be.peers[x]
        BY <3>2, <3>6, <1>3 DEF BackendType, Contexts
      <3> QED BY <3>1, <3>4, <3>5, <3>7, <3>8, <3>9, <3>10, SelfFoundStep
    <2>3. CASE ~(id[2] = "in" /\ AddrOf(id) = Self /\ be.peers[Other(id)] = "pending")
      <3>1. /\ be' = [be EXCEPT !.peers[id] = "peer"]
            /\ events' = Append(events, <<"Accepted", id>>)
            /\ task' = [task EXCEPT ![id] = taken]
        BY <2>1, <2>3, <1>7 DEF CreatePeer
      <3>2. Speaks(id, "Info", out)
        BY <1>1, <1>8
      <3> QED BY <3>1, <3>2, <1>2, <1>6, <1>8, <2>3, CreatedStep
    <2> QED BY <2>2, <2>3
  <1>9. CASE kind = "Closed"
    <2>1. /\ be' = [be EXCEPT !.peers[id] = "gone"] /\ events' = events \o Closure(id)
          /\ task' = [task EXCEPT ![id] = taken]
      BY <1>1, <1>7, <1>9 DEF HandlePeerEvent
    <2>2. Speaks(id, "Closed", out)
      BY <1>1, <1>9
    <2> QED BY <2>1, <2>2, <1>2, <1>6, GoneStep
  <1>10. CASE ~(kind = "Info" /\ be.networking /\ be.peers[id] = "pending") /\ kind # "Closed"
    <2>1. PICK next : /\ next \in {taken, [taken EXCEPT !.phase = "ack"]}
                      /\ task' = [task EXCEPT ![id] = next] /\ be' = be
                      /\ next = taken \/ task[id].phase = "sync"
                      /\ \/ events' = events
                         \/ \E k \in {"Misbehaved", "BadHandshake"} : events' = Append(events, <<k, id>>)
      <3>1. CASE kind = "Info"
        BY <3>1, <1>1, <1>7, <1>10 DEF HandlePeerEvent
      <3>2. CASE kind = "Sync"
        <4>1. /\ be' = be /\ events' = events
              /\ task' = IF task[id].phase = "sync" THEN [[task EXCEPT ![id] = taken] EXCEPT ![id].phase = "ack"]
                         ELSE [task EXCEPT ![id] = taken]
          BY <3>2, <1>1, <1>7 DEF HandlePeerEvent
        <4>2. [[task EXCEPT ![id] = taken] EXCEPT ![id].phase = "ack"]
                = [task EXCEPT ![id] = [taken EXCEPT !.phase = "ack"]]
          BY <1>3
        <4> QED BY <4>1, <4>2
      <3>3. CASE kind \in {"Misbehaved", "BadHandshake"}
        BY <3>3, <1>1, <1>7 DEF HandlePeerEvent
      <3> QED BY <3>1, <3>2, <3>3, <1>5, <1>10
    <2>2. /\ next \in TaskType /\ next.outbox = out /\ next.greeted = task[id].greeted
          /\ next.inbox = task[id].inbox
          /\ next.phase = task[id].phase \/ (task[id].phase = "sync" /\ next.phase = "ack")
      BY <2>1, <1>6 DEF TaskType, Phases
    <2>3. Speaks(id, kind, out) /\ UNCHANGED <<be, pm, cmds, address, ops, failed, scenario>>
      BY <1>1, <1>2, <2>1
    <2>4. /\ task' = [task EXCEPT ![id] = next]
          /\ \/ events' = events
             \/ \E k \in {"Misbehaved", "BadHandshake"} : events' = Append(events, <<k, id>>)
      BY <2>1
    <2> QED BY <1>10, <2>2, <2>3, <2>4, HeardStep
  <1> QED BY <1>8, <1>9, <1>10

----------------------------------------------------------------------------
(* The invariant. *)

\* At most one of a set's members: its members are all the same.
LEMMA AtMostOne ==
  ASSUME NEW S, \A x, y \in S : x = y
  PROVE  Cardinality(S) <= 1
  <1>1. CASE S = {}
    BY <1>1, FS_EmptySet
  <1>2. CASE S # {}
    <2>1. PICK x \in S : S = {x}
      BY <1>2
    <2> QED BY <2>1, FS_Singleton
  <1> QED BY <1>1, <1>2

\* The invariant holds at first.
LEMMA ConnInvInit ==
  ASSUME Init
  PROVE  ConnInv
  <1>1. /\ pm.networking = TRUE /\ pm.pending = [a \in Addrs |-> "none"]
        /\ pm.peers = [id \in Ids |-> "none"] /\ pm.leaving = {}
        /\ pm.banned = {} /\ pm.discouraged = {} /\ pm.reserved = {}
        /\ be.networking = TRUE /\ be.peers = [id \in Ids |-> "none"]
    BY DEF Init
  <1>2. /\ cmds = <<>> /\ events = <<>> /\ task = [id \in Ids |-> NoTask]
        /\ address = [c \in Conns |-> NoAddr] /\ ops = 0 /\ failed = FALSE /\ scenario \in Scenarios
    BY DEF Init
  <1>3. \A id \in Ids : /\ task[id].phase = "none" /\ ~task[id].greeted /\ task[id].inbox = <<>>
                        /\ task[id].outbox = <<>>
    BY <1>2 DEF NoTask
  <1>4. (\A x : ~In(events, x)) /\ (\A x : ~In(cmds, x))
    BY <1>2, InShort
  <1>5. NoTask \in TaskType
    BY DEF NoTask, TaskType, Phases, Inbox, Outbox
  <1>6. pm \in ManagerType /\ be \in BackendType
    BY DEF Init, ManagerType, BackendType, Pending, Roles, Contexts
  <1>7. cmds \in Seq(CommandType) /\ events \in Seq(EventType)
    BY <1>2
  <1>8. Shape
    BY <1>1, <1>2, <1>5, <1>6, <1>7 DEF Shape
  <1>9. \A id \in Ids : New(id)
    BY <1>1, <1>3, <1>4 DEF New, Command, Event
  <1>10. \A id \in Ids : Life(id)
    <2>1. \A id \in Ids : ~In(task[id].outbox, "Closed")
      BY <1>3, InShort
    <2> QED BY <2>1, <1>1, <1>3, <1>4 DEF Life, Command, Event
  <1>11. Connected(pm) = {}
    BY <1>1 DEF Connected
  <1>12. EventsOnce /\ CommandsOnce
    BY <1>2 DEF EventsOnce, CommandsOnce, Once, Before
  <1>13. \A id \in Ids : ~Attempt(id)
    BY <1>1, <1>4 DEF Attempt, Command, Event
  <1>14. Attempts /\ OutboundOnce /\ BannedLeave
    BY <1>11, <1>13 DEF Attempts, OutboundOnce, Ops, BannedLeave
  <1>15. InboundLimited
    <2>1. ActiveInbound(pm) = {}
      BY <1>11 DEF ActiveInbound
    <2>2. MaxInbound \in Nat
      BY <1>2, ConnectionsAssumption DEF MaxInbound, Scenario
    <2> QED BY <2>1, <2>2, FS_EmptySet DEF InboundLimited
  <1>16. Own
    <2>1. NeverOff
      BY <1>1, <1>4 DEF NeverOff, Command
    <2>2. \A c \in Conns : address[c] # Self
      BY <1>2, ConnectionsAssumption
    <2> QED BY <2>1, <2>2 DEF Own
  <1> QED BY <1>8, <1>9, <1>10, <1>12, <1>14, <1>15, <1>16 DEF ConnInv

\* A step that changes neither the peer manager nor the backend nor the tasks.
LEMMA SameStep ==
  ASSUME ConnInv, pm' = pm, be' = be, cmds' = cmds, events' = events, task' = task,
         address' = address, ops' \in {ops, ops + 1}, failed' = failed, scenario' = scenario
  PROVE  ConnInv'
  <1>2. Shape' /\ EventsOnce' /\ CommandsOnce' /\ BannedLeave' /\ InboundLimited'
    BY DEF ConnInv, Shape, EventsOnce, CommandsOnce, BannedLeave, InboundLimited,
           ActiveInbound, Connected, AddrOf, MaxInbound
  <1>3. ASSUME NEW id \in Ids PROVE New(id)' /\ Life(id)' /\ (Attempt(id)' <=> Attempt(id))
    BY DEF ConnInv, New, Life, Attempt, Told, AddrOf, Event, Command
  <1>4. Attempts' /\ OutboundOnce'
    BY <1>3 DEF ConnInv, Attempts, OutboundOnce, Ops, Connected, AddrOf
  <1>5. Own'
    BY DEF ConnInv, Own, Quiet, Ops, NeverOff, OwnEnds, Event, Command
  <1> QED BY <1>2, <1>3, <1>4, <1>5 DEF ConnInv

\* Every step keeps the invariant.
LEMMA ConnInvStep ==
  ASSUME ConnInv, [Next]_vars
  PROVE  ConnInv'
  <1>1. CASE UNCHANGED vars
    <2>1. /\ pm' = pm /\ be' = be /\ cmds' = cmds /\ events' = events /\ task' = task
          /\ address' = address /\ ops' = ops /\ failed' = failed /\ scenario' = scenario
      BY <1>1 DEF vars
    <2> QED BY <2>1, SameStep
  <1>2. CASE Next
    <2>1. UNCHANGED scenario
      BY <1>2 DEF Next
    <2>2. CASE Control
      <3>1. ASSUME NEW a \in Addrs, NEW role \in {"Outbound", "Feeler"}, Connect(a, role) PROVE ConnInv'
        BY <2>1, <3>1, ConnectStep
      <3>2. ASSUME NEW a \in Addrs, Ban(a) PROVE ConnInv'
        BY <2>1, <3>2, BanStep
      <3>3. ASSUME NEW a \in Addrs, Forgive(a) \/ RemoveReserved(a) PROVE ConnInv'
        BY <2>1, <3>3, SettingsStep
      <3>4. ASSUME NEW a \in Addrs, AddReserved(a) PROVE ConnInv'
        BY <2>1, <3>4, AddReservedStep
      <3>5. ASSUME NEW id \in Ids, Disconnect(id) PROVE ConnInv'
        BY <2>1, <3>5, DisconnectStep
      <3>6. ASSUME NEW enable \in BOOLEAN, EnableNetworking(enable) PROVE ConnInv'
        <4>1. Self \in Addrs
          BY DEF Addrs
        <4> QED BY <2>1, <3>6, <4>1, SettingsStep
      <3> QED BY <2>2, <3>1, <3>2, <3>3, <3>4, <3>5, <3>6 DEF Control
    <2>3. CASE Progress
      <3>1. ASSUME HandleEvent \/ HandleCommand PROVE ConnInv'
        BY <2>1, <3>1, HandleEventStep, HandleCommandStep
      <3>2. ASSUME Dial PROVE ConnInv'
        <4>1. PICK c \in Conns : \E done \in BOOLEAN : HandleConnectRes(c, done)
          BY <3>2 DEF Dial
        <4>2. PICK done \in BOOLEAN : HandleConnectRes(c, done)
          BY <4>1
        <4> QED BY <2>1, <4>2, HandleConnectResStep
      <3>3. ASSUME NEW id \in Ids, HandlePeerEvent(id) \/ HandleBackendEvent(id) PROVE ConnInv'
        BY <2>1, <3>3, HandlePeerEventStep, HandleBackendEventStep
      <3>4. ASSUME NEW id \in Ids, Handshake(id) PROVE ConnInv'
        BY <2>1, <3>4, ReceiveHelloStep, SendHelloAckStep, ReceiveHelloAckStep, HandshakeFailsStep
           DEF Handshake
      <3> QED BY <2>3, <3>1, <3>2, <3>3, <3>4 DEF Progress
    <2>4. ASSUME NEW id \in Ids, Network(id) PROVE ConnInv'
      <3>1. ASSUME NEW a \in Addrs, AcceptSocket(id, a) PROVE ConnInv'
        BY <2>1, <3>1, AcceptSocketStep
      <3>2. ASSUME HandshakeFails(id, TRUE) PROVE ConnInv'
        BY <2>1, <3>2, HandshakeFailsStep
      <3>3. ASSUME ReceiveWrongMessage(id) \/ SocketCloses(id) PROVE ConnInv'
        BY <2>1, <3>3, OpenTaskStep
      <3>4. ASSUME SendFails(id) PROVE ConnInv'
        BY <2>1, <3>4, SendFailsStep
      <3> QED BY <2>4, <3>1, <3>2, <3>3, <3>4 DEF Network
    <2>5. ASSUME NEW id \in Ids, StopReading(id) PROVE ConnInv'
      <3>1. /\ pm' = pm /\ be' = be /\ cmds' = cmds /\ events' = events /\ task' = task
            /\ address' = address /\ ops' = ops + 1 /\ failed' = failed
        BY <2>5 DEF StopReading, Operation
      <3> QED BY <2>1, <3>1, SameStep
    <2> QED BY <1>2, <2>2, <2>3, <2>4, <2>5 DEF Next
  <1> QED BY <1>1, <1>2

\* What the invariant says of the peers.
LEMMA ConnInvImplies ==
  ASSUME ConnInv, stalled \subseteq Ids
  PROVE  ConnectionsInv
  <1> USE DEF ConnInv
  <1>1. TypeOK /\ AssertionsHold
    BY Parts DEF Shape, TypeOK, AssertionsHold, Pending, Roles, Contexts, Phases
  <1>2. PeersAgree
    <2> SUFFICES ASSUME NEW id \in Ids
                 PROVE  /\ be.peers[id] \in {"peer", "accepted"} =>
                             pm.peers[id] # "none" \/ Queued("Accepted", id) \/ ToldToLeave(id)
                        /\ pm.peers[id] # "none" =>
                             be.peers[id] \in {"peer", "accepted"} \/ Queued("Closed", id)
      BY DEF PeersAgree
    <2>1. /\ Event("Accepted", id) => Queued("Accepted", id)
          /\ Event("Closed", id) => Queued("Closed", id)
          /\ Told(id) => ToldToLeave(id)
      BY DEF Event, Told, Command, In, Queued, ToldToLeave
    <2>2. Life(id)
      OBVIOUS
    <2> QED BY <2>1, <2>2 DEF Life
  <1>3. OneOutbound
    <2> SUFFICES ASSUME NEW a \in Addrs
                 PROVE  /\ Cardinality({id \in Outbound(pm, a) : pm.peers[id] = "Outbound"}) <= 1
                        /\ "forgotten" \notin Ops => Cardinality(Outbound(pm, a)) <= 1
      BY DEF OneOutbound
    <2>1. PICK S : S = {id \in Outbound(pm, a) : pm.peers[id] = "Outbound"}
      OBVIOUS
    <2>2. \A i, j \in S : i = j
      BY <2>1 DEF OutboundOnce, Outbound
    <2>3. "forgotten" \notin Ops => \A i, j \in Outbound(pm, a) : i = j
      BY DEF OutboundOnce, Outbound
    <2>4. Cardinality(S) <= 1
      BY <2>2, AtMostOne
    <2>5. "forgotten" \notin Ops => Cardinality(Outbound(pm, a)) <= 1
      BY <2>3, AtMostOne
    <2> QED BY <2>1, <2>4, <2>5
  <1>4. NoSelfConnection
    <2> SUFFICES ASSUME Quiet, NEW id \in Connected(pm), AddrOf(id) = Self PROVE FALSE
      BY DEF NoSelfConnection, Quiet
    <2>1. id \in Ids /\ pm.peers[id] # "none" /\ id[1] \in Conns /\ id = <<id[1], id[2]>> /\ id[2] \in {"out", "in"}
      BY Ends DEF Connected
    <2>2. OwnEnds(<<id[1], "out">>, <<id[1], "in">>)
      BY <2>1 DEF Own, AddrOf
    <2> QED BY <2>1, <2>2 DEF OwnEnds
  <1> QED BY <1>1, <1>2, <1>3, <1>4 DEF ConnectionsInv

\* Whatever the peer manager, the backend and the tasks of the connections do, in whatever
\* order their messages are handled, for any number of connections and addresses: the peer
\* manager and the backend agree on the peers up to what is still on its way, its assertions
\* about pending connections hold, peers of a banned address leave, the inbound peers are
\* limited, no address has two outbound connections, but for a feeler to an address that
\* the database forgot, and the node is no peer of itself.
THEOREM ConnectionsSound == Spec => []ConnectionsInv
  <1>1. Init => ConnInv /\ stalled \subseteq Ids
    BY ConnInvInit DEF Init
  <1>2. ConnInv /\ stalled \subseteq Ids /\ [Next]_vars => ConnInv' /\ (stalled \subseteq Ids)'
    BY ConnInvStep DEF Next, StopReading, vars
  <1>3. ConnInv /\ stalled \subseteq Ids => ConnectionsInv
    BY ConnInvImplies
  <1> QED BY <1>1, <1>2, <1>3, PTL DEF Spec
=============================================================================
