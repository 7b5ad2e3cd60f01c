------------------------------ MODULE MCPeers ------------------------------
(***************************************************************************)
(* The connections of a node and its database of addresses.  What one of   *)
(* them does may happen in any order with what the other does, and they    *)
(* share no state here, so one of them rests.                              *)
(***************************************************************************)
EXTENDS PeerConnections, PeerDb, TLC

\* Another node is connected to, connects itself, is banned or misbehaves; it is reserved,
\* or tried by feelers; networking is switched off and on; the node connects to itself;
\* another node stops reading; a feeler is made to a peer whose address was forgotten.
Usual ==
  [ops |-> {"inbound", "ban", "disconnect", "misbehave"},
   maxOps |-> 2, maxInbound |-> 1, prompt |-> TRUE]
Chosen ==
  [ops |-> {"ban", "reserve", "disconnect", "feeler"},
   maxOps |-> 2, maxInbound |-> 1, prompt |-> TRUE]
SwitchedOff ==
  [ops |-> {"inbound", "network"}, maxOps |-> 2, maxInbound |-> 1, prompt |-> TRUE]
WithItself ==
  [ops |-> {"connectSelf", "inbound", "disconnect", "ban"},
   maxOps |-> 1, maxInbound |-> 2, prompt |-> TRUE]
LateForItself ==
  [ops |-> {"connectSelf", "disconnect"}, maxOps |-> 1, maxInbound |-> 1, prompt |-> FALSE]
Silent ==
  [ops |-> {"inbound", "stall", "disconnect", "network"},
   maxOps |-> 2, maxInbound |-> 1, prompt |-> TRUE]
Rediscovered ==
  [ops |-> {"feeler", "forgotten", "disconnect"}, maxOps |-> 1, maxInbound |-> 1, prompt |-> TRUE]
AllScenarios == {Usual, Chosen, SwitchedOff, WithItself, LateForItself, Silent, Rediscovered}

\* Three addresses share a slot of the tried table, two of them one of the new table,
\* which are a reserved and a boot node.
CONSTANTS a1, a2, a3

AllSlots == {1, 2}
Crowded == [a \in KnownAddrs |-> 1]
Pairs == [a \in KnownAddrs |-> IF a = a3 THEN 2 ELSE 1]

----------------------------------------------------------------------------
PeersInit == Init /\ DbInit

PeersNext ==
  \/ DbInit /\ Next /\ UNCHANGED dbVars
  \/ Init /\ scenario = Usual /\ DbNext /\ UNCHANGED vars

PeersSpec == PeersInit /\ [][PeersNext]_<<vars, dbVars>> /\ Fairness
=============================================================================
