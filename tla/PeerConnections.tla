-------------------------- MODULE PeerConnections --------------------------
(***************************************************************************)
(* The connections of a node: the peer manager, which decides whom to      *)
(* connect to and whom to accept (p2p/src/peer_manager), the network       *)
(* backend, which owns the sockets (net/default_backend/backend.rs), and   *)
(* the task of each connection (peer.rs). They run concurrently and only   *)
(* send each other messages, each channel in order.                        *)
(*                                                                         *)
(* A connection of the node with itself has both ends here; of the others  *)
(* the remote end may do anything, to stop reading included. Messages that *)
(* are sent to peers are left out, but for the time they may take. The     *)
(* state of addresses in the database is PeerDb's.                         *)
(***************************************************************************)
EXTENDS Naturals, SequencesExt

CONSTANTS
  Remotes, Self, NoAddr,   \* the addresses of other nodes and the node's own
  MaxConns,                \* the connections of a behaviour
  Scenarios                \* what is looked at, see Scenario

\* The control events and misbehaviours that are looked at, how many of them a
\* behaviour has, max_inbound_connections, and whether a connection of the node
\* to itself never times out.
Scenario ==
  [ops : SUBSET {"connectSelf", "inbound", "ban", "reserve", "disconnect", "network",
                 "misbehave", "feeler", "stall", "forgotten"},
   maxOps : Nat, maxInbound : Nat \ {0}, prompt : BOOLEAN]

ASSUME ConnectionsAssumption ==
  /\ Self \notin Remotes /\ NoAddr \notin Remotes \cup {Self}
  /\ MaxConns \in Nat \ {0}
  /\ Scenarios \subseteq Scenario

Addrs == Remotes \cup {Self}
Conns == 1 .. MaxConns
Ids == Conns \X {"out", "in"}

VARIABLES
  pm,        \* the peer manager
  be,        \* the backend: whether networking is enabled, and each peer's context
  cmds,      \* the commands to the backend
  events,    \* the connectivity events to the peer manager
  task,      \* the task of each end of a connection, with both its channels
  address,   \* the address a connection was made to, or came from
  stalled,   \* the ends whose task waits in socket.send for the remote to read
  ops, failed,
  scenario

vars == <<pm, be, cmds, events, task, address, stalled, ops, failed, scenario>>

Ops == scenario.ops
MaxInbound == scenario.maxInbound

NoTask == [phase |-> "none", greeted |-> FALSE, inbox |-> <<>>, outbox |-> <<>>]
Other(id) == <<id[1], IF id[2] = "out" THEN "in" ELSE "out">>
AddrOf(id) == address[id[1]]
FreshConns == {c \in Conns : address[c] = NoAddr}
Fresh == CHOOSE c \in FreshConns : TRUE

Init ==
  /\ pm = [networking |-> TRUE, pending |-> [a \in Addrs |-> "none"],
           peers |-> [id \in Ids |-> "none"], leaving |-> {},
           banned |-> {}, discouraged |-> {}, reserved |-> {}]
  /\ be = [networking |-> TRUE, peers |-> [id \in Ids |-> "none"]]
  /\ cmds = <<>> /\ events = <<>>
  /\ task = [id \in Ids |-> NoTask]
  /\ address = [c \in Conns |-> NoAddr]
  /\ stalled = {} /\ ops = 0 /\ failed = FALSE
  /\ scenario \in Scenarios

Operation(kind) == ~failed /\ kind \in Ops /\ ops < scenario.maxOps /\ ops' = ops + 1

----------------------------------------------------------------------------
(* The peer manager. *)

Connected(p) == {id \in Ids : p.peers[id] # "none"}
ActiveInbound(p) == {id \in Connected(p) : p.peers[id] = "Inbound"} \ p.leaving
Outbound(p, a) == {id \in Connected(p) : id[2] = "out" /\ AddrOf(id) = a}

\* try_connect. maybe_reject_because_already_connected lets feelers pass. They are made one
\* at a time, to addresses the database does not have as connected: a connected one is
\* among them after it was pushed out of the database and discovered again ("forgotten";
\* dropped in PeerDb).
CanConnect(p, a, role) ==
  /\ p.networking /\ p.pending[a] = "none"
  /\ Outbound(p, a) = {} \/ (role = "Feeler" /\ "forgotten" \in Ops)
  /\ a \in p.reserved \/ a \notin p.banned \cup p.discouraged
  /\ role = "Feeler" =>
       /\ a \notin p.reserved
       /\ "Feeler" \notin {p.pending[b] : b \in Addrs} \cup {p.peers[id] : id \in Ids}

\* connect, for a heartbeat or for the user
Connect(a, role) ==
  /\ ~failed /\ FreshConns # {} /\ CanConnect(pm, a, role)
  /\ a = Self => "connectSelf" \in Ops
  /\ role = "Feeler" => "feeler" \in Ops
  /\ pm' = [pm EXCEPT !.pending[a] = role]
  /\ cmds' = Append(cmds, <<"Connect", Fresh>>)
  /\ address' = [address EXCEPT ![Fresh] = a]
  /\ UNCHANGED <<be, events, task, ops, failed>>

\* disconnect, of several peers
Disconnects(p, ids) == [p EXCEPT !.leaving = @ \cup (ids \cap Connected(p))]

\* The peers that are connected and not leaving yet are told to.
Leave(p, ids) ==
  /\ pm' = Disconnects(p, ids)
  /\ cmds' = cmds \o SetToSeq({<<"Disconnect", id>> : id \in (ids \cap Connected(p)) \ p.leaving})

\* The user disconnects a peer, it does not answer pings, or it is evicted.
Disconnect(id) ==
  /\ Operation("disconnect") /\ id \in Connected(pm) \ pm.leaving
  /\ Leave(pm, {id})
  /\ UNCHANGED <<be, events, task, address, failed>>

At(a) == {id \in Ids : AddrOf(id) = a}

Ban(a) ==
  /\ Operation("ban") /\ a \notin pm.banned
  /\ Leave([pm EXCEPT !.banned = @ \cup {a}], At(a))
  /\ UNCHANGED <<be, events, task, address, failed>>

\* unban and undiscourage, or a heartbeat after the time is over
Forgive(a) ==
  /\ Operation("ban") /\ a \in pm.banned \cup pm.discouraged
  /\ pm' \in {[pm EXCEPT !.banned = @ \ {a}], [pm EXCEPT !.discouraged = @ \ {a}]} \ {pm}
  /\ UNCHANGED <<be, cmds, events, task, address, failed>>

\* AddReserved, which connects at once if it can
AddReserved(a) ==
  LET p == [pm EXCEPT !.reserved = @ \cup {a}]
  IN /\ Operation("reserve") /\ a \notin pm.reserved
     /\ IF FreshConns # {} /\ CanConnect(p, a, "Outbound")
        THEN /\ pm' = [p EXCEPT !.pending[a] = "Outbound"]
             /\ cmds' = Append(cmds, <<"Connect", Fresh>>)
             /\ address' = [address EXCEPT ![Fresh] = a]
        ELSE pm' = p /\ UNCHANGED <<cmds, address>>
     /\ UNCHANGED <<be, events, task, failed>>

RemoveReserved(a) ==
  /\ Operation("reserve") /\ a \in pm.reserved
  /\ pm' = [pm EXCEPT !.reserved = @ \ {a}]
  /\ UNCHANGED <<be, cmds, events, task, address, failed>>

EnableNetworking(enable) ==
  /\ Operation("network") /\ pm.networking # enable
  /\ pm' = [pm EXCEPT !.networking = enable]
  /\ cmds' = Append(cmds, <<"Networking", enable>>)
  /\ UNCHANGED <<be, events, task, address, failed>>

----------------------------------------------------------------------------
(* What the backend reports. *)

\* As Valid, but a peer that was banned meanwhile is let in.
ValidOnceChecked(p, id, role) ==
  /\ p.networking
  /\ role = "Outbound" => Outbound(p, AddrOf(id)) = {}

\* validate_connection, but for what the peer told about itself and for the inbound limit
Valid(p, id, role) ==
  /\ p.networking /\ AddrOf(id) \notin p.banned
  /\ role = "Outbound" => Outbound(p, AddrOf(id)) = {}

\* An inbound peer evicts another one if there are too many.
Admits(p, id, victims) ==
  IF Cardinality(ActiveInbound(p)) >= MaxInbound /\ id[2] = "in"
  THEN AddrOf(id) \notin p.discouraged /\ \E v \in ActiveInbound(p) : victims = {v}
  ELSE victims = {}

\* accept_connection
AcceptConnection(id) ==
  LET a == AddrOf(id)
      role == IF id[2] = "in" THEN "Inbound" ELSE pm.pending[a]
      p == IF id[2] = "in" THEN pm ELSE [pm EXCEPT !.pending[a] = "none"]
      reject == pm' = p /\ cmds' = Append(cmds, <<"Disconnect", id>>)
      accept(victims) ==
        LET new == IF role = "Feeler" THEN victims \cup {id} ELSE victims
            quit == SetToSeq({<<"Disconnect", v>> : v \in victims})
        IN /\ pm' = Disconnects([p EXCEPT !.peers[id] = role], new)
           /\ cmds' = cmds \o quit \o <<<<"Accept", id>>>>
                        \o IF role = "Feeler" THEN <<<<"Disconnect", id>>>> ELSE <<>>
  IN /\ failed' = (role = "none" \/ p.peers[id] # "none")
     /\ \/ reject
        \/ /\ Valid(p, id, role)
           /\ \E victims \in SUBSET ActiveInbound(p) :
                Cardinality(victims) <= 1 /\ Admits(p, id, victims) /\ accept(victims)

\* adjust_peer_score: the peer may be whitelisted, or its score may not suffice.
Discourage(a) ==
  \/ UNCHANGED <<pm, cmds>>
  \/ Leave([pm EXCEPT !.discouraged = @ \cup {a}], At(a))

\* connection_closed
ConnectionClosed(p, id) == [p EXCEPT !.peers[id] = "none", !.leaving = @ \ {id}]

\* handle_outbound_error
OutboundError(p, id) == [p EXCEPT !.pending[AddrOf(id)] = "none"]

\* handle_connectivity_event
HandleEvent ==
  LET kind == Head(events)[1]
      id == Head(events)[2]
  IN /\ ~failed /\ events # <<>>
     /\ events' = Tail(events)
     /\ CASE kind = "Accepted" -> AcceptConnection(id)
          [] kind = "Closed" -> pm' = ConnectionClosed(pm, id) /\ UNCHANGED <<cmds, failed>>
          [] kind = "Error" -> /\ pm' = OutboundError(pm, id)
                               /\ failed' = (pm.pending[AddrOf(id)] = "none")
                               /\ UNCHANGED cmds
          [] kind = "Misbehaved" -> /\ IF id \in Connected(pm) THEN Discourage(AddrOf(id))
                                       ELSE UNCHANGED <<pm, cmds>>
                                    /\ UNCHANGED failed
          [] kind = "BadHandshake" -> Discourage(AddrOf(id)) /\ UNCHANGED failed
     /\ UNCHANGED <<be, task, address, ops>>

----------------------------------------------------------------------------
(* The backend. It handles all commands before anything else, and accepts  *)
(* connections only if there is nothing else to do.                        *)

\* pending_peers and peers
Held == {id \in Ids : be.peers[id] \in {"pending", "peer", "accepted"}}
Tell(ids, message) ==
  [id \in Ids |-> IF id \in ids THEN [task[id] EXCEPT !.inbox = Append(@, message)] ELSE task[id]]

\* disconnect_peer
DisconnectPeer(id) == IF be.peers[id] \in {"peer", "accepted"} THEN Tell({id}, "Disconnect") ELSE task

\* handle_command
HandleCommand ==
  LET kind == Head(cmds)[1]
      arg == Head(cmds)[2]
  IN /\ ~failed /\ cmds # <<>>
     /\ cmds' = Tail(cmds)
     /\ CASE kind = "Connect" ->
               /\ be' = [be EXCEPT !.peers[<<arg, "out">>] = "dialing"]
               /\ UNCHANGED <<task, failed>>
          [] kind = "Accept" ->
               /\ be' = IF be.peers[arg] = "peer" THEN [be EXCEPT !.peers[arg] = "accepted"] ELSE be
               /\ task' = IF be.peers[arg] = "peer" THEN Tell({arg}, "Accepted") ELSE task
               /\ failed' = (be.peers[arg] = "accepted")
          [] kind = "Disconnect" ->
               task' = DisconnectPeer(arg) /\ UNCHANGED <<be, failed>>
          [] kind = "Networking" ->
               /\ be' = [be EXCEPT !.networking = arg]
               /\ task' = IF be.networking /\ ~arg THEN Tell(Held, "Disconnect") ELSE task
               /\ UNCHANGED failed
     /\ UNCHANGED <<pm, events, address, ops>>

\* handle_connect_res
HandleConnectRes(c, connected) ==
  LET id == <<c, "out">>
  IN /\ ~failed /\ cmds = <<>> /\ be.peers[id] = "dialing"
     /\ be' = [be EXCEPT !.peers[id] = IF connected THEN "pending" ELSE "gone"]
     /\ task' = [task EXCEPT ![id].phase = IF connected THEN "hello" ELSE "refused",
                             ![id].greeted = connected]
     /\ events' = IF connected THEN events ELSE Append(events, <<"Error", id>>)
     /\ UNCHANGED <<pm, cmds, address, ops, failed>>

\* A connection is accepted, or dropped while networking is disabled.
AcceptSocket(id, a) ==
  /\ ~failed /\ cmds = <<>> /\ \A other \in Ids : task[other].outbox = <<>>
  /\ id[2] = "in" /\ task[id].phase = "none"
  /\ IF a = Self THEN address[id[1]] = Self /\ be.peers[Other(id)] # "none"
     ELSE "inbound" \in Ops /\ FreshConns # {} /\ id[1] = Fresh
  /\ address' = [address EXCEPT ![id[1]] = a]
  /\ be' = IF be.networking THEN [be EXCEPT !.peers[id] = "pending"] ELSE be
  /\ task' = [task EXCEPT ![id].phase = IF be.networking THEN "hello" ELSE "refused"]
  /\ UNCHANGED <<pm, cmds, events, ops, failed>>

\* create_peer: the node recognizes a connection from itself by its nonce.
CreatePeer(id) ==
  IF id[2] = "in" /\ AddrOf(id) = Self /\ be.peers[Other(id)] = "pending"
  THEN /\ be' = [be EXCEPT !.peers[id] = "gone", !.peers[Other(id)] = "gone"]
       /\ task' = [task EXCEPT ![id].inbox = Append(@, "Disconnect"),
                               ![Other(id)].inbox = Append(@, "Dropped"),
                               ![id].outbox = Tail(@)]
       /\ events' = Append(events, <<"Error", Other(id)>>)
  ELSE /\ be' = [be EXCEPT !.peers[id] = "peer"]
       /\ events' = Append(events, <<"Accepted", id>>)
       /\ task' = [task EXCEPT ![id].outbox = Tail(@)]

\* As Closure, but a handshake that failed is not reported.
ClosureOfPeer(id) ==
  IF be.peers[id] \in {"peer", "accepted"} THEN <<<<"Closed", id>>>> ELSE <<>>

\* What is reported when a connection is closed.
Closure(id) ==
  CASE be.peers[id] = "pending" /\ id[2] = "out" -> <<<<"Error", id>>>>
    [] be.peers[id] \in {"peer", "accepted"} -> <<<<"Closed", id>>>>
    [] OTHER -> <<>>

\* handle_peer_event
HandlePeerEvent(id) ==
  LET kind == Head(task[id].outbox)
      state == be.peers[id]
      taken == [task EXCEPT ![id].outbox = Tail(@)]
  IN /\ ~failed /\ cmds = <<>> /\ task[id].outbox # <<>>
     /\ CASE kind = "Info" /\ be.networking /\ state = "pending" -> CreatePeer(id)
          [] kind = "Info" /\ ~(be.networking /\ state = "pending") ->
               task' = taken /\ UNCHANGED <<be, events>>
          [] kind = "Sync" ->
               /\ task' = IF task[id].phase = "sync" THEN [taken EXCEPT ![id].phase = "ack"] ELSE taken
               /\ UNCHANGED <<be, events>>
          [] kind = "Misbehaved" -> /\ events' = Append(events, <<"Misbehaved", id>>)
                                    /\ task' = taken /\ UNCHANGED be
          [] kind = "BadHandshake" ->
               /\ events' = IF state = "pending" THEN Append(events, <<"BadHandshake", id>>) ELSE events
               /\ task' = taken /\ UNCHANGED be
          [] kind = "Closed" ->
               /\ be' = [be EXCEPT !.peers[id] = "gone"]
               /\ events' = events \o Closure(id)
               /\ task' = taken
     /\ UNCHANGED <<pm, cmds, address, ops, failed>>

----------------------------------------------------------------------------
(* The tasks. *)

TaskStep(id, new) ==
  /\ ~failed /\ task' = [task EXCEPT ![id] = new]
  /\ UNCHANGED <<pm, be, cmds, events, address, failed>>

Ended(id) == task[id].phase \in {"done", "refused"}

\* The first half of an inbound handshake, which waits until the backend has seen it ...
ReceiveHello(id) ==
  /\ id[2] = "in" /\ task[id].phase = "hello"
  /\ AddrOf(id) = Self => task[Other(id)].greeted
  /\ TaskStep(id, [task[id] EXCEPT !.phase = "sync", !.outbox = @ \o <<"Info", "Sync">>])
  /\ UNCHANGED ops

\* ... and the second.
SendHelloAck(id) ==
  /\ task[id].phase = "ack"
  /\ TaskStep(id, [task[id] EXCEPT !.phase = "run", !.greeted = TRUE])
  /\ UNCHANGED ops

ReceiveHelloAck(id) ==
  /\ id[2] = "out" /\ task[id].phase = "hello"
  /\ AddrOf(id) = Self => task[Other(id)].greeted
  /\ TaskStep(id, [task[id] EXCEPT !.phase = "run", !.outbox = Append(@, "Info")])
  /\ UNCHANGED ops

\* run_handshake: a timeout, a closed socket, or a wrong message
HandshakeFails(id, wrong) ==
  /\ task[id].phase \in {"hello", "sync", "ack"}
  /\ AddrOf(id) = Self => ~wrong /\ (~scenario.prompt \/ (Ended(Other(id)) /\ ~task[Other(id)].greeted))
  /\ IF wrong THEN Operation("misbehave") /\ task[id].phase = "hello" ELSE UNCHANGED ops
  /\ TaskStep(id, [task[id] EXCEPT !.phase = "done",
                     !.outbox = @ \o IF wrong THEN <<"BadHandshake", "Closed">> ELSE <<"Closed">>])

\* run_impl: events of the backend come first.
HandleBackendEvent(id) ==
  LET inbox == task[id].inbox
  IN /\ task[id].phase \in {"run", "open"} /\ inbox # <<>> /\ id \notin stalled
     /\ TaskStep(id, IF Head(inbox) = "Accepted"
                     THEN [task[id] EXCEPT !.phase = "open", !.inbox = Tail(@)]
                     ELSE [task[id] EXCEPT !.phase = "done", !.inbox = <<>>, !.outbox = Append(@, "Closed")])
     /\ UNCHANGED ops

\* A peer that is accepted misbehaves ...
ReceiveWrongMessage(id) ==
  /\ task[id].phase = "open" /\ task[id].inbox = <<>> /\ AddrOf(id) # Self /\ id \notin stalled
  /\ Operation("misbehave")
  /\ TaskStep(id, [task[id] EXCEPT !.outbox = Append(@, "Misbehaved")])

\* ... or closes the connection.
SocketCloses(id) ==
  /\ task[id].phase = "open" /\ task[id].inbox = <<>> /\ id \notin stalled
  /\ AddrOf(id) = Self => Ended(Other(id))
  /\ TaskStep(id, [task[id] EXCEPT !.phase = "done", !.outbox = Append(@, "Closed")])
  /\ UNCHANGED ops

\* A remote stops reading: the task that sends it a message, or WillDisconnect, waits,
\* and takes no more events of the backend. There is no timeout after the handshake ...
StopReading(id) ==
  /\ task[id].phase \in {"run", "open"} /\ AddrOf(id) # Self /\ id \notin stalled
  /\ Operation("stall")
  /\ stalled' = stalled \cup {id}
  /\ UNCHANGED <<pm, be, cmds, events, task, address, failed>>

\* ... but the connection may break down.
SendFails(id) ==
  /\ task[id].phase \in {"run", "open"} /\ id \in stalled
  /\ TaskStep(id, [task[id] EXCEPT !.phase = "done", !.inbox = <<>>, !.outbox = Append(@, "Closed")])
  /\ UNCHANGED ops

----------------------------------------------------------------------------
Control ==
  \/ \E a \in Addrs : \/ \E role \in {"Outbound", "Feeler"} : Connect(a, role)
                      \/ Ban(a) \/ Forgive(a) \/ AddReserved(a) \/ RemoveReserved(a)
  \/ \E id \in Ids : Disconnect(id)
  \/ \E enable \in BOOLEAN : EnableNetworking(enable)

Dial == \E c \in Conns : \E connected \in BOOLEAN : HandleConnectRes(c, connected)
Handshake(id) == ReceiveHello(id) \/ SendHelloAck(id) \/ ReceiveHelloAck(id) \/ HandshakeFails(id, FALSE)
Network(id) ==
  \/ \E a \in Addrs : AcceptSocket(id, a)
  \/ HandshakeFails(id, TRUE)
  \/ ReceiveWrongMessage(id)
  \/ SocketCloses(id)
  \/ SendFails(id)

\* The loops go on; connecting and handshakes have timeouts, sending has none.
Progress ==
  \/ HandleEvent \/ HandleCommand \/ Dial
  \/ \E id \in Ids : HandlePeerEvent(id) \/ Handshake(id) \/ HandleBackendEvent(id)

Next ==
  /\ \/ (Control \/ Progress \/ \E id \in Ids : Network(id)) /\ UNCHANGED stalled
     \/ \E id \in Ids : StopReading(id)
  /\ UNCHANGED scenario

Fairness == WF_vars(Progress /\ UNCHANGED <<stalled, scenario>>)

Spec == Init /\ [][Next]_vars /\ Fairness

----------------------------------------------------------------------------
\* Type correctness.
TypeOK ==
  /\ pm.pending \in [Addrs -> {"none", "Outbound", "Feeler"}]
  /\ pm.peers \in [Ids -> {"none", "Inbound", "Outbound", "Feeler"}]
  /\ pm.leaving \subseteq Connected(pm)
  /\ be.peers \in [Ids -> {"none", "dialing", "pending", "peer", "accepted", "gone"}]
  /\ \A id \in Ids : task[id].phase \in {"none", "refused", "hello", "sync", "ack", "run", "open", "done"}
  /\ stalled \subseteq Ids

\* "the address must be present in pending_outbound_connects"
\* (p2p/src/peer_manager/mod.rs:1091 and 1167), and a peer is reported and accepted once.
AssertionsHold == ~failed

Queued(kind, id) == \E i \in DOMAIN events : events[i] = <<kind, id>>
ToldToLeave(id) ==
  \/ \E i \in DOMAIN cmds : cmds[i] = <<"Disconnect", id>>
  \/ \E i \in DOMAIN task[id].inbox : task[id].inbox[i] = "Disconnect"
  \/ task[id].phase = "done"

\* No peer is left alone: the backend's peers are known to the peer manager, or on their
\* way in or out, and the peer manager's are the backend's until it is told.
PeersAgree ==
  \A id \in Ids :
    /\ be.peers[id] \in {"peer", "accepted"} =>
         pm.peers[id] # "none" \/ Queued("Accepted", id) \/ ToldToLeave(id)
    /\ pm.peers[id] # "none" => be.peers[id] \in {"peer", "accepted"} \/ Queued("Closed", id)

\* The node does not become a peer of itself, unless a handshake times out halfway or
\* networking is switched off during one:
\* "Backend expects to receive PeerInfoReceived before the outgoing connection has a
\* chance to complete the handshake; specifically, it relies on this fact when detecting
\* self-connections"
\* (p2p/src/net/default_backend/peer.rs:258).
NoSelfConnection ==
  scenario.prompt /\ "network" \notin Ops => \A id \in Connected(pm) : AddrOf(id) # Self

\* Peers of a banned address are all being disconnected, whenever they connected.
BannedLeave == \A id \in Connected(pm) : AddrOf(id) \in pm.banned => id \in pm.leaving

\* The number of inbound peers is limited, but for those that are about to leave.
InboundLimited == Cardinality(ActiveInbound(pm)) <= MaxInbound

\* "Can't have multiple connections to the same socket address"
\* (p2p/src/peer_manager/mod.rs:1931), not even by a feeler, which is not checked when it
\* is accepted: it would reach an unreachable!(). The exception: a feeler to an address
\* that the address database forgot while it was connected.
OneOutbound ==
  \A a \in Addrs :
    /\ Cardinality({id \in Outbound(pm, a) : pm.peers[id] = "Outbound"}) <= 1
    /\ "forgotten" \notin Ops => Cardinality(Outbound(pm, a)) <= 1

\* The peer manager and the backend agree on the peers, and the peer manager's rules hold
\* for them, whatever happened between the decision to connect and the connection.
ConnectionsInv ==
  /\ TypeOK /\ AssertionsHold /\ PeersAgree
  /\ BannedLeave /\ InboundLimited /\ OneOutbound /\ NoSelfConnection

\* The peers whose task waits for its remote to read.
Stuck == {id \in stalled : task[id].phase \in {"run", "open"}}

\* try_connect "sends a command to the networking backend which then reports at some point
\* in the future whether the connection failed or succeeded"
\* (p2p/src/peer_manager/mod.rs:613), unless networking is switched off meanwhile, peers
\* that are told to leave do, and so do all peers once networking is disabled for good.
\* The exception: peers whose remote keeps the connection and does not read. Their tasks
\* wait in socket.send (p2p/src/net/default_backend/peer.rs:459 and 463), and the request
\* to leave waits behind it (backend.rs:298).
ConnectionsSettle ==
  <>[]/\ pm.leaving \subseteq Stuck
      /\ "network" \notin Ops =>
           \A a \in IF scenario.prompt THEN Remotes ELSE Addrs : pm.pending[a] = "none"
      /\ ~pm.networking => Connected(pm) \subseteq Stuck
=============================================================================
