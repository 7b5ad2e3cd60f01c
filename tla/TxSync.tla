------------------------------- MODULE TxSync -------------------------------
(***************************************************************************)
(* Relay of transactions between nodes (PeerTransactionSyncManager): one   *)
(* task per connection and node, which announces transactions of the       *)
(* mempool after a random delay, asks for announced ones and answers such  *)
(* requests.                                                               *)
(*                                                                         *)
(* The mempool is reduced to the transactions it holds and the orphans     *)
(* that wait for a parent; once it has the parent, an orphan follows in a  *)
(* step of its own (TxOrphans has the details).  Transactions leave it     *)
(* when they expire or are mined, which is one action here.  The filter of *)
(* known transactions is exact: in the code it is a rolling Bloom filter,  *)
(* which may forget old transactions and, once in a million, take a new    *)
(* one for known.  Both ends of every link have the transactions service;  *)
(* without it nothing is announced, and the other end's announcements and  *)
(* requests are errors.                                                    *)
(***************************************************************************)
EXTENDS Naturals, Sequences, FiniteSets

CONSTANTS Nodes,
          Txs, Parent,        \* the unconfirmed parent of a transaction, or NoTx
          NoTx,
          Networks            \* the networks to look at, with
                              \*   links: pairs of connected nodes
                              \*   maxAnnouncements: max_peer_tx_announcements
                              \*   downloading: nodes in initial block download
                              \*   purgeLimit: bound on the requests that are purged
                              \*   leaveLimit: bound on the transactions that leave
                              \*     a mempool

ASSUME TxSyncAssumption ==
  /\ Parent \in [Txs -> Txs \cup {NoTx}] /\ NoTx \notin Txs
  /\ \A net \in Networks :
       /\ net.links \subseteq Nodes \X Nodes
       /\ \A l \in net.links : l[1] # l[2] /\ <<l[2], l[1]>> \in net.links
       /\ net.maxAnnouncements \in Nat \ {0} /\ net.downloading \subseteq Nodes
       /\ net.purgeLimit \in Nat /\ net.leaveLimit \in Nat

VARIABLES
  network,            \* one of Networks
  pool, orphans,      \* of each node
  submitted,          \* the transactions users have submitted
  ibd,                \* the nodes in initial block download
  events,             \* per link: MempoolNewTx events of the node's task for the peer
  known,              \* per link: known_transactions
  requested,          \* per link: requested_transactions
  pending,            \* per link: pending_transactions
  channel,            \* per link: messages from the first to the second
  purges, left        \* counters

vars == <<network, pool, orphans, submitted, ibd, events, known, requested, pending, channel, purges, left>>

Links == network.links
MaxAnnouncements == network.maxAnnouncements
PurgeLimit == network.purgeLimit
LeaveLimit == network.leaveLimit

\* Nothing is purged, ignored or removed.
Calm == /\ network.downloading = {} /\ PurgeLimit = 0 /\ LeaveLimit = 0
        /\ MaxAnnouncements >= Cardinality(Txs)

Message == [type : {"New", "Request", "Found", "NotFound"}, tx : Txs]
Msg(type, t) == [type |-> type, tx |-> t]

Back(l) == <<l[2], l[1]>>
LinksOf(n) == {l \in Links : l[1] = n}

Init ==
  /\ network \in Networks
  /\ pool = [n \in Nodes |-> {}] /\ orphans = [n \in Nodes |-> {}]
  /\ submitted = {}
  /\ ibd = network.downloading
  /\ events = [l \in Links |-> <<>>] /\ channel = [l \in Links |-> <<>>]
  /\ known = [l \in Links |-> {}]
  /\ requested = [l \in Links |-> {}]
  /\ pending = [l \in Links |-> {}]
  /\ purges = 0 /\ left = 0

----------------------------------------------------------------------------
(***************************************************************************)
(* The mempool                                                             *)
(***************************************************************************)
HasParent(n, t) == Parent[t] \in pool[n] \cup {NoTx}

\* A transaction enters the mempool and is announced to the tasks of all peers.
Accept(n, t) ==
  /\ pool' = [pool EXCEPT ![n] = @ \cup {t}]
  /\ orphans' = [orphans EXCEPT ![n] = @ \ {t}]
  /\ events' = [l \in Links |-> IF l \in LinksOf(n) THEN Append(events[l], t) ELSE events[l]]

\* As AddTransaction, but orphans are not kept.
AddTransactionNoOrphans(n, t) ==
  IF t \notin pool[n] /\ HasParent(n, t) THEN Accept(n, t)
  ELSE UNCHANGED <<pool, orphans, events>>

\* A duplicate, a transaction, or an orphan
AddTransaction(n, t) ==
  IF t \in pool[n] THEN UNCHANGED <<pool, orphans, events>>
  ELSE IF HasParent(n, t) THEN Accept(n, t)
  ELSE /\ orphans' = [orphans EXCEPT ![n] = @ \cup {t}]
       /\ UNCHANGED <<pool, events>>

\* A user submits a transaction of her own.
SubmitTx(n, t) ==
  /\ t \notin submitted
  /\ HasParent(n, t)
  /\ submitted' = submitted \cup {t}
  /\ Accept(n, t)
  /\ UNCHANGED <<ibd, known, requested, pending, channel, purges, left>>

\* The mempool tries an orphan again after its parent has come.
PerformWorkUnit(n, t) ==
  /\ t \in orphans[n]
  /\ HasParent(n, t)
  /\ Accept(n, t)
  /\ UNCHANGED <<submitted, ibd, known, requested, pending, channel, purges, left>>

\* A transaction is mined or expires, with what depends on it.
LeavePool(n, t) ==
  /\ left < LeaveLimit
  /\ t \in pool[n]
  /\ pool' = [pool EXCEPT ![n] = {u \in @ : u # t /\ Parent[u] # t}]
  /\ left' = left + 1
  /\ UNCHANGED <<orphans, submitted, ibd, events, known, requested, pending, channel, purges>>

EndDownload(n) ==
  /\ n \in ibd
  /\ ibd' = ibd \ {n}
  /\ UNCHANGED <<pool, orphans, submitted, events, known, requested, pending, channel, purges, left>>

----------------------------------------------------------------------------
(***************************************************************************)
(* The task of node l[1] for its peer l[2]                                 *)
(***************************************************************************)
\* handle_local_event: what the peer does not know is to be announced.
HandleLocalEvent(l) ==
  /\ events[l] # <<>>
  /\ LET t == Head(events[l])
         new == {t} \ known[l]
     IN /\ known' = [known EXCEPT ![l] = @ \cup new]
        /\ pending' = [pending EXCEPT ![l] = @ \cup new]
  /\ events' = [events EXCEPT ![l] = Tail(@)]
  /\ UNCHANGED <<pool, orphans, submitted, ibd, requested, channel, purges, left>>

Say(l, m) == channel' = [channel EXCEPT ![l] = Append(@, m)]

\* Each transaction is due after a delay of its own, so in any order.
Announce(l, t) ==
  /\ t \in pending[l]
  /\ pending' = [pending EXCEPT ![l] = @ \ {t}]
  /\ Say(l, Msg("New", t))
  /\ UNCHANGED <<pool, orphans, submitted, ibd, events, known, requested, purges, left>>

\* The message from the peer that is handled next
Incoming(l) == channel[Back(l)]

IsNext(l, type) == Incoming(l) # <<>> /\ Head(Incoming(l)).type = type

Taken(l) == [channel EXCEPT ![Back(l)] = Tail(@)]

TakenAndSaid(l, m) == [Taken(l) EXCEPT ![l] = Append(@, m)]

\* Announcements are ignored in initial block download, if they are duplicates,
\* and if too many requests are not answered.
Wanted(l, t) ==
  /\ l[1] \notin ibd
  /\ t \notin requested[l]
  /\ Cardinality(requested[l]) < MaxAnnouncements
  /\ t \notin pool[l[1]]

HandleAnnouncement(l) ==
  /\ IsNext(l, "New")
  /\ LET t == Head(Incoming(l)).tx
     IN /\ known' = [known EXCEPT ![l] = @ \cup {t}]
        /\ IF Wanted(l, t)
           THEN /\ requested' = [requested EXCEPT ![l] = @ \cup {t}]
                /\ channel' = TakenAndSaid(l, Msg("Request", t))
           ELSE /\ channel' = Taken(l)
                /\ UNCHANGED requested
  /\ UNCHANGED <<pool, orphans, submitted, ibd, events, pending, purges, left>>

Answer(l, t) == TakenAndSaid(l, Msg(IF t \in pool[l[1]] THEN "Found" ELSE "NotFound", t))

HandleRequest(l) ==
  /\ IsNext(l, "Request")
  /\ channel' = Answer(l, Head(Incoming(l)).tx)
  /\ UNCHANGED <<pool, orphans, submitted, ibd, events, known, requested, pending, purges, left>>

\* As Settled, but only the transaction itself settles its request.
SettledIfFound(l, m) == requested[l] \ {u \in {m.tx} : m.type = "Found"}

Settled(l, m) == requested[l] \ {m.tx}

\* An answer to a request that was purged is ignored.
HandleResponse(l) ==
  /\ IsNext(l, "Found") \/ IsNext(l, "NotFound")
  /\ LET m == Head(Incoming(l))
     IN /\ requested' = [requested EXCEPT ![l] = Settled(l, m)]
        /\ IF m.tx \in requested[l] /\ m.type = "Found" THEN AddTransaction(l[1], m.tx)
           ELSE UNCHANGED <<pool, orphans, events>>
  /\ channel' = Taken(l)
  /\ UNCHANGED <<submitted, ibd, known, pending, purges, left>>

\* purge_if_needed: the request has expired.
Purge(l, t) ==
  /\ purges < PurgeLimit
  /\ t \in requested[l]
  /\ requested' = [requested EXCEPT ![l] = @ \ {t}]
  /\ purges' = purges + 1
  /\ UNCHANGED <<pool, orphans, submitted, ibd, events, known, pending, channel, left>>

TaskStep(l) ==
  \/ HandleLocalEvent(l)
  \/ \E t \in Txs : Announce(l, t)
  \/ HandleAnnouncement(l)
  \/ HandleRequest(l)
  \/ HandleResponse(l)

Next ==
  /\ \/ \E n \in Nodes, t \in Txs : SubmitTx(n, t)
     \/ \E n \in Nodes, t \in Txs : LeavePool(n, t)
     \/ \E n \in Nodes, t \in Txs : PerformWorkUnit(n, t)
     \/ \E n \in Nodes : EndDownload(n)
     \/ \E l \in Links : TaskStep(l)
     \/ \E l \in Links, t \in Txs : Purge(l, t)
  /\ UNCHANGED network

\* As long as a task or a mempool has something to do, one of them does it; delays end.
Fairness ==
  WF_vars(/\ \/ \E l \in Links : TaskStep(l)
             \/ \E n \in Nodes, t \in Txs : PerformWorkUnit(n, t)
          /\ UNCHANGED network)

Spec == Init /\ [][Next]_vars /\ Fairness

----------------------------------------------------------------------------
(***************************************************************************)
(* Properties                                                              *)
(***************************************************************************)
\* Type correctness; a peer never has more than the allowed number of requests.
TypeOK ==
  /\ pool \in [Nodes -> SUBSET Txs]
  /\ orphans \in [Nodes -> SUBSET Txs]
  /\ submitted \subseteq Txs
  /\ known \in [Links -> SUBSET Txs]
  /\ requested \in [Links -> SUBSET Txs]
  /\ pending \in [Links -> SUBSET Txs]
  /\ \A l \in Links : channel[l] \in Seq(Message) /\ events[l] \in Seq(Txs)
  /\ \A l \in Links : Cardinality(requested[l]) <= MaxAnnouncements

\* How often a message is on its way
InFlight(l, m) == Cardinality({i \in DOMAIN channel[l] : channel[l][i] = m})

\* A transaction that was submitted anywhere reaches the mempool of every node,
\* also over several hops, from both sides at once, and if its random delay
\* makes it come before its parent: as long as no announcement is ignored and no
\* request purged, which nobody makes up for.
Relayed == \A t \in Txs : (Calm /\ t \in submitted) ~> (\A n \in Nodes : t \in pool[n])

\* What is in requested_transactions is on its way exactly once, as a request or
\* as its answer: although requests are purged and transactions leave the peer's
\* mempool meanwhile, nothing is downloaded twice from a peer, and no slot of the
\* limited requests is held by something that will not be answered. And once no
\* more transactions come, no request is left: each is settled by its answer,
\* without the purge that comes after an hour, also if the peer's mempool has
\* lost the transaction it announced.
RequestsEnd ==
  /\ [](TypeOK /\ \A l \in Links : \A t \in requested[l] :
          InFlight(l, Msg("Request", t)) + InFlight(Back(l), Msg("Found", t))
            + InFlight(Back(l), Msg("NotFound", t)) = 1)
  /\ <>[](\A l \in Links : requested[l] = {})
=============================================================================
