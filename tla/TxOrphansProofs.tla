-------------------------- MODULE TxOrphansProofs ----------------------------
(***************************************************************************)
(* First the work queue by itself: QueueIntegrity, WorkNotForgotten and    *)
(* FairRounds for any peers and work, also work that arrives for a removed *)
(* peer.  The operators of the queue are taken one by one: each preserves  *)
(* QueueOK and TurnsOK, and AdvanceRound establishes RoundOpen besides.    *)
(*                                                                         *)
(* Then the mempool: it uses the work queue by its operations only         *)
(* (UsesWorkQueue), so that what is proved of the queue holds in the       *)
(* mempool, and nothing of a disconnected peer is left behind unless a     *)
(* call of the peer came late (NothingOfGonePeers): for any transactions,  *)
(* peers and limits.                                                       *)
(***************************************************************************)
EXTENDS TxOrphans, TLAPS, FiniteSetTheorems

\* The turns r can still have in this round: one for each entry, and one more
\* if an insertion can schedule it.
Turns(q, r) == q.scheduled[r] + (IF r \in q.queued THEN 0 ELSE 1)

\* The removal of a peer gives it back a turn it already had.
Spare(g, r) == IF r \in g THEN 1 ELSE 0

\* The rounds p waits for.
Rounds(q, p) == IF q.scheduled[p] = 0 THEN 1 ELSE 2

\* The states of a peer that the comment on WorkQueue lists; a peer that got
\* work after its removal may also be scheduled twice, or without work.
PeerOK(q, g, l, p) ==
    /\ p \notin q.queued => q.work[p] = {}
    /\ p \in g /\ p \in q.queued => p \in l
    /\ Turns(q, p) <= 1 + Spare(g, p)
    /\ p \in q.queued /\ q.scheduled[p] > 0 /\ p \notin l => q.work[p] # {}

QueueOK(q, g, l) == \A p \in Peers : PeerOK(q, g, l, p)

\* A round that is over has been advanced.
RoundOpen(q) == NobodyScheduled(q) => q.queued = {}

\* How often r had a turn while p waits.
WaitOK(q, g, l, o, p, r) ==
    /\ q.work[p] = {} => o[p][r] = 0
    /\ o[p][r] + Turns(q, r) <= Rounds(q, p) + Spare(g, r)
    /\ r \notin l => o[p][r] <= 2

TurnsOK(q, g, l, o) == \A p, r \in Peers : WaitOK(q, g, l, o, p, r)

QueueInv ==
    /\ QueueTypeOK
    /\ QueueOK(wq, gone, late)
    /\ RoundOpen(wq)
    /\ TurnsOK(wq, gone, late, overtaken)
    /\ panicked => late # {}

Histories == [Peers -> [Peers -> Nat]]

-----------------------------------------------------------------------------
\* The fields of a queue.
LEMMA QueueFields ==
    ASSUME NEW q \in Queues
    PROVE  /\ q.queued \subseteq Peers
           /\ q.work \in [Peers -> SUBSET Items]
           /\ q.scheduled \in [Peers -> Nat]
           /\ \A p \in Peers : q.scheduled[p] \in Nat
  BY DEF Queues

\* The turns left and the bounds on them are numbers.
LEMMA TurnsTypes ==
    ASSUME NEW q \in Queues, NEW r \in Peers
    PROVE  /\ Turns(q, r) \in Nat
           /\ Rounds(q, r) \in Nat /\ Rounds(q, r) >= 1
           /\ \A g : Spare(g, r) \in Nat
  <1>1. q.scheduled[r] \in Nat
    BY QueueFields
  <1> QED BY <1>1 DEF Turns, Rounds, Spare

\* A peer that has just had its turn, or has no work, has not been overtaken.
LEMMA FreshWait ==
    ASSUME NEW q \in Queues, NEW g, NEW l, NEW o \in Histories, NEW p \in Peers,
           NEW r \in Peers, o[p][r] = 0, PeerOK(q, g, l, r)
    PROVE  WaitOK(q, g, l, o, p, r)
  <1>1. /\ Turns(q, r) \in Nat /\ Rounds(q, p) \in Nat /\ Rounds(q, p) >= 1
        /\ Spare(g, r) \in Nat
    BY TurnsTypes
  <1>2. Turns(q, r) <= 1 + Spare(g, r)
    BY DEF PeerOK
  <1> QED BY <1>1, <1>2 DEF WaitOK

\* advance_round keeps a queue well formed and leaves no finished round.
LEMMA AdvanceRoundOK ==
    ASSUME NEW q \in Queues, NEW g \in SUBSET Peers, NEW l \in SUBSET g,
           NEW o \in Histories, QueueOK(q, g, l), TurnsOK(q, g, l, o)
    PROVE  /\ AdvanceRound(q) \in Queues
           /\ QueueOK(AdvanceRound(q), g, l)
           /\ RoundOpen(AdvanceRound(q))
           /\ TurnsOK(AdvanceRound(q), g, l, o)
           /\ AdvanceRound(q).work = q.work
  <1>1. CASE ~NobodyScheduled(q)
    BY <1>1 DEF AdvanceRound, RoundOpen
  <1>2. CASE NobodyScheduled(q)
    <2> DEFINE busy == {p \in q.queued : q.work[p] # {}}
    <2> DEFINE a == AdvanceRound(q)
    <2>1. a = [queued |-> busy, work |-> q.work,
               scheduled |-> [p \in Peers |-> IF p \in busy THEN 1 ELSE 0]]
      BY <1>2 DEF AdvanceRound
    <2>2. a \in Queues
      BY <2>1 DEF Queues
    <2>3. /\ a.queued = busy
          /\ a.work = q.work
          /\ a.scheduled = [p \in Peers |-> IF p \in busy THEN 1 ELSE 0]
      BY <2>1
    <2>4. \A p \in busy : p \in Peers /\ p \in q.queued /\ q.work[p] # {}
      BY QueueFields
    <2>5. \A p \in Peers : p \in busy <=> p \in q.queued /\ q.work[p] # {}
      OBVIOUS
    <2> HIDE DEF a, busy
    <2>6. \A p \in Peers : Turns(a, p) = 1
      <3> SUFFICES ASSUME NEW p \in Peers PROVE Turns(a, p) = 1
        OBVIOUS
      <3>1. a.scheduled[p] = IF p \in busy THEN 1 ELSE 0
        BY <2>3
      <3> QED BY <2>3, <3>1 DEF Turns
    <2>7. \A p \in Peers : PeerOK(a, g, l, p)
      <3> SUFFICES ASSUME NEW p \in Peers PROVE PeerOK(a, g, l, p)
        OBVIOUS
      <3>1. PeerOK(q, g, l, p)
        BY DEF QueueOK
      <3>2. a.work[p] = q.work[p] /\ (p \in a.queued <=> p \in busy)
        BY <2>3
      <3>3. Turns(a, p) <= 1 + Spare(g, p)
        BY <2>6 DEF Spare
      <3> QED BY <2>4, <2>5, <3>1, <3>2, <3>3 DEF PeerOK
    <2>8. RoundOpen(a)
      <3> SUFFICES ASSUME NEW p \in busy PROVE a.scheduled[p] # 0 /\ p \in Peers
        BY <2>3 DEF RoundOpen, NobodyScheduled
      <3> QED BY <2>3, <2>4
    <2>9. \A p, r \in Peers : WaitOK(a, g, l, o, p, r)
      <3> SUFFICES ASSUME NEW p \in Peers, NEW r \in Peers PROVE WaitOK(a, g, l, o, p, r)
        OBVIOUS
      <3>1. WaitOK(q, g, l, o, p, r) /\ o[p][r] \in Nat
        BY DEF TurnsOK, Histories
      <3>2. CASE p \in busy
        <4>1. Rounds(q, p) = 1 /\ Rounds(a, p) = 2
          BY <1>2, <2>3, <3>2 DEF Rounds, NobodyScheduled
        <4>2. Turns(q, r) \in Nat /\ Turns(a, r) = 1 /\ Spare(g, r) \in Nat
          BY <2>6, TurnsTypes
        <4>3. a.work[p] = q.work[p]
          BY <2>3
        <4> QED BY <3>1, <4>1, <4>2, <4>3 DEF WaitOK
      <3>3. CASE p \notin busy
        <4>1. q.work[p] = {}
          BY <2>5, <3>3 DEF QueueOK, PeerOK
        <4>2. o[p][r] = 0
          BY <3>1, <4>1 DEF WaitOK
        <4> QED BY <2>2, <2>7, <4>2, FreshWait
      <3> QED BY <3>2, <3>3
    <2> QED BY <2>2, <2>3, <2>7, <2>8, <2>9 DEF a, QueueOK, TurnsOK
  <1> QED BY <1>1, <1>2

\* Popping entries of removed peers keeps the queue well formed.
LEMMA PopStaleOK ==
    ASSUME NEW q \in Queues, NEW g \in SUBSET Peers, NEW l \in SUBSET g,
           NEW o \in Histories, QueueOK(q, g, l), TurnsOK(q, g, l, o),
           NEW drop, drop \subseteq Stale(q)
    PROVE  /\ PopStale(q, drop) \in Queues
           /\ QueueOK(PopStale(q, drop), g, l)
           /\ RoundOpen(PopStale(q, drop))
           /\ TurnsOK(PopStale(q, drop), g, l, o)
           /\ PopStale(q, drop).work = q.work
  <1> DEFINE r == [q EXCEPT !.scheduled =
                      [p \in Peers |-> IF p \in drop THEN 0 ELSE q.scheduled[p]]]
  <1>1. /\ r \in Queues
        /\ r.queued = q.queued
        /\ r.work = q.work
        /\ \A p \in Peers : r.scheduled[p] = IF p \in drop THEN 0 ELSE q.scheduled[p]
    BY DEF Queues
  <1>2. \A p \in drop : p \notin q.queued /\ q.work[p] = {}
    BY DEF Stale, QueueOK, PeerOK, Queues
  <1> HIDE DEF r
  <1>3. \A p \in Peers : Turns(r, p) <= Turns(q, p)
    <2> SUFFICES ASSUME NEW p \in Peers PROVE Turns(r, p) <= Turns(q, p)
      OBVIOUS
    <2>1. q.scheduled[p] \in Nat
      BY QueueFields
    <2> QED BY <1>1, <2>1 DEF Turns
  <1>4. \A p \in Peers : PeerOK(r, g, l, p)
    <2> SUFFICES ASSUME NEW p \in Peers PROVE PeerOK(r, g, l, p)
      OBVIOUS
    <2>1. PeerOK(q, g, l, p)
      BY DEF QueueOK
    <2>2. Turns(r, p) <= 1 + Spare(g, p)
      <3>1. Turns(q, p) <= 1 + Spare(g, p)
        BY <2>1 DEF PeerOK
      <3>2. Turns(q, p) \in Nat /\ Turns(r, p) \in Nat /\ Spare(g, p) \in Nat
        BY <1>1, TurnsTypes
      <3> QED BY <1>3, <3>1, <3>2
    <2> QED BY <1>1, <2>1, <2>2 DEF PeerOK
  <1>5. \A p, s \in Peers : WaitOK(r, g, l, o, p, s)
    <2> SUFFICES ASSUME NEW p \in Peers, NEW s \in Peers PROVE WaitOK(r, g, l, o, p, s)
      OBVIOUS
    <2>1. WaitOK(q, g, l, o, p, s)
      BY DEF TurnsOK
    <2>2. CASE p \in drop
      <3>1. o[p][s] = 0
        BY <1>2, <2>1, <2>2 DEF WaitOK
      <3> QED BY <1>1, <1>4, <3>1, FreshWait
    <2>3. CASE p \notin drop
      <3>1. Rounds(r, p) = Rounds(q, p) /\ r.work[p] = q.work[p]
        BY <1>1, <2>3 DEF Rounds
      <3>2. /\ Turns(r, s) <= Turns(q, s) /\ Turns(r, s) \in Nat /\ Turns(q, s) \in Nat
            /\ Rounds(q, p) \in Nat /\ Spare(g, s) \in Nat /\ o[p][s] \in Nat
        BY <1>1, <1>3, TurnsTypes DEF Histories
      <3> QED BY <2>1, <3>1, <3>2 DEF WaitOK
    <2> QED BY <2>2, <2>3
  <1>6. PopStale(q, drop) = AdvanceRound(r)
    BY DEF PopStale, r
  <1>7. QueueOK(r, g, l) /\ TurnsOK(r, g, l, o)
    BY <1>4, <1>5 DEF QueueOK, TurnsOK
  <1> QED BY <1>1, <1>6, <1>7, AdvanceRoundOK

\* A turn of p keeps the queue well formed, with the history it leads to.
LEMMA ServedOK ==
    ASSUME NEW q \in Queues, NEW g \in SUBSET Peers, NEW l \in SUBSET g,
           NEW o \in Histories, QueueOK(q, g, l), TurnsOK(q, g, l, o),
           NEW p \in Peers, p \in q.queued, q.scheduled[p] > 0,
           NEW rest \in SUBSET Items,
           NEW n \in Histories,
           \A r, s \in Peers :
               n[r][s] = IF r = p \/ q.work[r] = {} THEN 0
                         ELSE IF s = p THEN o[r][s] + 1 ELSE o[r][s]
    PROVE  /\ Served(q, p, rest) \in Queues
           /\ QueueOK(Served(q, p, rest), g, l)
           /\ RoundOpen(Served(q, p, rest))
           /\ TurnsOK(Served(q, p, rest), g, l, n)
  <1> DEFINE t == [q EXCEPT !.work[p] = rest, !.scheduled[p] = @ - 1]
  <1>1. q.scheduled[p] \in Nat /\ q.scheduled[p] - 1 \in Nat
    BY QueueFields
  <1>2. /\ t.queued = q.queued
        /\ t.work = [q.work EXCEPT ![p] = rest]
        /\ t.scheduled = [q.scheduled EXCEPT ![p] = q.scheduled[p] - 1]
    BY DEF Queues
  <1>3. t \in Queues
    <2> DEFINE w == [q.work EXCEPT ![p] = rest]
    <2> DEFINE n1 == [q.scheduled EXCEPT ![p] = q.scheduled[p] - 1]
    <2>1. t = [[q EXCEPT !.work = w] EXCEPT !.scheduled = n1]
      BY DEF Queues
    <2>2. w \in [Peers -> SUBSET Items] /\ n1 \in [Peers -> Nat]
      BY <1>1, QueueFields
    <2> HIDE DEF w, n1
    <2>3. [[q EXCEPT !.work = w] EXCEPT !.scheduled = n1] \in Queues
      BY <2>2 DEF Queues
    <2> QED BY <2>1, <2>3
  <1> HIDE DEF t
  <1>4. /\ \A r \in Peers : t.work[r] = IF r = p THEN rest ELSE q.work[r]
        /\ \A r \in Peers : t.scheduled[r] = IF r = p THEN q.scheduled[p] - 1
                                             ELSE q.scheduled[r]
    BY <1>2, QueueFields
  <1>5. Turns(q, p) = q.scheduled[p] /\ Turns(t, p) = q.scheduled[p] - 1
    BY <1>1, <1>2, <1>4 DEF Turns
  <1>6. \A r \in Peers : r # p => Turns(t, r) = Turns(q, r) /\ Rounds(t, r) = Rounds(q, r)
    BY <1>2, <1>4 DEF Turns, Rounds
  <1>7. \A r \in Peers : PeerOK(t, g, l, r)
    <2> SUFFICES ASSUME NEW r \in Peers PROVE PeerOK(t, g, l, r)
      OBVIOUS
    <2>1. PeerOK(q, g, l, r)
      BY DEF QueueOK
    <2>2. CASE r = p
      <3>1. Spare(g, p) \in Nat /\ (p \notin l => Spare(g, p) = 0)
        BY <2>1, <2>2 DEF Spare, PeerOK
      <3>2. Turns(t, p) <= 1 + Spare(g, p) /\ (p \notin l => t.scheduled[p] = 0)
        BY <1>1, <1>4, <1>5, <2>1, <2>2, <3>1 DEF PeerOK
      <3> QED BY <1>2, <2>1, <2>2, <3>2 DEF PeerOK
    <2>3. CASE r # p
      BY <1>2, <1>4, <1>6, <2>1, <2>3 DEF PeerOK
    <2> QED BY <2>2, <2>3
  <1>8. \A r, s \in Peers : WaitOK(t, g, l, n, r, s)
    <2> SUFFICES ASSUME NEW r \in Peers, NEW s \in Peers PROVE WaitOK(t, g, l, n, r, s)
      OBVIOUS
    <2>1. WaitOK(q, g, l, o, r, s)
      BY DEF TurnsOK
    <2>2. CASE r = p \/ q.work[r] = {}
      <3>1. n[r][s] = 0
        BY <2>2
      <3> QED BY <1>3, <1>7, <3>1, FreshWait
    <2>3. CASE r # p /\ q.work[r] # {}
      <3>1. t.work[r] = q.work[r] /\ Rounds(t, r) = Rounds(q, r)
        BY <1>4, <1>6, <2>3
      <3>2. /\ o[r][s] \in Nat /\ Rounds(q, r) \in Nat /\ Spare(g, s) \in Nat
            /\ Rounds(q, r) <= 2
        BY TurnsTypes DEF Histories, Rounds
      <3>3. CASE s = p
        <4>1. n[r][s] = o[r][s] + 1 /\ Turns(t, s) = Turns(q, s) - 1 /\ Turns(q, s) \in Nat
          BY <1>1, <1>5, <2>3, <3>3
        <4>2. n[r][s] + Turns(t, s) = o[r][s] + Turns(q, s)
          BY <3>2, <4>1
        <4>3. s \notin l => n[r][s] <= 2
          <5>1. s \notin l => Spare(g, s) = 0
            BY <3>3 DEF QueueOK, PeerOK, Spare
          <5>2. Turns(q, s) >= 1
            BY <1>1, <1>5, <3>3
          <5> QED BY <2>1, <3>2, <4>1, <5>1, <5>2 DEF WaitOK
        <4> QED BY <2>1, <2>3, <3>1, <4>2, <4>3 DEF WaitOK
      <3>4. CASE s # p
        <4>1. n[r][s] = o[r][s] /\ Turns(t, s) = Turns(q, s)
          BY <1>6, <2>3, <3>4
        <4> QED BY <2>1, <2>3, <3>1, <4>1 DEF WaitOK
      <3> QED BY <3>3, <3>4
    <2> QED BY <2>2, <2>3
  <1>9. Served(q, p, rest) = AdvanceRound(t)
    BY DEF Served, t
  <1>10. QueueOK(t, g, l) /\ TurnsOK(t, g, l, n)
    BY <1>7, <1>8 DEF QueueOK, TurnsOK
  <1> QED BY <1>3, <1>9, <1>10, AdvanceRoundOK

\* Inserting work keeps the queue well formed: a removed peer that gets work is
\* late.
LEMMA InsertedOK ==
    ASSUME NEW q \in Queues, NEW g \in SUBSET Peers, NEW l \in SUBSET g,
           NEW o \in Histories, QueueOK(q, g, l), RoundOpen(q), TurnsOK(q, g, l, o),
           NEW batch, NEW m \in SUBSET g, l \subseteq m,
           \A p \in g, i \in Items : <<p, i>> \in batch => p \in m
    PROVE  /\ Inserted(q, batch) \in Queues
           /\ QueueOK(Inserted(q, batch), g, m)
           /\ RoundOpen(Inserted(q, batch))
           /\ TurnsOK(Inserted(q, batch), g, m, o)
  <1> DEFINE itemsOf(p) == {i \in Items : <<p, i>> \in batch}
  <1> DEFINE vacant == {p \in Peers : itemsOf(p) # {}} \ q.queued
  <1> DEFINE t == Inserted(q, batch)
  <1>1. t = [queued |-> q.queued \cup vacant,
             work |-> [p \in Peers |-> q.work[p] \cup itemsOf(p)],
             scheduled |-> [p \in Peers |-> IF p \in vacant THEN q.scheduled[p] + 1
                                            ELSE q.scheduled[p]]]
    BY DEF Inserted
  <1>2. vacant \subseteq Peers /\ \A p \in Peers : itemsOf(p) \subseteq Items
    OBVIOUS
  <1>3. \A p \in Peers : p \in vacant <=> itemsOf(p) # {} /\ p \notin q.queued
    OBVIOUS
  <1>4. \A p \in Peers : p \in g /\ itemsOf(p) # {} => p \in m
    OBVIOUS
  <1> HIDE DEF vacant, itemsOf, t
  <1>5. t \in Queues
    BY <1>1, <1>2 DEF Queues
  <1>6. \A p \in Peers : /\ t.work[p] = q.work[p] \cup itemsOf(p)
                         /\ t.scheduled[p] = IF p \in vacant THEN q.scheduled[p] + 1
                                             ELSE q.scheduled[p]
                         /\ p \in t.queued <=> p \in q.queued \/ p \in vacant
    BY <1>1
  <1>7. \A p \in Peers : Turns(t, p) = Turns(q, p)
    <2> SUFFICES ASSUME NEW p \in Peers PROVE Turns(t, p) = Turns(q, p)
      OBVIOUS
    <2>1. q.scheduled[p] \in Nat
      BY QueueFields
    <2> QED BY <1>3, <1>6, <2>1 DEF Turns
  <1>8. \A p \in Peers : PeerOK(t, g, m, p)
    <2> SUFFICES ASSUME NEW p \in Peers PROVE PeerOK(t, g, m, p)
      OBVIOUS
    <2>1. PeerOK(q, g, l, p)
      BY DEF QueueOK
    <2>2. Turns(t, p) <= 1 + Spare(g, p)
      BY <1>7, <2>1 DEF PeerOK
    <2>3. CASE p \in vacant
      BY <1>3, <1>4, <1>6, <2>2, <2>3 DEF PeerOK
    <2>4. CASE p \notin vacant
      <3>1. p \notin q.queued => itemsOf(p) = {}
        BY <1>3, <2>4
      <3> QED BY <1>6, <2>1, <2>2, <2>4, <3>1 DEF PeerOK
    <2> QED BY <2>3, <2>4
  <1>9. RoundOpen(t)
    <2> SUFFICES ASSUME NobodyScheduled(t) PROVE t.queued = {}
      BY DEF RoundOpen
    <2>1. vacant = {}
      BY <1>2, <1>6, QueueFields DEF NobodyScheduled
    <2>2. NobodyScheduled(q)
      BY <1>6, <2>1 DEF NobodyScheduled
    <2> QED BY <1>1, <2>1, <2>2 DEF RoundOpen
  <1>10. \A p, r \in Peers : WaitOK(t, g, m, o, p, r)
    <2> SUFFICES ASSUME NEW p \in Peers, NEW r \in Peers PROVE WaitOK(t, g, m, o, p, r)
      OBVIOUS
    <2>1. WaitOK(q, g, l, o, p, r)
      BY DEF TurnsOK
    <2>2. t.work[p] = {} => q.work[p] = {}
      BY <1>6
    <2>3. /\ Rounds(q, p) \in Nat /\ Rounds(t, p) \in Nat /\ Spare(g, r) \in Nat
          /\ Turns(q, r) \in Nat /\ o[p][r] \in Nat
      BY <1>5, TurnsTypes DEF Histories
    <2>4. Rounds(q, p) <= Rounds(t, p)
      <3>1. q.scheduled[p] \in Nat
        BY QueueFields
      <3> QED BY <1>6, <3>1 DEF Rounds
    <2>5. o[p][r] + Turns(t, r) <= Rounds(t, p) + Spare(g, r)
      <3>1. o[p][r] + Turns(q, r) <= Rounds(q, p) + Spare(g, r)
        BY <2>1 DEF WaitOK
      <3> QED BY <1>7, <2>3, <2>4, <3>1
    <2> QED BY <2>1, <2>2, <2>5 DEF WaitOK
  <1> QED BY <1>5, <1>8, <1>9, <1>10 DEF t, QueueOK, TurnsOK

\* remove_peer keeps the queue well formed.
LEMMA RemovedPeerOK ==
    ASSUME NEW q \in Queues, NEW g \in SUBSET Peers, NEW l \in SUBSET g,
           NEW o \in Histories, QueueOK(q, g, l), RoundOpen(q), TurnsOK(q, g, l, o),
           NEW p \in Peers, p \notin g,
           NEW n \in Histories,
           \A r, s \in Peers : n[r][s] = IF r = p THEN 0 ELSE o[r][s]
    PROVE  /\ RemovedPeer(q, p) \in Queues
           /\ QueueOK(RemovedPeer(q, p), g \cup {p}, l)
           /\ RoundOpen(RemovedPeer(q, p))
           /\ TurnsOK(RemovedPeer(q, p), g \cup {p}, l, n)
  <1> DEFINE t == RemovedPeer(q, p)
  <1>1. /\ t \in Queues
        /\ t.queued = q.queued \ {p}
        /\ t.scheduled = q.scheduled
        /\ \A r \in Peers : t.work[r] = IF r = p THEN {} ELSE q.work[r]
    BY DEF RemovedPeer, Queues
  <1> HIDE DEF t
  <1>2. \A r \in Peers : /\ Turns(q, r) \in Nat /\ Turns(t, r) \in Nat
                         /\ Spare(g, r) \in Nat /\ Spare(g \cup {p}, r) \in Nat
    BY <1>1, TurnsTypes
  <1>3. ASSUME NEW r \in Peers
        PROVE  Turns(t, r) - Spare(g \cup {p}, r) <= Turns(q, r) - Spare(g, r)
    <2>1. q.scheduled[r] \in Nat /\ t.scheduled[r] = q.scheduled[r]
      BY <1>1, QueueFields
    <2> QED BY <1>1, <2>1 DEF Turns, Spare
  <1>4. \A r \in Peers : PeerOK(t, g \cup {p}, l, r)
    <2> SUFFICES ASSUME NEW r \in Peers PROVE PeerOK(t, g \cup {p}, l, r)
      OBVIOUS
    <2>1. PeerOK(q, g, l, r)
      BY DEF QueueOK
    <2>2. Turns(t, r) <= 1 + Spare(g \cup {p}, r)
      <3>1. Turns(q, r) <= 1 + Spare(g, r)
        BY <2>1 DEF PeerOK
      <3>2. Turns(t, r) - Spare(g \cup {p}, r) <= Turns(q, r) - Spare(g, r)
        BY <1>3
      <3>3. /\ Turns(q, r) \in Nat /\ Turns(t, r) \in Nat
            /\ Spare(g, r) \in Nat /\ Spare(g \cup {p}, r) \in Nat
        BY <1>2
      <3> QED BY <3>1, <3>2, <3>3
    <2> QED BY <1>1, <2>1, <2>2 DEF PeerOK
  <1>5. RoundOpen(t)
    BY <1>1 DEF RoundOpen, NobodyScheduled
  <1>6. \A r, s \in Peers : WaitOK(t, g \cup {p}, l, n, r, s)
    <2> SUFFICES ASSUME NEW r \in Peers, NEW s \in Peers
                 PROVE  WaitOK(t, g \cup {p}, l, n, r, s)
      OBVIOUS
    <2>1. CASE r = p
      <3>1. n[r][s] = 0
        BY <2>1
      <3> QED BY <1>1, <1>4, <3>1, FreshWait
    <2>2. CASE r # p
      <3>1. n[r][s] = o[r][s] /\ t.work[r] = q.work[r] /\ Rounds(t, r) = Rounds(q, r)
        BY <1>1, <2>2 DEF Rounds
      <3>2. WaitOK(q, g, l, o, r, s)
        BY DEF TurnsOK
      <3>3. o[r][s] + Turns(t, s) <= Rounds(q, r) + Spare(g \cup {p}, s)
        <4>1. o[r][s] + Turns(q, s) <= Rounds(q, r) + Spare(g, s)
          BY <3>2 DEF WaitOK
        <4>2. o[r][s] \in Nat /\ Rounds(q, r) \in Nat
          BY TurnsTypes DEF Histories
        <4>3. Turns(t, s) - Spare(g \cup {p}, s) <= Turns(q, s) - Spare(g, s)
          BY <1>3
        <4>4. /\ Turns(q, s) \in Nat /\ Turns(t, s) \in Nat
              /\ Spare(g, s) \in Nat /\ Spare(g \cup {p}, s) \in Nat
          BY <1>2
        <4> QED BY <4>1, <4>2, <4>3, <4>4
      <3> QED BY <3>1, <3>2, <3>3 DEF WaitOK
    <2> QED BY <2>1, <2>2
  <1> QED BY <1>1, <1>4, <1>5, <1>6 DEF t, QueueOK, TurnsOK

-----------------------------------------------------------------------------
\* The empty queue satisfies the invariant.
LEMMA QueueInitOK == QueueInit => QueueInv
  <1> SUFFICES ASSUME QueueInit PROVE QueueInv
    OBVIOUS
  <1>1. EmptyQueue \in Queues
    BY DEF EmptyQueue, Queues
  <1>2. QueueTypeOK
    BY <1>1 DEF QueueInit, QueueTypeOK
  <1>3. QueueOK(wq, gone, late) /\ RoundOpen(wq) /\ TurnsOK(wq, gone, late, overtaken)
    BY DEF QueueInit, EmptyQueue, QueueOK, PeerOK, RoundOpen, TurnsOK, WaitOK, Turns,
           Spare, Rounds
  <1> QED BY <1>2, <1>3 DEF QueueInv, QueueInit

\* Every operation of the queue preserves the invariant.
LEMMA QueueStepOK ==
    ASSUME QueueInv, [QueueNext]_queueVars
    PROVE  QueueInv'
  <1> USE DEF QueueTypeOK, Histories
  <1>0. /\ wq \in Queues /\ gone \in SUBSET Peers /\ late \in SUBSET gone
        /\ overtaken \in [Peers -> [Peers -> Nat]]
        /\ QueueOK(wq, gone, late) /\ RoundOpen(wq) /\ TurnsOK(wq, gone, late, overtaken)
    BY DEF QueueInv
  <1>1. ASSUME NEW batch
        PROVE  /\ late \cup LateIn(batch) \in SUBSET gone
               /\ \A p \in gone, i \in Items :
                      <<p, i>> \in batch => p \in late \cup LateIn(batch)
    BY <1>0 DEF LateIn
  <1>2. ASSUME NEW batch \in Batches, ~panicked, Insert(batch)
        PROVE  QueueInv'
    <2> DEFINE m == late \cup LateIn(batch)
    <2>1. m \in SUBSET gone /\ late \subseteq m
          /\ \A p \in gone, i \in Items : <<p, i>> \in batch => p \in m
      BY <1>1
    <2>2. /\ wq' = Inserted(wq, batch) /\ late' = m
          /\ UNCHANGED <<panicked, gone, overtaken>>
      BY <1>2 DEF Insert
    <2> HIDE DEF m
    <2>3. /\ Inserted(wq, batch) \in Queues
          /\ QueueOK(Inserted(wq, batch), gone, m)
          /\ RoundOpen(Inserted(wq, batch))
          /\ TurnsOK(Inserted(wq, batch), gone, m, overtaken)
      BY <1>0, <2>1, InsertedOK
    <2> QED BY <1>0, <1>2, <2>1, <2>2, <2>3 DEF QueueInv
  <1>3. ASSUME NEW drop \in SUBSET Peers, NEW p \in Peers, NEW taken \in SUBSET Items,
               NEW batch \in Batches, ~panicked, PickWork(drop, p, taken, batch)
        PROVE  QueueInv'
    <2> DEFINE r == PopStale(wq, drop)
    <2> DEFINE rest == {j \in r.work[p] : \E i \in taken : j > i}
    <2> DEFINE s == Served(r, p, rest)
    <2> DEFINE m == late \cup LateIn(batch)
    <2>1. /\ r \in Queues
          /\ QueueOK(r, gone, late)
          /\ RoundOpen(r)
          /\ TurnsOK(r, gone, late, overtaken)
          /\ r.work = wq.work
      BY <1>0, <1>3, PopStaleOK DEF PickWork, Finds
    <2>2. p \in r.queued /\ r.scheduled[p] > 0
      BY <1>3 DEF PickWork, Finds
    <2>3. rest \in SUBSET Items
      BY <2>1 DEF Queues
    <2>4. /\ overtaken' = OvertakenBy(p, wq) /\ gone' = gone /\ late' = m
          /\ panicked' = panicked
      BY <1>3 DEF PickWork
    <2>5. overtaken' \in [Peers -> [Peers -> Nat]]
      BY <1>0, <2>4 DEF OvertakenBy
    <2>6. \A a, b \in Peers :
              overtaken'[a][b] = IF a = p \/ r.work[a] = {} THEN 0
                                 ELSE IF b = p THEN overtaken[a][b] + 1
                                      ELSE overtaken[a][b]
      BY <2>1, <2>4 DEF OvertakenBy
    <2>7. wq' = Inserted(s, batch)
      BY <1>3 DEF PickWork, Picked
    <2>8. m \in SUBSET gone /\ late \subseteq m
          /\ \A q \in gone, i \in Items : <<q, i>> \in batch => q \in m
      BY <1>1
    <2> HIDE DEF r, rest, m
    <2>9. /\ s \in Queues
          /\ QueueOK(s, gone, late)
          /\ RoundOpen(s)
          /\ TurnsOK(s, gone, late, overtaken')
      BY <1>0, <2>1, <2>2, <2>3, <2>5, <2>6, ServedOK
    <2> HIDE DEF s
    <2>10. /\ Inserted(s, batch) \in Queues
           /\ QueueOK(Inserted(s, batch), gone, m)
           /\ RoundOpen(Inserted(s, batch))
           /\ TurnsOK(Inserted(s, batch), gone, m, overtaken')
      BY <1>0, <2>5, <2>8, <2>9, InsertedOK
    <2> QED BY <1>0, <1>3, <2>4, <2>5, <2>7, <2>8, <2>10 DEF QueueInv
  <1>4. ASSUME NEW drop \in SUBSET Peers, NEW p \in Peers, PickPanics(drop, p)
        PROVE  QueueInv'
    <2>1. /\ PopStale(wq, drop).work = wq.work
          /\ QueueOK(PopStale(wq, drop), gone, late)
      BY <1>0, <1>4, PopStaleOK DEF PickPanics, Finds
    <2>2. /\ p \in PopStale(wq, drop).queued /\ PopStale(wq, drop).scheduled[p] > 0
          /\ wq.work[p] = {}
      BY <1>4 DEF PickPanics, Finds, HasWork
    <2>3. p \in late
      BY <2>1, <2>2 DEF QueueOK, PeerOK
    <2> QED BY <1>0, <1>4, <2>3 DEF PickPanics, QueueInv
  <1>5. ASSUME ~panicked, PickNothing
        PROVE  QueueInv'
    BY <1>0, <1>5, PopStaleOK DEF QueueInv, PickNothing
  <1>6. ASSUME NEW p \in Peers, ~panicked, RemovePeer(p)
        PROVE  QueueInv'
    <2>1. /\ overtaken' \in [Peers -> [Peers -> Nat]]
          /\ \A r, s \in Peers : overtaken'[r][s] = IF r = p THEN 0 ELSE overtaken[r][s]
      BY <1>0, <1>6 DEF RemovePeer
    <2>2. /\ p \notin gone /\ wq' = RemovedPeer(wq, p)
          /\ gone' = gone \cup {p} /\ late' = late /\ panicked' = panicked
          /\ gone' \subseteq Peers /\ late' \subseteq gone'
      BY <1>0, <1>6 DEF RemovePeer
    <2>3. /\ RemovedPeer(wq, p) \in Queues
          /\ QueueOK(RemovedPeer(wq, p), gone \cup {p}, late)
          /\ RoundOpen(RemovedPeer(wq, p))
          /\ TurnsOK(RemovedPeer(wq, p), gone \cup {p}, late, overtaken')
      <3>1. PICK n : n = overtaken'
        OBVIOUS
      <3>2. /\ n \in [Peers -> [Peers -> Nat]]
            /\ \A r, s \in Peers : n[r][s] = IF r = p THEN 0 ELSE overtaken[r][s]
        BY <2>1, <3>1
      <3>3. /\ RemovedPeer(wq, p) \in Queues
            /\ QueueOK(RemovedPeer(wq, p), gone \cup {p}, late)
            /\ RoundOpen(RemovedPeer(wq, p))
            /\ TurnsOK(RemovedPeer(wq, p), gone \cup {p}, late, n)
        BY <1>0, <2>2, <3>2, RemovedPeerOK
      <3> QED BY <3>1, <3>3
    <2> QED BY <1>6, <2>1, <2>2, <2>3 DEF QueueInv
  <1>7. CASE UNCHANGED queueVars
    BY <1>7 DEF queueVars, QueueInv
  <1> QED BY <1>2, <1>3, <1>4, <1>5, <1>6, <1>7 DEF QueueNext

\* Every reachable queue satisfies the invariant.
THEOREM QueueInvariant == QueueSpec => []QueueInv
  <1>1. QueueInv /\ [QueueNext]_queueVars => QueueInv'
    BY QueueStepOK
  <1> QED BY <1>1, QueueInitOK, PTL DEF QueueSpec

\* No peer is scheduled twice and every scheduled peer that was not removed has
\* work, for any peers and work, but for peers that got work after their removal;
\* and only then can the assertion in pick fail.
THEOREM Integrity == QueueSpec => []QueueIntegrity
  <1>1. QueueInv => QueueIntegrity
    <2> SUFFICES ASSUME QueueInv PROVE QueueIntegrity
      OBVIOUS
    <2>1. wq \in Queues /\ gone \subseteq Peers /\ late \subseteq gone
      BY DEF QueueInv, QueueTypeOK
    <2>2. ASSUME NEW p \in Peers
          PROVE  /\ PeerOK(wq, gone, late, p) /\ wq.scheduled[p] \in Nat
                 /\ wq.scheduled[p] <= 2
                 /\ p \notin late => wq.scheduled[p] <= 1
      <3>1. PeerOK(wq, gone, late, p) /\ wq.scheduled[p] \in Nat
        BY <2>1, QueueFields DEF QueueInv, QueueOK
      <3>2. wq.scheduled[p] + (IF p \in wq.queued THEN 0 ELSE 1)
                <= 1 + (IF p \in gone THEN 1 ELSE 0)
        BY <3>1 DEF PeerOK, Turns, Spare
      <3>3. p \in gone /\ p \notin late => p \notin wq.queued
        BY <3>1 DEF PeerOK
      <3> QED BY <3>1, <3>2, <3>3
    <2>3. panicked => late # {}
      BY DEF QueueInv
    <2> QED BY <2>1, <2>2, <2>3 DEF QueueIntegrity, PeerOK
  <1> QED BY <1>1, QueueInvariant, PTL

\* No work is forgotten when the queue says it is empty.
THEOREM NoWorkForgotten == QueueSpec => []WorkNotForgotten
  <1>1. QueueInv => WorkNotForgotten
    BY DEF QueueInv, QueueOK, PeerOK, RoundOpen, WorkNotForgotten
  <1> QED BY <1>1, QueueInvariant, PTL

\* A peer with work waits for at most two turns of any other peer, or three of
\* one that got work after its removal.
THEOREM Fairness == QueueSpec => []FairRounds
  <1>1. QueueInv => FairRounds
    <2> SUFFICES ASSUME QueueInv, NEW p \in Peers, NEW r \in Peers
                 PROVE  overtaken[p][r] <= IF r \in late THEN 3 ELSE 2
      BY DEF FairRounds
    <2>1. WaitOK(wq, gone, late, overtaken, p, r) /\ overtaken[p][r] \in Nat
      BY DEF QueueInv, TurnsOK, QueueTypeOK
    <2>2. Turns(wq, r) \in Nat /\ Rounds(wq, p) <= 2 /\ Spare(gone, r) <= 1
      BY TurnsTypes DEF QueueInv, QueueTypeOK, Rounds, Spare
    <2>3. Rounds(wq, p) \in Nat /\ Spare(gone, r) \in Nat
      BY TurnsTypes DEF QueueInv, QueueTypeOK
    <2> QED BY <2>1, <2>2, <2>3 DEF WaitOK
  <1> QED BY <1>1, QueueInvariant, PTL

-----------------------------------------------------------------------------
\* An orphan pool none of whose transactions come from the peers g.
OriginsOK(org, g) ==
    /\ org \in [DOMAIN org -> Peers]
    /\ DOMAIN org \subseteq Txs
    /\ \A o \in DOMAIN org : org[o] \notin g

\* Nothing came of the removed peers that made no late call.
TxInv ==
    /\ QueueInv
    /\ OriginsOK(origin, gone \ callers)
    /\ late \subseteq callers
    /\ callers \subseteq gone

-----------------------------------------------------------------------------
\* Inserting nothing changes nothing.
LEMMA InsertedNothing ==
    ASSUME NEW q \in Queues
    PROVE  Inserted(q, {}) = q
  <1>1. Inserted(q, {}) = [queued |-> q.queued \cup {},
                           work |-> [p \in Peers |-> q.work[p]],
                           scheduled |-> [p \in Peers |-> q.scheduled[p]]]
    BY DEF Inserted
  <1>2. /\ q.queued \cup {} = q.queued
        /\ [p \in Peers |-> q.work[p]] = q.work
        /\ [p \in Peers |-> q.scheduled[p]] = q.scheduled
    BY DEF Queues
  <1>3. q = [queued |-> q.queued, work |-> q.work, scheduled |-> q.scheduled]
    BY DEF Queues
  <1> QED BY <1>1, <1>2, <1>3

\* A turn of a peer leaves a queue.
LEMMA ServedType ==
    ASSUME NEW q \in Queues, NEW p \in Peers, q.scheduled[p] > 0,
           NEW rest \in SUBSET Items
    PROVE  Served(q, p, rest) \in Queues
  <1> DEFINE t == [q EXCEPT !.work[p] = rest, !.scheduled[p] = @ - 1]
  <1> DEFINE w == [q.work EXCEPT ![p] = rest]
  <1> DEFINE n == [q.scheduled EXCEPT ![p] = q.scheduled[p] - 1]
  <1>1. t = [[q EXCEPT !.work = w] EXCEPT !.scheduled = n]
    BY DEF Queues
  <1>2. w \in [Peers -> SUBSET Items] /\ n \in [Peers -> Nat]
    BY DEF Queues
  <1> HIDE DEF w, n
  <1>3. t \in Queues
    BY <1>1, <1>2 DEF Queues
  <1> HIDE DEF t
  <1>4. AdvanceRound(t) \in Queues
    BY <1>3 DEF AdvanceRound, Queues
  <1> QED BY <1>4 DEF Served, t

\* Removing transactions from an orphan pool keeps its origins.
LEMMA RestrictOK ==
    ASSUME NEW org, NEW g, OriginsOK(org, g), NEW S, S \subseteq DOMAIN org
    PROVE  OriginsOK(Restrict(org, S), g)
  <1>1. Restrict(org, S) = [o \in S |-> org[o]]
    BY DEF Restrict
  <1> QED BY <1>1 DEF OriginsOK

\* So does inserting one from another peer than g.
LEMMA InsertOrphanOK ==
    ASSUME NEW org, NEW g, OriginsOK(org, g), NEW t \in Txs, NEW p \in Peers, p \notin g
    PROVE  /\ OriginsOK(InsertOrphan(org, t, p), g)
           /\ DOMAIN InsertOrphan(org, t, p) = DOMAIN org \cup {t}
  <1>1. CASE t \in DOMAIN org
    BY <1>1 DEF InsertOrphan
  <1>2. CASE t \notin DOMAIN org
    <2>1. InsertOrphan(org, t, p)
              = [o \in DOMAIN org \cup {t} |-> IF o = t THEN p ELSE org[o]]
      BY <1>2 DEF InsertOrphan
    <2> QED BY <2>1 DEF OriginsOK
  <1> QED BY <1>1, <1>2

\* enqueue_children makes work for the peers the orphans come from.
LEMMA ChildrenOK ==
    ASSUME NEW org, NEW g, OriginsOK(org, g), NEW t \in Txs
    PROVE  /\ ChildrenOf(t, org) \in Batches
           /\ \A p \in g, i \in Items : <<p, i>> \notin ChildrenOf(t, org)
  BY DEF ChildrenOf, OriginsOK, Batches, Txs

\* add_transaction inserts a batch of work into the queue, maybe an empty one,
\* and neither the work nor the orphans it leaves are of peers that had none
\* before and make no call.
LEMMA AddTransactionOK ==
    ASSUME NEW t \in Txs, NEW from, NEW org, NEW q \in Queues, NEW g,
           OriginsOK(org, g),
           from # Local => from \in Peers /\ from \notin g,
           AddTransaction(t, from, org, q)
    PROVE  /\ OriginsOK(origin', g)
           /\ \E batch \in Batches :
                  /\ wq' = Inserted(q, batch)
                  /\ late' = late \cup LateIn(batch)
                  /\ \A p \in g, i \in Items : <<p, i>> \notin batch
  <1>1. {} \in Batches /\ Inserted(q, {}) = q /\ LateIn({}) = {}
    BY InsertedNothing DEF Batches, LateIn
  <1>2. wq' = q /\ late' = late =>
            \E batch \in Batches :
                /\ wq' = Inserted(q, batch)
                /\ late' = late \cup LateIn(batch)
                /\ \A p \in g, i \in Items : <<p, i>> \notin batch
    BY <1>1
  <1>3. CASE Duplicate(t, org, q)
    BY <1>2, <1>3 DEF Duplicate
  <1>4. CASE Refused(t, org, q)
    BY <1>2, <1>4 DEF Refused
  <1>5. CASE Added(t, org, q)
    <2>1. PICK batch \in {{}, ChildrenOf(t, org)} :
              wq' = Inserted(q, batch) /\ late' = late \cup LateIn(batch)
      BY <1>5 DEF Added
    <2>2. origin' = org
      BY <1>5 DEF Added
    <2>3. batch \in Batches /\ \A p \in g, i \in Items : <<p, i>> \notin batch
      BY <1>1, ChildrenOK
    <2> QED BY <2>1, <2>2, <2>3
  <1>6. CASE Orphaned(t, from, org, q)
    <2>1. PICK kept \in SUBSET (DOMAIN org \cup {t}) :
              origin' = Restrict(InsertOrphan(org, t, from), kept)
      BY <1>6 DEF Orphaned
    <2>2. from \in Peers /\ from \notin g /\ wq' = q /\ late' = late
      BY <1>6 DEF Orphaned
    <2>3. /\ OriginsOK(InsertOrphan(org, t, from), g)
          /\ DOMAIN InsertOrphan(org, t, from) = DOMAIN org \cup {t}
      BY <2>2, InsertOrphanOK
    <2>4. OriginsOK(origin', g)
      BY <2>1, <2>3, RestrictOK
    <2> QED BY <1>2, <2>2, <2>4
  <1> QED BY <1>3, <1>4, <1>5, <1>6 DEF AddTransaction

-----------------------------------------------------------------------------
\* What TxInv says besides QueueInv.
Accounted ==
    /\ OriginsOK(origin, gone \ callers)
    /\ late \subseteq callers
    /\ callers \subseteq gone

\* Every step of the mempool is a step of the work queue, and leaves orphans of
\* a removed peer only if that peer made a late call.
LEMMA TxStepOK ==
    ASSUME TxInv, [Next]_vars
    PROVE  [QueueNext]_queueVars /\ Accounted'
  <1> USE DEF QueueTypeOK
  <1>1. /\ wq \in Queues /\ gone \in SUBSET Peers /\ late \in SUBSET gone
        /\ overtaken \in Histories /\ QueueOK(wq, gone, late)
        /\ TurnsOK(wq, gone, late, overtaken)
    BY DEF TxInv, QueueInv, Histories
  <1>2. /\ OriginsOK(origin, gone \ callers) /\ late \subseteq callers
        /\ callers \subseteq gone /\ Local \notin Peers
    BY TxAssumption DEF TxInv
  <1>3. ASSUME NEW batch, NEW c, callers \subseteq c, c \subseteq gone,
               \A p \in gone \ c, i \in Items : <<p, i>> \notin batch
        PROVE  late \cup LateIn(batch) \subseteq c
    BY <1>2, <1>3 DEF LateIn
  <1>4. ASSUME ~panicked, NEW t \in Txs, NEW from, callers' \subseteq gone,
               callers \subseteq callers',
               from # Local => from \in Peers /\ from \notin gone \ callers',
               AddTransaction(t, from, origin, wq), UNCHANGED <<panicked, gone, overtaken>>
        PROVE  QueueNext /\ Accounted'
    <2> DEFINE g == gone \ callers'
    <2>1. OriginsOK(origin, g) /\ from # Local => from \in Peers /\ from \notin g
      BY <1>2, <1>4 DEF OriginsOK
    <2>2. OriginsOK(origin, g)
      BY <1>2, <1>4 DEF OriginsOK
    <2> HIDE DEF g
    <2>3. OriginsOK(origin', g)
      BY <1>1, <1>4, <2>1, <2>2, AddTransactionOK
    <2>4. PICK batch \in Batches :
              /\ wq' = Inserted(wq, batch)
              /\ late' = late \cup LateIn(batch)
              /\ \A p \in g, i \in Items : <<p, i>> \notin batch
      BY <1>1, <1>4, <2>1, <2>2, AddTransactionOK
    <2>5. Insert(batch)
      BY <1>4, <2>4 DEF Insert
    <2>6. late' \subseteq callers'
      BY <1>3, <1>4, <2>4 DEF g
    <2> QED BY <1>4, <2>3, <2>5, <2>6 DEF QueueNext, Accounted, g
  <1>5. ASSUME ~panicked, NEW t \in Txs, AddLocal(t)
        PROVE  QueueNext /\ Accounted'
    BY <1>2, <1>4, <1>5 DEF AddLocal
  <1>6. ASSUME ~panicked, NEW t \in Txs, NEW p \in Peers, AddRemote(t, p)
        PROVE  QueueNext /\ Accounted'
    <2>1. callers' \subseteq gone /\ callers \subseteq callers' /\ p \notin gone \ callers'
      BY <1>2, <1>6 DEF AddRemote
    <2>2. AddTransaction(t, p, origin, wq) /\ UNCHANGED <<panicked, gone, overtaken>>
      BY <1>6 DEF AddRemote
    <2> QED BY <1>4, <1>6, <2>1, <2>2
  <1>7. ASSUME ~panicked, NEW drop \in SUBSET Stale(wq), NEW p \in Peers,
               PerformWorkUnit(drop, p)
        PROVE  QueueNext /\ Accounted'
    <2> DEFINE taken == FirstOrphan(p)
    <2> DEFINE r == PopStale(wq, drop)
    <2> DEFINE rest == {j \in r.work[p] : \E i \in taken : j > i}
    <2> DEFINE q == Picked(wq, drop, p, taken)
    <2> DEFINE g == gone \ callers
    <2>1. r \in Queues /\ r.work = wq.work
      BY <1>1, PopStaleOK
    <2>2. taken \subseteq wq.work[p] /\ taken \subseteq Items
      BY <1>1 DEF FirstOrphan, Queues
    <2>3. \A i, j \in taken : i = j
      <3>1. \A i, j \in taken : i <= j /\ j <= i
        BY DEF FirstOrphan
      <3>2. taken \subseteq Nat
        BY <2>2, ItemsAssumption
      <3> HIDE DEF taken
      <3> QED BY <3>1, <3>2
    <2>4. r.scheduled[p] > 0
      BY <1>7 DEF PerformWorkUnit, Finds
    <2>5. rest \in SUBSET Items
      BY <2>1 DEF Queues
    <2>6. q = Served(r, p, rest)
      BY DEF Picked
    <2>7. /\ callers' = callers /\ gone' = gone /\ panicked' = panicked
          /\ OriginsOK(origin, g)
      BY <1>2, <1>7 DEF PerformWorkUnit
    <2> HIDE DEF r, rest, q, g
    <2>8. q \in Queues
      BY <2>1, <2>4, <2>5, <2>6, ServedType
    <2>9. ASSUME NEW batch \in Batches, wq' = Inserted(q, batch),
                 late' = late \cup LateIn(batch),
                 \A s \in g, i \in Items : <<s, i>> \notin batch
          PROVE  QueueNext /\ late' \subseteq callers
      <3>1. PickWork(drop, p, taken, batch)
        BY <1>7, <2>2, <2>3, <2>9 DEF PickWork, PerformWorkUnit, q
      <3>2. drop \in SUBSET Peers
        BY DEF Stale
      <3>3. late' \subseteq callers
        BY <1>2, <1>3, <2>9 DEF g
      <3> QED BY <1>7, <2>2, <3>1, <3>2, <3>3 DEF QueueNext
    <2>10. ASSUME NEW o \in taken,
                  AddTransaction(o, origin[o], Restrict(origin, Orphans \ {o}), q)
           PROVE  QueueNext /\ Accounted'
      <3>1. o \in Txs /\ o \in Orphans
        BY <2>2 DEF FirstOrphan, Txs
      <3>2. origin[o] \in Peers /\ origin[o] \notin g
        BY <2>7, <3>1 DEF OriginsOK, Orphans
      <3>3. OriginsOK(Restrict(origin, Orphans \ {o}), g)
        BY <2>7, RestrictOK DEF Orphans
      <3>4. OriginsOK(origin', g)
        BY <2>8, <2>10, <3>1, <3>2, <3>3, AddTransactionOK
      <3>5. PICK batch \in Batches :
                /\ wq' = Inserted(q, batch)
                /\ late' = late \cup LateIn(batch)
                /\ \A s \in g, i \in Items : <<s, i>> \notin batch
        BY <2>8, <2>10, <3>1, <3>2, <3>3, AddTransactionOK
      <3>6. QueueNext /\ late' \subseteq callers
        BY <2>9, <3>5
      <3> QED BY <1>2, <2>7, <3>4, <3>6 DEF Accounted, g
    <2>11. CASE wq' = q /\ UNCHANGED <<txVars, late>>
      <3>1. {} \in Batches /\ Inserted(q, {}) = q /\ LateIn({}) = {}
        BY <2>8, InsertedNothing DEF Batches, LateIn
      <3>2. origin' = origin /\ late' = late
        BY <2>11 DEF txVars
      <3>3. QueueNext /\ late' \subseteq callers
        BY <2>9, <2>11, <3>1, <3>2
      <3> QED BY <1>2, <2>7, <3>2, <3>3 DEF Accounted, g
    <2> QED BY <1>7, <2>10, <2>11 DEF PerformWorkUnit, q
  <1>8. ASSUME ~panicked, NEW drop \in SUBSET Stale(wq), NEW p \in Peers,
               WorkUnitPanics(drop, p)
        PROVE  QueueNext /\ Accounted'
    <2>1. drop \in SUBSET Peers /\ PickPanics(drop, p)
      BY <1>8 DEF WorkUnitPanics, Stale
    <2>2. UNCHANGED <<origin, gone, late, callers>>
      BY <1>8 DEF WorkUnitPanics, PickPanics, txVars
    <2> QED BY <1>2, <1>8, <2>1, <2>2 DEF QueueNext, Accounted
  <1>9. ASSUME ~panicked, NoWorkLeft
        PROVE  QueueNext /\ Accounted'
    BY <1>2, <1>9 DEF NoWorkLeft, PickNothing, QueueNext, txVars, Accounted
  <1>10. ASSUME ~panicked, NEW p \in Peers, OnPeerDisconnected(p)
        PROVE  QueueNext /\ Accounted'
    <2>1. /\ RemovePeer(p) /\ gone' = gone \cup {p} /\ late' = late /\ callers' = callers
          /\ p \notin gone
      BY <1>10 DEF OnPeerDisconnected, RemovePeer
    <2>2. origin' = [o \in {u \in DOMAIN origin : origin[u] # p} |-> origin[o]]
      BY <1>10 DEF OnPeerDisconnected, Restrict, Orphans
    <2>3. OriginsOK(origin', gone' \ callers')
      BY <1>2, <2>1, <2>2 DEF OriginsOK
    <2> QED BY <1>2, <1>10, <2>1, <2>3 DEF QueueNext, Accounted
  <1>11. ASSUME SetSizeLimit
        PROVE  UNCHANGED queueVars /\ Accounted'
    BY <1>2, <1>11 DEF SetSizeLimit, queueVars, Accounted
  <1>12. ASSUME UNCHANGED vars
        PROVE  UNCHANGED queueVars /\ Accounted'
    BY <1>2, <1>12 DEF vars, queueVars, txVars, Accounted
  <1> QED
    BY <1>5, <1>6, <1>7, <1>8, <1>9, <1>10, <1>11, <1>12 DEF Next

\* Every reachable state of the mempool satisfies the invariant.
THEOREM TxInvariant == Spec => []TxInv
  <1>1. Init => TxInv
    <2> SUFFICES ASSUME Init PROVE TxInv
      OBVIOUS
    <2>1. QueueInv
      BY QueueInitOK DEF Init
    <2>2. OriginsOK(origin, gone \ callers)
      BY DEF Init, OriginsOK
    <2> QED BY <2>1, <2>2 DEF TxInv, Init, QueueInit
  <1>2. TxInv /\ [Next]_vars => TxInv'
    <2> SUFFICES ASSUME TxInv, [Next]_vars PROVE TxInv'
      OBVIOUS
    <2>1. [QueueNext]_queueVars /\ Accounted'
      BY TxStepOK
    <2>2. QueueInv'
      BY <2>1, QueueStepOK DEF TxInv
    <2> QED BY <2>1, <2>2 DEF TxInv, Accounted
  <1> QED BY <1>1, <1>2, PTL DEF Spec

\* The mempool uses the work queue by its operations only, whatever calls come
\* late.
THEOREM UsesWorkQueue == Spec => QueueSpec
  <1>1. Init => QueueInit
    BY DEF Init
  <1>2. TxInv /\ [Next]_vars => [QueueNext]_queueVars
    BY TxStepOK
  <1> QED BY <1>1, <1>2, TxInvariant, PTL DEF Spec, QueueSpec

\* In the mempool the assertion in pick only fails after work that came late,
\* is_empty never hides work, and perform_work_unit serves no peer more than twice
\* while another one waits, or three times one that got work after its removal.
THEOREM MempoolQueueSound == Spec => []QueueSound
  <1>1. QueueIntegrity /\ WorkNotForgotten /\ FairRounds => QueueSound
    BY DEF QueueSound
  <1> QED BY <1>1, UsesWorkQueue, Integrity, NoWorkForgotten, Fairness, PTL

\* A disconnected peer leaves no orphan and no work behind, and gets none, unless
\* a transaction of it comes after its disconnection.
THEOREM NothingLeft == Spec => []NothingOfGonePeers
  <1>1. TxInv => NothingOfGonePeers
    <2> SUFFICES ASSUME TxInv, NEW p \in gone \ callers
                 PROVE  wq.work[p] = {} /\ \A o \in Orphans : origin[o] # p
      BY DEF NothingOfGonePeers, TxInv
    <2>1. p \in Peers /\ PeerOK(wq, gone, late, p) /\ p \notin late
      BY DEF TxInv, QueueInv, QueueTypeOK, QueueOK
    <2> QED BY <2>1 DEF PeerOK, TxInv, OriginsOK, Orphans
  <1> QED BY <1>1, TxInvariant, PTL
-----------------------------------------------------------------------------
(***************************************************************************)
(* No orphan is forgotten but for copies, whatever calls come late.        *)
(***************************************************************************)

\* Something o depends on is neither on the chain nor in the pool.
Missing(o) == \E d \in Requires[o] : ~Known(d)

\* A parent of o entered the pool while a copy of it was in the orphan pool.
ByCopy(o) == \E t \in shadowed : Outputs[t] \cap Requires[o] # {}

\* With the orphan pool org and the queue q: an orphan is queued, or waits for
\* something that is not there, or a copy of its parent misled is_ready.
Awaited(org, q) ==
    \A o \in DOMAIN org : o \in q.work[org[o]] \/ Missing(o) \/ ByCopy(o)

\* Only shadowed transactions are in both pools.
CopiesKnown(org) == DOMAIN org \cap pool \subseteq shadowed

\* The type of an orphan pool, which is finite and bounded.
OrphansTyped(org) ==
    /\ org \in [DOMAIN org -> Peers]
    /\ DOMAIN org \subseteq Txs
    /\ IsFiniteSet(DOMAIN org)
    /\ Cardinality(DOMAIN org) <= MaxOrphans

\* The inductive invariant.
AwaitInv ==
    /\ pool \subseteq Txs
    /\ shadowed \subseteq Txs
    /\ OrphansTyped(origin)
    /\ Awaited(origin, wq)
    /\ CopiesKnown(origin)

\* Every set of naturals has a least element.
LEMMA LeastNatural ==
    ASSUME NEW S, S \subseteq Nat, S # {}
    PROVE  \E m \in S : \A n \in S : m <= n
  <1> DEFINE R == OpToRel(<, Nat)
  <1>1. IsWellFoundedOn(R, Nat)
    BY NatLessThanWellFounded
  <1>2. \A x, y \in Nat : x < y => <<x, y>> \in R
    BY DEF OpToRel
  <1> HIDE DEF R
  <1>3. PICK m \in S : \A n \in S : ~(<<n, m>> \in R)
    BY <1>1, WFMin
  <1>4. \A n \in S : ~(n < m)
    BY <1>2, <1>3, Zenon
  <1>5. m \in Nat /\ S \subseteq Nat
    OBVIOUS
  <1> QED BY <1>4, <1>5

\* Popping stale entries leaves the work of every peer.
LEMMA PopStaleWork ==
    ASSUME NEW q \in Queues, NEW drop
    PROVE  PopStale(q, drop) \in Queues /\ PopStale(q, drop).work = q.work
  <1> DEFINE n == [p \in Peers |-> IF p \in drop THEN 0 ELSE q.scheduled[p]]
  <1> DEFINE r == [q EXCEPT !.scheduled = n]
  <1>1. n \in [Peers -> Nat]
    BY DEF Queues
  <1>2. r \in Queues /\ r.work = q.work
    BY <1>1 DEF Queues
  <1> HIDE DEF r
  <1>3. AdvanceRound(r) \in Queues /\ AdvanceRound(r).work = r.work
    BY <1>2 DEF AdvanceRound, Queues
  <1> QED BY <1>2, <1>3 DEF PopStale, r

\* A turn of a peer changes the work of that peer only.
LEMMA ServedWork ==
    ASSUME NEW q \in Queues, NEW p \in Peers, NEW rest \in SUBSET Items
    PROVE  Served(q, p, rest).work = [q.work EXCEPT ![p] = rest]
  <1> DEFINE t == [q EXCEPT !.work[p] = rest, !.scheduled[p] = @ - 1]
  <1>1. t.work = [q.work EXCEPT ![p] = rest]
    BY DEF Queues
  <1> HIDE DEF t
  <1>2. AdvanceRound(t).work = t.work
    BY DEF AdvanceRound
  <1> QED BY <1>1, <1>2 DEF Served, t

\* Inserting a batch adds its items to the work of their peers.
LEMMA InsertedWork ==
    ASSUME NEW q \in Queues, NEW batch
    PROVE  /\ Inserted(q, batch) \in Queues
           /\ \A p \in Peers : Inserted(q, batch).work[p]
                  = q.work[p] \cup {i \in Items : <<p, i>> \in batch}
  BY DEF Inserted, Queues

\* Removing transactions from an orphan pool keeps its type.
LEMMA RestrictTyped ==
    ASSUME NEW org, OrphansTyped(org), NEW S, S \subseteq DOMAIN org
    PROVE  /\ OrphansTyped(Restrict(org, S))
           /\ DOMAIN Restrict(org, S) = S
           /\ \A o \in S : Restrict(org, S)[o] = org[o]
  <1>1. Restrict(org, S) = [o \in S |-> org[o]]
    BY DEF Restrict
  <1>2. IsFiniteSet(S) /\ Cardinality(S) <= Cardinality(DOMAIN org)
    BY FS_Subset DEF OrphansTyped
  <1>3. Cardinality(S) \in Nat /\ Cardinality(DOMAIN org) \in Nat
    BY <1>2, FS_CardinalityType DEF OrphansTyped
  <1>4. Cardinality(S) <= MaxOrphans
    BY <1>2, <1>3, TxAssumption DEF OrphansTyped
  <1> QED BY <1>1, <1>2, <1>4 DEF OrphansTyped

\* What add_transaction does keeps an orphan pool in which every orphan is
\* awaited: a transaction that provides what an orphan waits for queues it.
LEMMA AddTransactionAwaits ==
    ASSUME NEW t \in Txs, NEW from, NEW org, NEW q \in Queues,
           pool \subseteq Txs, shadowed \subseteq Txs, OrphansTyped(org),
           Awaited(org, q), CopiesKnown(org),
           from # Local => from \in Peers,
           AddTransaction(t, from, org, q)
    PROVE  /\ wq' \in Queues
           /\ pool' \subseteq Txs /\ shadowed' \subseteq Txs
           /\ OrphansTyped(origin') /\ Awaited(origin, wq)' /\ CopiesKnown(origin)'
  <1>1. CASE pool' = pool /\ shadowed' = shadowed /\ origin' = org /\ wq' = q
    BY <1>1 DEF Awaited, CopiesKnown, Missing, Known, ByCopy
  <1>2. CASE Added(t, org, q)
    <2>0. Inserted(q, {}) = q
      BY InsertedNothing
    <2>1. PICK ev \in Evictions(pool \cup {t}) :
              /\ pool' = (pool \cup {t}) \ ev
              /\ wq' = IF t \in ev THEN q ELSE Inserted(q, ChildrenOf(t, org))
              /\ shadowed' = IF t \in DOMAIN org \ ev THEN shadowed \cup {t} ELSE shadowed
      BY <1>2, <2>0 DEF Added
    <2>2. origin' = org
      BY <1>2 DEF Added
    <2>3. pool' \subseteq Txs /\ shadowed' \subseteq Txs /\ shadowed \subseteq shadowed'
      BY <2>1
    <2>4. wq' \in Queues
      BY <2>1, InsertedWork
    <2>5. CopiesKnown(origin)'
      BY <2>1, <2>2 DEF CopiesKnown
    <2>6. ASSUME NEW o \in DOMAIN org
          PROVE  o \in wq'.work[org[o]] \/ Missing(o)' \/ ByCopy(o)'
      <3>1. org[o] \in Peers /\ o \in Items
        BY DEF OrphansTyped, Txs
      <3>2. q.work[org[o]] \subseteq wq'.work[org[o]]
        <4>1. CASE t \in ev
          BY <2>1, <4>1
        <4>2. CASE t \notin ev
          <5>1. wq' = Inserted(q, ChildrenOf(t, org))
            BY <2>1, <4>2
          <5>2. \A b : q.work[org[o]] \subseteq Inserted(q, b).work[org[o]]
            BY <3>1 DEF Inserted, Queues
          <5> QED BY <5>1, <5>2
        <4> QED BY <4>1, <4>2
      <3>3. CASE o \in q.work[org[o]]
        BY <3>2, <3>3
      <3>4. CASE ByCopy(o)
        BY <2>3, <3>4 DEF ByCopy
      <3>5. CASE Missing(o)
        <4>1. PICK d \in Requires[o] : ~Known(d)
          BY <3>5 DEF Missing
        <4>2. CASE ~Known(d)'
          BY <4>1, <4>2 DEF Missing
        <4>3. CASE Known(d)'
          <5>1. d \in Provides(t) /\ t \notin ev
            BY <2>1, <4>1, <4>3 DEF Known, Provides
          <5>2. <<org[o], o>> \in ChildrenOf(t, org)
            BY <4>1, <5>1 DEF ChildrenOf
          <5>3. wq' = Inserted(q, ChildrenOf(t, org))
            BY <2>1, <5>1
          <5> QED BY <3>1, <5>2, <5>3, InsertedWork
        <4> QED BY <4>2, <4>3
      <3> QED BY <3>3, <3>4, <3>5 DEF Awaited
    <2>7. Awaited(origin, wq)'
      BY <2>2, <2>6 DEF Awaited
    <2> QED BY <2>2, <2>3, <2>4, <2>5, <2>7
  <1>3. CASE Orphaned(t, from, org, q)
    <2> DEFINE ins == InsertOrphan(org, t, from)
    <2>1. PICK kept \in SUBSET (DOMAIN org \cup {t}) :
              Cardinality(kept) <= MaxOrphans /\ origin' = Restrict(ins, kept)
      BY <1>3 DEF Orphaned
    <2>2. /\ from \in Peers /\ wq' = q /\ pool' = pool /\ shadowed' = shadowed
          /\ t \notin pool /\ ~InputsFound(t) /\ ~Conflicts(t)
      BY <1>3 DEF Orphaned
    <2>3. /\ DOMAIN ins = DOMAIN org \cup {t}
          /\ \A o \in DOMAIN org : ins[o] = org[o]
          /\ t \notin DOMAIN org => ins[t] = from
      BY DEF InsertOrphan
    <2> HIDE DEF ins
    <2>4. origin' = [o \in kept |-> ins[o]]
      BY <2>1 DEF Restrict
    <2>5. \A o \in kept : ins[o] \in Peers
      BY <2>2, <2>3 DEF OrphansTyped
    <2>6. IsFiniteSet(kept)
      BY FS_AddElement, FS_Subset DEF OrphansTyped
    <2>7. OrphansTyped(origin')
      BY <2>1, <2>4, <2>5, <2>6 DEF OrphansTyped
    <2>8. CopiesKnown(origin)'
      BY <2>2, <2>4 DEF CopiesKnown
    <2>9. Missing(t)'
      <3>1. Missing(t)
        BY <2>2 DEF InputsFound, Conflicts, Missing
      <3> QED BY <2>2, <3>1 DEF Missing, Known
    <2>10. ASSUME NEW o \in kept, o # t
           PROVE  o \in wq'.work[origin'[o]] \/ Missing(o)' \/ ByCopy(o)'
      <3>1. origin'[o] = org[o] /\ o \in DOMAIN org
        BY <2>3, <2>4, <2>10
      <3>2. o \in q.work[org[o]] \/ Missing(o) \/ ByCopy(o)
        BY <3>1 DEF Awaited
      <3> QED BY <2>2, <3>1, <3>2 DEF Missing, Known, ByCopy
    <2>11. Awaited(origin, wq)'
      BY <2>4, <2>9, <2>10 DEF Awaited
    <2> QED BY <2>2, <2>7, <2>8, <2>11
  <1> QED BY <1>1, <1>2, <1>3 DEF AddTransaction, Duplicate, Refused

\* A turn of a peer takes out of its work only what is no orphan, and the
\* first orphan.
LEMMA PickedWork ==
    ASSUME wq \in Queues, NEW drop, NEW p \in Peers, Finds(wq, drop, p)
    PROVE  LET q == Picked(wq, drop, p, FirstOrphan(p))
           IN  /\ q \in Queues
               /\ \A r \in Peers, o \in Orphans :
                      o \in wq.work[r] => o \in q.work[r] \/ (r = p /\ o \in FirstOrphan(p))
  <1> DEFINE taken == FirstOrphan(p)
  <1> DEFINE r == PopStale(wq, drop)
  <1> DEFINE rest == {j \in r.work[p] : \E i \in taken : j > i}
  <1>1. r \in Queues /\ r.work = wq.work
    BY PopStaleWork
  <1>2. r.scheduled[p] > 0
    BY DEF Finds
  <1>3. wq.work[p] \subseteq Items /\ Items \subseteq Nat
    BY ItemsAssumption DEF Queues
  <1>4. rest \in SUBSET Items
    BY <1>1, <1>3
  <1>5. Picked(wq, drop, p, taken) = Served(r, p, rest)
    BY DEF Picked
  <1>6. ASSUME NEW o \in Orphans, o \in wq.work[p], o \notin taken
        PROVE  o \in rest
    <2> DEFINE S == wq.work[p] \cap Orphans
    <2>1. S \subseteq Nat /\ S # {} /\ o \in S
      BY <1>3, <1>6
    <2>2. PICK m \in S : \A n \in S : m <= n
      BY <2>1, LeastNatural
    <2>3. m \in taken
      BY <2>2 DEF FirstOrphan
    <2>4. m # o /\ m <= o /\ m \in Nat /\ o \in Nat
      BY <1>6, <2>1, <2>2, <2>3
    <2>5. o > m
      BY <2>4
    <2> QED BY <1>1, <1>6, <2>3, <2>5
  <1> HIDE DEF r, rest, taken
  <1>7. /\ Served(r, p, rest) \in Queues
        /\ Served(r, p, rest).work = [wq.work EXCEPT ![p] = rest]
    BY <1>1, <1>2, <1>4, ServedType, ServedWork
  <1>8. wq.work \in [Peers -> SUBSET Items]
    BY DEF Queues
  <1> QED BY <1>5, <1>6, <1>7, <1>8 DEF taken

\* Every step of the mempool keeps the orphans awaited.
LEMMA AwaitStep ==
    ASSUME wq \in Queues, AwaitInv, [Next]_vars
    PROVE  AwaitInv'
  <1>1. /\ wq \in Queues
        /\ pool \subseteq Txs /\ shadowed \subseteq Txs
        /\ OrphansTyped(origin) /\ Awaited(origin, wq) /\ CopiesKnown(origin)
        /\ Local \notin Peers
    BY TxAssumption DEF AwaitInv
  <1>2. ASSUME NEW t \in Txs, NEW from, from # Local => from \in Peers,
               AddTransaction(t, from, origin, wq)
        PROVE  AwaitInv'
    BY <1>1, <1>2, AddTransactionAwaits DEF AwaitInv
  <1>3. ASSUME NEW t \in Txs, AddLocal(t)
        PROVE  AwaitInv'
    BY <1>2, <1>3 DEF AddLocal
  <1>4. ASSUME NEW t \in Txs, NEW p \in Peers, AddRemote(t, p)
        PROVE  AwaitInv'
    BY <1>2, <1>4 DEF AddRemote
  <1>5. ASSUME NEW drop \in SUBSET Stale(wq), NEW p \in Peers, PerformWorkUnit(drop, p)
        PROVE  AwaitInv'
    <2> DEFINE q == Picked(wq, drop, p, FirstOrphan(p))
    <2>1. /\ q \in Queues
          /\ \A r \in Peers, o \in Orphans :
                 o \in wq.work[r] => o \in q.work[r] \/ (r = p /\ o \in FirstOrphan(p))
      BY <1>1, <1>5, PickedWork DEF PerformWorkUnit
    <2>3. FirstOrphan(p) \subseteq Orphans /\ \A i, j \in FirstOrphan(p) : i = j
      <3>1. /\ FirstOrphan(p) \subseteq Orphans /\ FirstOrphan(p) \subseteq Nat
            /\ \A i, j \in FirstOrphan(p) : i <= j /\ j <= i
        BY <1>1, ItemsAssumption DEF FirstOrphan, Queues
      <3> QED BY <3>1
    <2> HIDE DEF q
    <2>4. ASSUME NEW o \in FirstOrphan(p),
                 AddTransaction(o, origin[o], Restrict(origin, Orphans \ {o}), q)
          PROVE  AwaitInv'
      <3> DEFINE org == Restrict(origin, Orphans \ {o})
      <3>1. o \in Txs /\ origin[o] \in Peers
        BY <1>1, <2>3 DEF OrphansTyped, Orphans
      <3>2. /\ OrphansTyped(org) /\ DOMAIN org = Orphans \ {o}
            /\ \A u \in Orphans \ {o} : org[u] = origin[u]
        BY <1>1, RestrictTyped DEF Orphans
      <3> HIDE DEF org
      <3>3. Awaited(org, q)
        <4> SUFFICES ASSUME NEW u \in Orphans, u # o
                     PROVE  u \in q.work[org[u]] \/ Missing(u) \/ ByCopy(u)
          BY <3>2 DEF Awaited
        <4>1. org[u] = origin[u] /\ origin[u] \in Peers /\ u \notin FirstOrphan(p)
          BY <1>1, <2>3, <3>2 DEF OrphansTyped, Orphans
        <4> QED BY <1>1, <2>1, <4>1 DEF Awaited, Orphans
      <3>4. CopiesKnown(org)
        BY <1>1, <3>2 DEF CopiesKnown, Orphans
      <3>5. /\ wq' \in Queues
            /\ pool' \subseteq Txs /\ shadowed' \subseteq Txs
            /\ OrphansTyped(origin') /\ Awaited(origin, wq)' /\ CopiesKnown(origin)'
        BY <1>1, <2>1, <2>4, <3>1, <3>2, <3>3, <3>4, AddTransactionAwaits DEF org
      <3> QED BY <3>5 DEF AwaitInv
    <2>5. CASE /\ \A o \in FirstOrphan(p) : ~IsReady(o)
               /\ wq' = q
               /\ UNCHANGED <<txVars, late>>
      <3>1. pool' = pool /\ shadowed' = shadowed /\ origin' = origin /\ wq' = q
        BY <2>5 DEF txVars
      <3>2. ASSUME NEW o \in FirstOrphan(p)
            PROVE  Missing(o) \/ ByCopy(o)
        <4>1. PICK u \in Orphans : Outputs[u] \cap Requires[o] # {}
          BY <2>5 DEF IsReady
        <4>2. PICK d \in Requires[o] : d \in Outputs[u]
          BY <4>1
        <4>3. CASE ~Known(d)
          BY <4>3 DEF Missing
        <4>4. CASE Known(d)
          <5>1. u \in Txs
            BY <1>1 DEF OrphansTyped, Orphans
          <5>2. PICK v \in pool : d \in Provides(v)
            BY <4>2, <4>4, <5>1, OutputsAssumption DEF Known
          <5>3. v = u
            BY <1>1, <4>2, <5>1, <5>2, OutputsAssumption DEF Provides
          <5>4. u \in shadowed
            BY <1>1, <5>2, <5>3 DEF CopiesKnown, Orphans
          <5> QED BY <4>1, <5>4 DEF ByCopy
        <4> QED BY <4>3, <4>4
      <3>3. Awaited(origin, wq)'
        <4>1. ASSUME NEW o \in Orphans
              PROVE  o \in q.work[origin[o]] \/ Missing(o) \/ ByCopy(o)
          <5>1. origin[o] \in Peers
            BY <1>1 DEF OrphansTyped, Orphans
          <5>2. o \in wq.work[origin[o]] \/ Missing(o) \/ ByCopy(o)
            BY <1>1 DEF Awaited, Orphans
          <5> QED BY <2>1, <3>2, <5>1, <5>2
        <4> QED BY <3>1, <4>1 DEF Awaited, Missing, Known, ByCopy, Orphans
      <3> QED BY <1>1, <3>1, <3>3 DEF AwaitInv, CopiesKnown
    <2> QED BY <1>5, <2>4, <2>5 DEF PerformWorkUnit, q
  <1>6. CASE NoWorkLeft
    <2>1. /\ wq' \in Queues /\ wq'.work = wq.work
          /\ UNCHANGED <<pool, origin, shadowed>>
      BY <1>1, <1>6, PopStaleWork DEF NoWorkLeft, PickNothing, txVars
    <2> QED
      BY <1>1, <2>1 DEF AwaitInv, Awaited, Missing, Known, ByCopy, CopiesKnown
  <1>7. ASSUME NEW p \in Peers, OnPeerDisconnected(p)
        PROVE  AwaitInv'
    <2> DEFINE S == {o \in Orphans : origin[o] # p}
    <2>1. /\ wq' = [wq EXCEPT !.queued = @ \ {p}, !.work[p] = {}]
          /\ origin' = Restrict(origin, S) /\ pool' = pool /\ shadowed' = shadowed
      BY <1>7 DEF OnPeerDisconnected, RemovePeer, RemovedPeer
    <2>2. wq' \in Queues /\ \A r \in Peers : r # p => wq'.work[r] = wq.work[r]
      BY <1>1, <2>1 DEF Queues
    <2>4. /\ OrphansTyped(origin') /\ DOMAIN origin' = S
          /\ \A o \in S : origin'[o] = origin[o]
      BY <1>1, <2>1, RestrictTyped DEF Orphans
    <2>5. ASSUME NEW o \in S
          PROVE  o \in wq'.work[origin'[o]] \/ Missing(o) \/ ByCopy(o)
      <3>1. origin'[o] = origin[o] /\ origin[o] \in Peers /\ origin[o] # p
        BY <1>1, <2>4 DEF OrphansTyped, Orphans
      <3> QED BY <1>1, <2>2, <3>1 DEF Awaited, Orphans
    <2> HIDE DEF S
    <2>6. Awaited(origin, wq)'
      BY <2>1, <2>4, <2>5 DEF Awaited, Missing, Known, ByCopy
    <2>7. CopiesKnown(origin)'
      BY <1>1, <2>1, <2>4 DEF CopiesKnown, S, Orphans
    <2> QED BY <1>1, <2>1, <2>4, <2>6, <2>7 DEF AwaitInv
  <1>8. CASE SetSizeLimit
    <2>1. /\ pool' \subseteq pool
          /\ UNCHANGED <<wq, origin, shadowed>>
      BY <1>8 DEF SetSizeLimit, queueVars
    <2>2. \A d : Known(d)' => Known(d)
      BY <2>1 DEF Known, Provides
    <2>3. \A o : Missing(o) => Missing(o)'
      BY <2>2 DEF Missing
    <2>4. Awaited(origin, wq)'
      BY <1>1, <2>1, <2>3 DEF Awaited, ByCopy
    <2> QED BY <1>1, <2>1, <2>4 DEF AwaitInv, CopiesKnown
  <1>9. CASE UNCHANGED <<wq, txVars>>
    BY <1>1, <1>9 DEF txVars, AwaitInv, Awaited, Missing, Known, ByCopy, CopiesKnown
  <1>10. /\ UNCHANGED vars => UNCHANGED <<wq, txVars>>
         /\ \A drop, p : WorkUnitPanics(drop, p) => UNCHANGED <<wq, txVars>>
    BY DEF vars, queueVars, WorkUnitPanics, PickPanics
  <1> QED
    BY <1>3, <1>4, <1>5, <1>6, <1>7, <1>8, <1>9, <1>10 DEF Next

\* The orphan pool keeps its limit, and an orphan that could be added to the
\* pool is queued, unless a copy of its parent is in the orphan pool's way: for
\* any transactions, peers and limits, however late calls arrive.
THEOREM OrphansSound == Spec => []OrphansInv
  <1>1. Init => AwaitInv
    <2> SUFFICES ASSUME Init PROVE AwaitInv
      OBVIOUS
    <2>2. DOMAIN origin = {} /\ pool = {} /\ shadowed = {} /\ origin \in [{} -> Peers]
      BY DEF Init
    <2>3. OrphansTyped(origin)
      BY <2>2, FS_EmptySet, TxAssumption DEF OrphansTyped
    <2> QED BY <2>2, <2>3 DEF AwaitInv, Awaited, CopiesKnown
  <1>2. TxInv /\ AwaitInv /\ [Next]_vars => AwaitInv'
    BY AwaitStep DEF TxInv, QueueInv, QueueTypeOK
  <1>3. TxInv /\ AwaitInv => OrphansInv
    <2> SUFFICES ASSUME TxInv, AwaitInv PROVE OrphansInv
      OBVIOUS
    <2>1. TypeOK
      BY DEF TxInv, QueueInv, AwaitInv, TypeOK, OrphansTyped, Orphans
    <2>2. \A o \in Orphans : InputsFound(o) => ~Missing(o)
      BY DEF InputsFound, Missing
    <2>3. ForgottenOnlyByCopies
      BY <2>2 DEF AwaitInv, Awaited, ForgottenOnlyByCopies, IsAddable, ByCopy, Orphans
    <2> QED BY <2>1, <2>3 DEF OrphansInv
  <1> QED BY <1>1, <1>2, <1>3, TxInvariant, PTL DEF Spec
=============================================================================
