------------------------------ MODULE TxOrphans ------------------------------
(***************************************************************************)
(* The orphan transactions of the mempool (mempool/src/pool): add_transac- *)
(* tion puts a transaction into the pool, or into the orphan pool while    *)
(* something it depends on is missing; a transaction that enters the pool  *)
(* puts its orphan children into the work queue of the peers they come     *)
(* from; units of background work take orphans out of the queue and add    *)
(* them again.  The tip of the chain does not move.                        *)
(*                                                                         *)
(* The calls of the mempool subsystem are serialized, so each is one step. *)
(***************************************************************************)
EXTENDS WorkQueue, FiniteSets, Functions

CONSTANTS
    Requires,   \* Requires[t]: the dependencies of t, TxEntry::requires
    Outputs,    \* Outputs[t]: the dependencies on an output of t
    Accounts,   \* Accounts[t]: the account states t provides
    Confirmed,  \* the dependencies the chain at the tip provides
    Local,      \* the origin of a transaction that no peer sent
    MaxOrphans  \* transaction_count_limit of the orphan pool

Txs == Items

ASSUME TxAssumption ==
    /\ DOMAIN Requires = Txs /\ DOMAIN Outputs = Txs /\ DOMAIN Accounts = Txs
    /\ Local \notin Peers
    /\ MaxOrphans \in Nat

\* An output is named by the id of its transaction, so nothing else provides it.
ASSUME OutputsAssumption ==
    \A t \in Txs :
        /\ Outputs[t] \cap Confirmed = {}
        /\ \A u \in Txs \ {t} : Outputs[t] \cap (Outputs[u] \cup Accounts[u]) = {}

VARIABLES
    pool,       \* the transactions in the pool
    origin,     \* the orphan pool: the peers its transactions came from
    shadowed,   \* history: transactions that entered the pool while a copy
                \* of them was in the orphan pool
    callers     \* history: peers whose calls came after their disconnection

txVars == <<pool, origin, shadowed>>
vars   == <<queueVars, txVars, callers>>

Orphans == DOMAIN origin

Provides(t) == Outputs[t] \cup Accounts[t]

-----------------------------------------------------------------------------
\* The transaction verifier of the pool finds d.
Known(d) == d \in Confirmed \/ \E u \in pool : d \in Provides(u)

\* A transaction in the pool depends on d, and has used it up.
Spent(d) == \E u \in pool : d \in Requires[u]

\* connect_transaction of the transaction verifier finds all inputs.
InputsFound(t) == \A d \in Requires[t] : Known(d) /\ ~Spent(d)

\* orphan_rbf_checks, or a nonce that was used already
Conflicts(t) == \E d \in Requires[t] : Spent(d)

\* Sets of transactions evicted from the pool txs: with all descendants.
Evictions(txs) ==
    {ev \in SUBSET txs : \A t \in ev, u \in txs :
        Provides(t) \cap Requires[u] # {} => u \in ev}

\* As ChildrenOf, but only the children by the outputs of t are found.
SpendersOf(t, org) ==
    {<<org[o], o>> : o \in {u \in DOMAIN org : Requires[u] \cap Outputs[t] # {}}}

\* children_of in orphan pool org, as work for the peers they came from
ChildrenOf(t, org) ==
    {<<org[o], o>> : o \in {u \in DOMAIN org : Requires[u] \cap Provides(t) # {}}}

\* is_ready: no transaction whose output o needs is itself an orphan.
IsReady(o) == \A u \in Orphans : Outputs[u] \cap Requires[o] = {}

\* insert: a copy that is there already stays.
InsertOrphan(org, t, from) ==
    IF t \in DOMAIN org THEN org
    ELSE [o \in DOMAIN org \cup {t} |-> IF o = t THEN from ELSE org[o]]

-----------------------------------------------------------------------------
\* add_transaction of t from a peer or Local, when the orphan pool is org and
\* the work queue is q.  Policy, fees and other checks may refuse any t.
Duplicate(t, org, q) ==
    /\ t \in pool
    /\ origin' = org
    /\ wq' = q
    /\ UNCHANGED <<pool, shadowed, late>>

Refused(t, org, q) ==
    /\ t \notin pool
    /\ origin' = org
    /\ wq' = q
    /\ UNCHANGED <<pool, shadowed, late>>

\* The transaction is added; expired transactions and those beyond the size
\* limit leave the pool, and so may t, which is an error.
Added(t, org, q) ==
    /\ t \notin pool
    /\ InputsFound(t)
    /\ \E ev \in Evictions(pool \cup {t}) :
           /\ pool' = (pool \cup {t}) \ ev
           /\ LET batch == IF t \in ev THEN {} ELSE ChildrenOf(t, org)
              IN  wq' = Inserted(q, batch) /\ late' = late \cup LateIn(batch)
           /\ shadowed' = IF t \in DOMAIN org \ ev THEN shadowed \cup {t} ELSE shadowed
    /\ origin' = org

\* try_add_orphan: orphans expire, and random ones are evicted beyond the
\* limit; either may be t itself.
Orphaned(t, from, org, q) ==
    /\ t \notin pool
    /\ ~InputsFound(t)
    /\ ~Conflicts(t)
    /\ from # Local
    /\ \E kept \in SUBSET (DOMAIN org \cup {t}) :
           /\ Cardinality(kept) <= MaxOrphans
           /\ origin' = Restrict(InsertOrphan(org, t, from), kept)
    /\ wq' = q
    /\ UNCHANGED <<pool, shadowed, late>>

AddTransaction(t, from, org, q) ==
    \/ Duplicate(t, org, q)
    \/ Refused(t, org, q)
    \/ Added(t, org, q)
    \/ Orphaned(t, from, org, q)

-----------------------------------------------------------------------------
Init ==
    /\ QueueInit
    /\ pool = {}
    /\ origin = [o \in {} |-> Local]
    /\ shadowed = {}
    /\ callers = {}

AddLocal(t) ==
    /\ AddTransaction(t, Local, origin, wq)
    /\ UNCHANGED <<panicked, gone, overtaken, callers>>

\* Also of a peer that is gone: handle_peer_event of the sync manager awaits
\* on_peer_disconnected before it aborts the tasks of the peer.
AddRemote(t, p) ==
    /\ AddTransaction(t, p, origin, wq)
    /\ callers' = IF p \in gone THEN callers \cup {p} ELSE callers
    /\ UNCHANGED <<panicked, gone, overtaken>>

\* The item pick takes: the first that is still in the orphan pool.
FirstOrphan(p) ==
    {i \in wq.work[p] \cap Orphans : \A j \in wq.work[p] \cap Orphans : i <= j}

\* perform_work_unit in a turn of p: the orphan taken out of the queue is added
\* again if it is ready, and stays in the orphan pool if not.
PerformWorkUnit(drop, p) ==
    /\ ~NobodyScheduled(wq)
    /\ Finds(wq, drop, p)
    /\ HasWork(wq, p)
    /\ LET taken == FirstOrphan(p)
           q == Picked(wq, drop, p, taken)
       IN  \/ \E o \in taken :
                  /\ IsReady(o)
                  /\ AddTransaction(o, origin[o], Restrict(origin, Orphans \ {o}), q)
           \/ /\ \A o \in taken : ~IsReady(o)
              /\ wq' = q
              /\ UNCHANGED <<txVars, late>>
    /\ overtaken' = OvertakenBy(p, wq)
    /\ UNCHANGED <<panicked, gone, callers>>

\* perform_work_unit when pick panics, and the mempool with it
WorkUnitPanics(drop, p) ==
    /\ PickPanics(drop, p)
    /\ UNCHANGED <<txVars, callers>>

\* perform_work_unit when only stale entries are scheduled
NoWorkLeft == PickNothing /\ UNCHANGED <<txVars, callers>>

\* As OnPeerDisconnected, but the orphans of the peer stay.
DisconnectOnly(p) ==
    /\ RemovePeer(p)
    /\ UNCHANGED <<txVars, callers>>

OnPeerDisconnected(p) ==
    /\ RemovePeer(p)
    /\ origin' = Restrict(origin, {o \in Orphans : origin[o] # p})
    /\ UNCHANGED <<pool, shadowed, callers>>

SetSizeLimit ==
    /\ \E ev \in Evictions(pool) : pool' = pool \ ev
    /\ UNCHANGED <<queueVars, origin, shadowed, callers>>

Next ==
    /\ ~panicked
    /\ \/ \E t \in Txs : AddLocal(t)
       \/ \E t \in Txs, p \in Peers : AddRemote(t, p)
       \/ \E drop \in SUBSET Stale(wq), p \in Peers :
              PerformWorkUnit(drop, p) \/ WorkUnitPanics(drop, p)
       \/ NoWorkLeft
       \/ \E p \in Peers : OnPeerDisconnected(p)
       \/ SetSizeLimit

Spec == Init /\ [][Next]_vars

-----------------------------------------------------------------------------
\* The types of the pools; the orphan pool keeps its limit.
TypeOK ==
    /\ QueueTypeOK
    /\ pool \subseteq Txs
    /\ Orphans \subseteq Txs
    /\ \A o \in Orphans : origin[o] \in Peers
    /\ Cardinality(Orphans) <= MaxOrphans
    /\ shadowed \subseteq Txs
    /\ callers \subseteq gone

\* on_peer_disconnected leaves nothing of a peer behind that would make the
\* node work for it, neither orphans nor queued work, unless a transaction of
\* the peer came after it: nothing removes that again, and only such a call gives
\* a removed peer work.
NothingOfGonePeers ==
    /\ \A p \in gone \ callers : wq.work[p] = {} /\ \A o \in Orphans : origin[o] # p
    /\ late \subseteq callers

\* An orphan that could be added to the pool.
IsAddable(o) == o \in Orphans /\ o \notin pool /\ InputsFound(o)

\* The orphans that are forgotten have a parent that entered the pool while a
\* copy of it was in the orphan pool: is_ready takes the copy for the parent.
ForgottenOnlyByCopies ==
    \A o \in Orphans :
        IsAddable(o) /\ o \notin wq.work[origin[o]]
            => \E t \in shadowed : Outputs[t] \cap Requires[o] # {}

\* The orphan pool is bounded and sound, and no orphan is forgotten but for copies.
OrphansInv == TypeOK /\ ForgottenOnlyByCopies
=============================================================================
