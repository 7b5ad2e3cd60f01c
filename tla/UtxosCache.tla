----------------------------- MODULE UtxosCache ------------------------------
(***************************************************************************)
(* UtxosCache (utxo/src/cache.rs) over the utxo storage and over another   *)
(* UtxosCache, as transaction verifiers stack them: the chainstate has one *)
(* over the database, the mempool derives a child for every transaction.   *)
(* A cache keeps entries with the flags FRESH and DIRTY and forwards to    *)
(* its parent what it has no entry for.  A child borrows its parent, so    *)
(* only the topmost cache can change.                                      *)
(*                                                                         *)
(* The undo data of every cache is a plain map here.                       *)
(***************************************************************************)
EXTENDS Ledger

CONSTANTS
    NoLayer,    \* a cache that does not exist
    NoEntry     \* an outpoint without an entry in a cache

VARIABLES
    db,     \* the storage
    base,   \* the cache over the storage, or NoLayer
    child   \* the cache over base, or NoLayer

vars == <<db, base, child>>

Entries == [utxo : Sources \cup {NoUtxo}, fresh : BOOLEAN, dirty : BOOLEAN]

EntryMaps == [Outpoints -> Entries \cup {NoEntry}]

Caches == [utxos : EntryMaps, undos : Undos, best : Tips]

ASSUME CacheAssumption ==
    NoEntry \notin Entries /\ NoLayer \notin Caches /\ NoLayer \notin Ledgers

Entry(utxo, fresh, dirty) == [utxo |-> utxo, fresh |-> fresh, dirty |-> dirty]

IsSpent(e) == e.utxo = NoUtxo

\* UtxosView::utxo: what is seen through cache c over a parent view p.
ViewThrough(c, p) ==
    [o \in Outpoints |-> IF c[o] # NoEntry THEN c[o].utxo ELSE p[o]]

BaseView  == ViewThrough(base.utxos, db.utxos)
ChildView == ViewThrough(child.utxos, BaseView)

Top     == IF child # NoLayer THEN child ELSE base
Below   == IF child # NoLayer THEN BaseView ELSE db.utxos
TopView == ViewThrough(Top.utxos, Below)

-----------------------------------------------------------------------------
\* fetch_utxo_entry
FetchUtxoEntry(c, p, o) ==
    IF c[o] = NoEntry /\ p[o] # NoUtxo THEN Entry(p[o], FALSE, FALSE) ELSE c[o]

\* spend_utxo finds an unspent entry.
CanSpend(c, p, o) ==
    LET e == FetchUtxoEntry(c, p, o) IN e # NoEntry /\ ~IsSpent(e)

\* The entry that spend_utxo leaves.
SpendUtxo(c, p, o) ==
    IF FetchUtxoEntry(c, p, o).fresh THEN NoEntry ELSE Entry(NoUtxo, FALSE, TRUE)

\* add_utxo without possible_overwrite is not refused.
CanAdd(c, o) == c[o] # NoEntry => IsSpent(c[o])

\* As AddUtxo, but a spent entry that is not flushed yet becomes FRESH.
AddAlwaysFresh(c, o, u) == Entry(u, TRUE, TRUE)

\* The entry that add_utxo without possible_overwrite leaves.
AddUtxo(c, o, u) ==
    Entry(u, c[o] # NoEntry => (~c[o].dirty \/ c[o].fresh), TRUE)

\* connect_transaction and connect_block_transactable: the inputs are spent,
\* then the outputs are added.  No input is an output of the same transaction,
\* and check_duplicate_inputs has refused duplicates, so the order of the
\* outpoints does not matter.
ConnectCache(c, p, t, s) ==
    [o \in Outpoints |->
        IF o \in Inputs[t] THEN SpendUtxo(c, p, o)
        ELSE IF o \in Included(t) THEN AddUtxo(c, o, s) ELSE c[o]]

CanConnect(c, p, t) == \A o \in Inputs[t] : CanSpend(c, p, o)

\* disconnect_transaction and disconnect_block_transactable
DisconnectCache(c, p, u, t) ==
    [o \in Outpoints |->
        IF o \in Included(t) THEN SpendUtxo(c, p, o)
        ELSE IF o \in Inputs[t] THEN AddUtxo(c, o, u[t].spent[o]) ELSE c[o]]

CanDisconnect(u, t) == t \in Connected(u) /\ HasNoChildren(u, t)

-----------------------------------------------------------------------------
\* batch_write into cache q of an entry of cache c.
WriteEntry(q, c, o) ==
    IF c[o] = NoEntry \/ ~c[o].dirty THEN q[o]
    ELSE IF q[o] = NoEntry
    THEN IF c[o].fresh /\ IsSpent(c[o]) THEN NoEntry
         ELSE Entry(c[o].utxo, c[o].fresh, TRUE)
    ELSE IF q[o].fresh /\ IsSpent(c[o]) THEN NoEntry
         ELSE Entry(c[o].utxo, q[o].fresh, TRUE)

WriteCache(q, c) == [o \in Outpoints |-> WriteEntry(q, c, o)]

\* batch_write into a cache would fail with FreshUtxoAlreadyExists.
FreshExists(q, c, o) ==
    /\ c[o] # NoEntry /\ c[o].dirty /\ c[o].fresh
    /\ q[o] # NoEntry /\ ~IsSpent(q[o])

\* batch_write into the storage: set_utxo or del_utxo for dirty entries.
WriteDb(d, c) ==
    [o \in Outpoints |-> IF c[o] # NoEntry /\ c[o].dirty THEN c[o].utxo ELSE d[o]]

-----------------------------------------------------------------------------
Init ==
    /\ db = [utxos |-> GenesisUtxos, undos |-> [t \in Txs |-> NotConnected],
             best |-> GenesisTip]
    /\ base = NoLayer
    /\ child = NoLayer

EmptyCache == [o \in Outpoints |-> NoEntry]

\* UtxosCache::new over the storage.
NewCache ==
    /\ base = NoLayer
    /\ base' = [utxos |-> EmptyCache, undos |-> db.undos, best |-> db.best]
    /\ UNCHANGED <<db, child>>

\* UtxosCache::new over a cache, in derive_child.
DeriveChild ==
    /\ base # NoLayer /\ child = NoLayer
    /\ child' = [utxos |-> EmptyCache, undos |-> base.undos, best |-> base.best]
    /\ UNCHANGED <<db, base>>

\* The topmost cache changes.
SetTop(c, u, b) ==
    \/ /\ child # NoLayer
       /\ child' = [utxos |-> c, undos |-> u, best |-> b]
       /\ UNCHANGED <<db, base>>
    \/ /\ child = NoLayer
       /\ base' = [utxos |-> c, undos |-> u, best |-> b]
       /\ UNCHANGED <<db, child>>

Connect(t, s) ==
    /\ base # NoLayer
    /\ IsNew(Top.undos, t)
    /\ CanConnect(Top.utxos, Below, t)
    /\ \A o \in Included(t) : CanAdd(Top.utxos, o)
    /\ SetTop(ConnectCache(Top.utxos, Below, t, s),
              ConnectUndos(TopView, Top.undos, t, s), Top.best)

Disconnect(t) ==
    /\ base # NoLayer
    /\ CanDisconnect(Top.undos, t)
    /\ \A o \in Included(t) : CanSpend(Top.utxos, Below, o)
    /\ \A o \in Inputs[t] : CanAdd(Top.utxos, o)
    /\ SetTop(DisconnectCache(Top.utxos, Below, Top.undos, t),
              DisconnectUndos(Top.undos, t), Top.best)

ConnectTransaction(t, s) == t \notin Rewards /\ Connect(t, s)

\* connect_block_transactable refuses a reward with an output that does not
\* belong to the utxo set.
ConnectBlockReward(t, s) ==
    /\ t \in Rewards /\ s # Mempool
    /\ \A o \in Excluded : SourceId[o] # t
    /\ Connect(t, s)

DisconnectTransaction(t) == t \notin Rewards /\ Disconnect(t)

DisconnectBlockReward(t) == t \in Rewards /\ Disconnect(t)

SetBestBlock(b) == base # NoLayer /\ SetTop(Top.utxos, Top.undos, b)

\* get_mut_utxo leaves the fetched entry in the cache.
GetUtxo(o) ==
    /\ base # NoLayer
    /\ SetTop([Top.utxos EXCEPT ![o] = FetchUtxoEntry(Top.utxos, Below, o)],
              Top.undos, Top.best)

\* uncache
Uncache(o) ==
    /\ base # NoLayer
    /\ Top.utxos[o] # NoEntry
    /\ ~Top.utxos[o].fresh /\ ~Top.utxos[o].dirty
    /\ SetTop([Top.utxos EXCEPT ![o] = NoEntry], Top.undos, Top.best)

\* As FlushChild, but the parent keeps its best block.
FlushKeepsBest ==
    /\ child # NoLayer
    /\ \A o \in Outpoints : ~FreshExists(base.utxos, child.utxos, o)
    /\ base' = [utxos |-> WriteCache(base.utxos, child.utxos),
                undos |-> child.undos, best |-> base.best]
    /\ child' = NoLayer
    /\ UNCHANGED db

\* consume of the child and batch_write into its parent.
FlushChild ==
    /\ child # NoLayer
    /\ \A o \in Outpoints : ~FreshExists(base.utxos, child.utxos, o)
    /\ base' = [utxos |-> WriteCache(base.utxos, child.utxos),
                undos |-> child.undos, best |-> child.best]
    /\ child' = NoLayer
    /\ UNCHANGED db

\* consume of the cache and batch_write into the storage.
FlushBase ==
    /\ base # NoLayer /\ child = NoLayer
    /\ db' = [utxos |-> WriteDb(db.utxos, base.utxos),
              undos |-> base.undos, best |-> base.best]
    /\ base' = NoLayer
    /\ UNCHANGED child

\* A verifier is dropped, always after a call that returned an error and may
\* have left the cache half changed.
DropTop ==
    /\ base # NoLayer
    /\ \/ child # NoLayer /\ child' = NoLayer /\ UNCHANGED base
       \/ child = NoLayer /\ base' = NoLayer /\ UNCHANGED child
    /\ UNCHANGED db

Next ==
    \/ NewCache \/ DeriveChild
    \/ \E t \in Txs, s \in Sources : ConnectTransaction(t, s)
    \/ \E t \in Txs, s \in Sources : ConnectBlockReward(t, s)
    \/ \E t \in Txs : DisconnectTransaction(t)
    \/ \E t \in Txs : DisconnectBlockReward(t)
    \/ \E b \in Tips : SetBestBlock(b)
    \/ \E o \in Outpoints : GetUtxo(o) \/ Uncache(o)
    \/ FlushChild \/ FlushBase \/ DropTop

Spec == Init /\ [][Next]_vars

-----------------------------------------------------------------------------
\* The state has the shape of the code's types.
TypeOK ==
    /\ db \in Ledgers
    /\ base \in Caches \cup {NoLayer}
    /\ child \in Caches \cup {NoLayer}
    /\ child # NoLayer => base # NoLayer

\* What the flags of an entry say of utxo v, the one the parent has.  If the
\* entry is FRESH the parent has none, or the removal of the entry would bring
\* it back; if it is not DIRTY it agrees with the parent, or a flush would lose
\* it; and the assertions of UtxoEntry::new hold.
EntryAgrees(e, v) ==
    /\ e.fresh => v = NoUtxo
    /\ ~e.dirty => e.utxo = v
    /\ IF IsSpent(e) THEN e.fresh # e.dirty ELSE e.fresh => e.dirty

FlagsAgree(c, p) == \A o \in Outpoints : c[o] # NoEntry => EntryAgrees(c[o], p[o])

\* The flags of every entry are right about the cache or storage below, through
\* any sequence of blocks, reorgs, flushes and dropped verifiers
\* (UtxosCache::add_utxo, spend_utxo, batch_write, UtxoEntry::new).
FlagsConsistent ==
    /\ base # NoLayer => FlagsAgree(base.utxos, db.utxos)
    /\ child # NoLayer => FlagsAgree(child.utxos, BaseView)

\* Every view is determined by the transactions connected in it: disconnecting
\* restores exactly what was there, with its original source, whichever cache
\* the parts of the history are in (connect_transaction,
\* disconnect_transaction, batch_write).
ViewsAreReplays ==
    /\ IsReplay(db.utxos, db.undos)
    /\ base # NoLayer => IsReplay(BaseView, base.undos)
    /\ child # NoLayer => IsReplay(ChildView, child.undos)

\* The errors that mean a mistake in the caches or their callers do not occur:
\* FreshUtxoAlreadyExists in a flush, OverwritingUtxo when a transaction with
\* unspent inputs is connected, NoUtxoFound, UtxoAlreadySpent or OverwritingUtxo
\* when a transaction without dependants is disconnected.
CallsSucceed ==
    base # NoLayer =>
        /\ child # NoLayer =>
             \A o \in Outpoints : ~FreshExists(base.utxos, child.utxos, o)
        /\ \A t \in Txs :
             (IsNew(Top.undos, t) /\ CanConnect(Top.utxos, Below, t)) =>
                \A o \in Included(t) : CanAdd(Top.utxos, o)
        /\ \A t \in Txs : CanDisconnect(Top.undos, t) =>
                /\ \A o \in Included(t) : CanSpend(Top.utxos, Below, o)
                /\ \A o \in Inputs[t] : CanAdd(Top.utxos, o)

\* The inductive invariant.
CacheInv == TypeOK /\ FlagsConsistent /\ ViewsAreReplays

-----------------------------------------------------------------------------
SetOf(l, v) == IF l = NoLayer THEN NoLayer
               ELSE [utxos |-> v, undos |-> l.undos, best |-> l.best]

Plain == INSTANCE UtxoSet WITH
    dbSet    <- db,
    baseSet  <- SetOf(base, BaseView),
    childSet <- SetOf(child, ChildView)

\* The stacked caches implement plain maps: what is seen through them, and what
\* a flush makes of the cache or storage below, is what copying whole utxo sets
\* would give (UtxosView::utxo, batch_write of UtxosCache and of UtxosDB).
ImplementsUtxoSet == Plain!SetSpec
=============================================================================
