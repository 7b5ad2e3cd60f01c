------------------------------- MODULE Ledger --------------------------------
(***************************************************************************)
(* Transactions, the outpoints they spend and create, and what connecting  *)
(* and disconnecting one does to a plain map of unspent outputs.           *)
(*                                                                         *)
(* A utxo is abstracted to its UtxoSource (the height of the block, or the *)
(* mempool): the output itself is determined by the outpoint, the source   *)
(* depends on where the transaction was connected and only the undo data   *)
(* can restore it.                                                         *)
(***************************************************************************)
CONSTANTS
    Txs,            \* transactions and block rewards
    Rewards,        \* the block rewards among them
    Genesis,        \* the source id of the genesis outputs
    Outpoints,      \* all outpoints
    SourceId,       \* OutPointSourceId: what creates an outpoint
    Excluded,       \* outputs that never enter the utxo set (a burn, an order)
    Inputs,         \* Inputs[t]: the outpoints t spends
    Sources,        \* UtxoSource
    GenesisSource,  \* of the genesis outputs
    Mempool,        \* UtxoSource::Mempool
    Tips,           \* block ids for the best block
    GenesisTip,     \* the first of them
    NoUtxo,         \* no unspent output
    NotConnected    \* no undo data

ASSUME LedgerAssumption ==
    /\ Rewards \subseteq Txs
    /\ Genesis \notin Txs
    /\ SourceId \in [Outpoints -> Txs \cup {Genesis}]
    /\ Excluded \subseteq Outpoints
    /\ Inputs \in [Txs -> SUBSET Outpoints]
    /\ \A t \in Txs : \A o \in Inputs[t] : SourceId[o] # t
    /\ GenesisSource \in Sources
    /\ GenesisTip \in Tips
    /\ NoUtxo \notin Sources
    /\ \A t \in Txs : NotConnected \notin [source : Sources, spent : [Inputs[t] -> Sources]]

\* The outputs of t that should_include_in_utxo_set lets in.
Included(t) == {o \in Outpoints \ Excluded : SourceId[o] = t}

Utxos == [Outpoints -> Sources \cup {NoUtxo}]

\* What connect_transaction returns and the undo data keeps: the spent utxos.
\* The source t was connected with is known from the block that contains t.
Undo(t) == [source : Sources, spent : [Inputs[t] -> Sources]]

Undos == {u \in [Txs -> {NotConnected} \cup UNION {Undo(t) : t \in Txs}] :
            \A t \in Txs : u[t] # NotConnected => u[t] \in Undo(t)}

\* A utxo set with the undo data and the best block that belong to it.
Ledgers == [utxos : Utxos, undos : Undos, best : Tips]

Connected(u) == {t \in Txs : u[t] # NotConnected}

GenesisUtxos ==
    [o \in Outpoints |-> IF SourceId[o] = Genesis /\ o \notin Excluded
                         THEN GenesisSource ELSE NoUtxo]

ConnectUtxos(v, t, s) ==
    [o \in Outpoints |-> IF o \in Inputs[t] THEN NoUtxo
                         ELSE IF o \in Included(t) THEN s ELSE v[o]]

DisconnectUtxos(v, u, t) ==
    [o \in Outpoints |-> IF o \in Included(t) THEN NoUtxo
                         ELSE IF o \in Inputs[t] THEN u[t].spent[o] ELSE v[o]]

ConnectUndos(v, u, t, s) ==
    [u EXCEPT ![t] = [source |-> s, spent |-> [o \in Inputs[t] |-> v[o]]]]

DisconnectUndos(u, t) == [u EXCEPT ![t] = NotConnected]

\* A transaction that is already connected cannot be connected again: its
\* inputs are spent.  One without utxo inputs spends an account nonce, or runs
\* an order command that cannot succeed twice, and a reward belongs to its
\* block: for these it is a precondition that the caller of the cache keeps.
IsNew(u, t) == Inputs[t] = {} => t \notin Connected(u)

\* As HasNoChildren, but the dependencies are not looked at.
Forgotten(u, t) == TRUE

\* has_children_of: the undo data of t cannot be taken while a connected
\* transaction spends an output of t.  It looks at the transactions of one
\* block (or of the mempool); for other blocks and for rewards it is the order
\* of disconnection, from the tip down, that guarantees the same.
HasNoChildren(u, t) ==
    \A c \in Connected(u) : \A o \in Inputs[c] : SourceId[o] # t

-----------------------------------------------------------------------------
\* The value o was created with, if what creates it is connected.
Created(u, o) ==
    IF o \in Excluded THEN NoUtxo
    ELSE IF SourceId[o] = Genesis THEN GenesisSource
    ELSE IF SourceId[o] \in Connected(u) THEN u[SourceId[o]].source
    ELSE NoUtxo

\* The utxo set is what the connected transactions make of the genesis
\* outputs, whatever was connected and disconnected on the way, and the undo
\* data of a transaction has the utxos it spent as they were created.
IsReplay(v, u) ==
    /\ \A o \in Outpoints :
          v[o] = IF \E t \in Connected(u) : o \in Inputs[t] THEN NoUtxo ELSE Created(u, o)
    /\ \A t \in Connected(u) : \A o \in Inputs[t] : u[t].spent[o] = Created(u, o)
    /\ \A t1, t2 \in Connected(u) : t1 # t2 => Inputs[t1] \cap Inputs[t2] = {}
=============================================================================
