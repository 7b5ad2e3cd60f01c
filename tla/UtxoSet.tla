------------------------------- MODULE UtxoSet -------------------------------
(***************************************************************************)
(* What the utxo caches promise: the storage, a view over it and a view    *)
(* over that view are plain maps.  A view starts as a copy of the one      *)
(* below, only the topmost one changes, and it replaces the one below or   *)
(* is forgotten.                                                           *)
(***************************************************************************)
EXTENDS Ledger

CONSTANT NoLayer    \* a view that does not exist

VARIABLES
    dbSet,      \* the storage: utxos, undo data and best block
    baseSet,    \* the view of a cache over the storage
    childSet    \* the view of a cache over that cache

setVars == <<dbSet, baseSet, childSet>>

SetInit ==
    /\ dbSet = [utxos |-> GenesisUtxos, undos |-> [t \in Txs |-> NotConnected],
                best |-> GenesisTip]
    /\ baseSet = NoLayer
    /\ childSet = NoLayer

TopSet == IF childSet # NoLayer THEN childSet ELSE baseSet

\* The topmost view changes.
ChangeTop(v, u, b) ==
    \/ /\ childSet # NoLayer
       /\ childSet' = [utxos |-> v, undos |-> u, best |-> b]
       /\ UNCHANGED <<dbSet, baseSet>>
    \/ /\ childSet = NoLayer
       /\ baseSet # NoLayer
       /\ baseSet' = [utxos |-> v, undos |-> u, best |-> b]
       /\ UNCHANGED <<dbSet, childSet>>

OpenBase == baseSet = NoLayer /\ baseSet' = dbSet /\ UNCHANGED <<dbSet, childSet>>

OpenChild ==
    /\ baseSet # NoLayer /\ childSet = NoLayer
    /\ childSet' = baseSet
    /\ UNCHANGED <<dbSet, baseSet>>

Connect(t, s) ==
    /\ baseSet # NoLayer
    /\ \A o \in Inputs[t] : TopSet.utxos[o] # NoUtxo
    /\ t \notin Connected(TopSet.undos)
    /\ ChangeTop(ConnectUtxos(TopSet.utxos, t, s),
                 ConnectUndos(TopSet.utxos, TopSet.undos, t, s), TopSet.best)

Disconnect(t) ==
    /\ baseSet # NoLayer
    /\ t \in Connected(TopSet.undos)
    /\ HasNoChildren(TopSet.undos, t)
    /\ ChangeTop(DisconnectUtxos(TopSet.utxos, TopSet.undos, t),
                 DisconnectUndos(TopSet.undos, t), TopSet.best)

ChangeBest(b) == ChangeTop(TopSet.utxos, TopSet.undos, b)

CommitChild ==
    /\ childSet # NoLayer
    /\ baseSet' = childSet /\ childSet' = NoLayer
    /\ UNCHANGED dbSet

CommitBase ==
    /\ baseSet # NoLayer /\ childSet = NoLayer
    /\ dbSet' = baseSet /\ baseSet' = NoLayer
    /\ UNCHANGED childSet

ForgetChild == childSet' = NoLayer /\ UNCHANGED <<dbSet, baseSet>>

ForgetBase ==
    childSet = NoLayer /\ baseSet' = NoLayer /\ UNCHANGED <<dbSet, childSet>>

SetNext ==
    \/ OpenBase \/ OpenChild
    \/ \E t \in Txs, s \in Sources : Connect(t, s)
    \/ \E t \in Txs : Disconnect(t)
    \/ \E b \in Tips : ChangeBest(b)
    \/ CommitChild \/ CommitBase \/ ForgetChild \/ ForgetBase

SetSpec == SetInit /\ [][SetNext]_setVars
=============================================================================
