----------------------------- MODULE WalletTxs -----------------------------
(***************************************************************************)
(* The transactions of a wallet's account (OutputCache in                  *)
(* wallet/src/account/output_cache/mod.rs): those it has created itself    *)
(* and those it has seen in blocks, what they consume, and the nonce of a  *)
(* token, delegation or order that their commands use.                     *)
(*                                                                         *)
(* There is one such account with nonces, a token.  The wallet is in sync  *)
(* with the chain after every step (WalletSync has the synchronization); a *)
(* block holds one transaction.                                            *)
(***************************************************************************)
EXTENDS Integers, Sequences, FiniteSets, SequencesExt

CONSTANTS
  Txs, NoTx,
  IdOrder,            \* the transactions in the order of their ids
  Outs,               \* the outputs of this wallet
  Source,             \* the transaction of an output, NoTx if it was there before
  Spends,             \* the outputs a transaction spends
  Nonce,              \* the nonce of its command, NoNonce if it has none
  NoNonce,
  Freezing,           \* the transactions that freeze the token, for ever
  TokenTxs,           \* the transactions that a frozen token does not allow
  MaxReorgs

ASSUME TxsAssumption ==
  /\ NoTx \notin Txs
  /\ ToSet(IdOrder) = Txs /\ Len(IdOrder) = Cardinality(Txs)
  /\ Source \in [Outs -> Txs \cup {NoTx}]
  /\ Spends \in [Txs -> SUBSET Outs]
  /\ NoNonce \notin Nat /\ Nonce \in [Txs -> Nat \cup {NoNonce}]
  /\ Freezing \subseteq TokenTxs /\ TokenTxs \subseteq Txs
  /\ MaxReorgs \in Nat

VARIABLES
  chain,              \* the transactions on the chain, in order
  w,                  \* the OutputCache
  db,                 \* the states of the transactions in the database
  created,            \* the order in which the wallet created transactions
  reorgs,
  calm                \* are there no reorganizations and restarts, and is nothing
                      \* abandoned that depends on something else?

txsVars == <<chain, w, db, created, reorgs, calm>>

\* A transaction is never InMempool: only the function scan_mempool makes it so, which
\* is compiled for tests (wallet/src/wallet/mod.rs:2564).
States == {"none", "Inactive", "Confirmed", "Conflicted", "Abandoned"}
Active == {"Inactive", "Confirmed"}

Empty ==
  [state |-> [t \in Txs |-> "none"],        \* txs
   unconfirmed |-> {},                      \* the keys of unconfirmed_descendants
   descendants |-> [t \in Txs |-> {}],      \* its values
   consumed |-> [o \in Outs |-> "none"],
   lastNonce |-> -1, lastParent |-> NoTx,   \* of the token
   ok |-> TRUE]                             \* no error

TxsInit ==
  /\ chain = <<>>
  /\ w = Empty /\ db = Empty.state
  /\ created = <<>> /\ reorgs = 0 /\ calm \in BOOLEAN

HasNonce(t) == Nonce[t] # NoNonce

Parents(t) == {Source[o] : o \in Spends[t]}

----------------------------------------------------------------------------
(***************************************************************************)
(* OutputCache                                                             *)
(***************************************************************************)
\* add_tx: entries of unconfirmed_descendants
Enter(c, t, st) ==
  IF st # "Confirmed" THEN [c EXCEPT !.unconfirmed = @ \cup {t}]
  ELSE [c EXCEPT !.unconfirmed = @ \ {t}, !.descendants[t] = {}]

\* update_inputs: the outputs that are spent
Consume(c, t, st) ==
  LET parents == Parents(t) \cap c.unconfirmed
  IN [c EXCEPT !.consumed = [o \in DOMAIN @ |-> IF o \in Spends[t] THEN st ELSE @[o]],
               !.descendants = [p \in Txs |-> IF p \in parents THEN @[p] \cup {t} ELSE @[p]],
               !.ok = @ /\ (st = "Confirmed" => parents = {})]

\* update_token_issuance_state, update_delegation_state, update_order_state
UseNonce(c, t) ==
  [c EXCEPT !.ok = @ /\ Nonce[t] = c.lastNonce + 1,
            !.lastNonce = Nonce[t],
            !.lastParent = t,
            !.descendants = [p \in Txs |->
               IF p = c.lastParent /\ p \in c.unconfirmed THEN @[p] \cup {t} ELSE @[p]]]

AddTx(c, t, st) ==
  LET present == c.state[t] \in Active
      entered == Consume(Enter(c, t, st), t, st)
      counted == IF HasNonce(t) /\ ~present THEN UseNonce(entered, t) ELSE entered
  IN [counted EXCEPT !.state[t] = st]

\* As RollBack, but the outputs stay consumed.
RollBackNonce(c, t) == IF HasNonce(t) THEN [c EXCEPT !.lastNonce = Nonce[t] - 1] ELSE c

\* rollback_tx_data
RollBack(c, t) ==
  LET released == [c EXCEPT !.consumed =
                     [o \in DOMAIN @ |-> IF o \in Spends[t] THEN "none" ELSE @[o]]]
      parents == SelectSeq(IdOrder, LAMBDA u : u \in c.unconfirmed /\ t \in c.descendants[u])
  IN IF HasNonce(t)
     THEN [released EXCEPT !.lastNonce = Nonce[t] - 1,
                           !.lastParent = IF parents = <<>> THEN NoTx ELSE Head(parents)]
     ELSE released

\* remove_from_unconfirmed_descendants: the transaction and what depends on it,
\* breadth first.
Descendants(c, t) ==
  LET visit(v, i) ==
        IF v.queue = <<>> THEN v
        ELSE LET u == Head(v.queue)
             IN IF u \in ToSet(v.all) THEN [v EXCEPT !.queue = Tail(@)]
                ELSE [all |-> Append(v.all, u),
                      queue |-> Tail(v.queue) \o
                        SelectSeq(IdOrder, LAMBDA d : u \in c.unconfirmed /\ d \in c.descendants[u])]
      visits == 1 .. Cardinality(Txs) * Cardinality(Txs)
  IN FoldLeft(visit, [all |-> <<>>, queue |-> <<t>>], [i \in visits |-> i]).all

Forget(c, txs) ==
  [c EXCEPT !.unconfirmed = @ \ txs,
            !.descendants = [u \in Txs |-> IF u \in txs THEN {} ELSE @[u]]]

\* One transaction, with what depends on it, conflicts with the chain; those that
\* were marked for the same block are left alone.
MarkConflicted(c, t) ==
  LET all == Descendants(c, t)
      new == SelectSeq(all, LAMBDA u : c.state[u] = w.state[u])
      marked == [Forget(c, ToSet(all)) EXCEPT
                   !.state = [u \in Txs |-> IF u \in ToSet(new) THEN "Conflicted" ELSE @[u]],
                   !.ok = @ /\ \A u \in ToSet(new) : c.state[u] = "Inactive"]
  IN FoldLeft(RollBack, marked, Reverse(new))

\* update_conflicting_txs: transactions with this nonce or an earlier one can not
\* be confirmed any more, nor those that a frozen token does not allow.  Conflicts
\* of outputs are not looked for.
Conflicts(c, t) ==
  {u \in c.unconfirmed : \/ t \in Freezing /\ u \in TokenTxs
                         \/ u # t /\ HasNonce(u) /\ HasNonce(t) /\ Nonce[u] <= Nonce[t]}

UpdateConflicting(c, t) ==
  FoldLeft(MarkConflicted, c, SelectSeq(IdOrder, LAMBDA u : u \in Conflicts(c, t)))

----------------------------------------------------------------------------
(***************************************************************************)
(* The operations of the account                                           *)
(***************************************************************************)
\* What is on the chain and valid there
OnChain == ToSet(chain)

Valid(t) ==
  /\ t \notin OnChain
  /\ Parents(t) \subseteq OnChain \cup {NoTx}
  /\ \A u \in OnChain : Spends[u] \cap Spends[t] = {}
  /\ HasNonce(t) => Nonce[t] = Cardinality({u \in OnChain : HasNonce(u)})
  /\ t \in TokenTxs => Freezing \cap OnChain = {}

\* The wallet builds a transaction from what it can spend, and the next nonce.
Create(t) ==
  /\ w.ok
  /\ w.state[t] = "none" /\ t \notin OnChain
  /\ \A o \in Spends[t] : w.consumed[o] \notin Active /\ (Source[o] # NoTx => w.state[Source[o]] \in Active)
  /\ HasNonce(t) => Nonce[t] = w.lastNonce + 1
  /\ w' = AddTx(w, t, "Inactive")
  /\ db' = [db EXCEPT ![t] = "Inactive"]
  /\ created' = Append(created, t)
  /\ UNCHANGED <<chain, reorgs>>

\* scan_new_blocks: a block with a transaction of this wallet, or of another one
\* with the same keys
Confirm(t) ==
  /\ w.ok
  /\ Valid(t)
  /\ chain' = Append(chain, t)
  /\ w' = AddTx(UpdateConflicting(w, t), t, "Confirmed")
  /\ db' = w'.state
  /\ UNCHANGED <<created, reorgs>>

\* reset_to_height: the last blocks are not on the chain any more.
Revoke(c, t) == RollBack([c EXCEPT !.state[t] = "none", !.ok = @ /\ t \notin c.unconfirmed], t)

Reorg ==
  /\ ~calm /\ w.ok /\ reorgs < MaxReorgs
  /\ \E height \in 0 .. Len(chain) - 1 :
       LET revoked == SubSeq(chain, height + 1, Len(chain))
       IN /\ w' = FoldLeft(Revoke, w, Reverse(revoked))
          /\ chain' = SubSeq(chain, 1, height)
          /\ db' = [t \in Txs |-> IF t \in ToSet(revoked) THEN "none" ELSE db[t]]
          /\ created' = SelectSeq(created, LAMBDA t : t \notin ToSet(revoked))
  /\ reorgs' = reorgs + 1

\* abandon_transaction: an error leaves what was done in memory.
AbandonTransaction(t) ==
  LET all == Descendants(w, t)
      bad == {i \in DOMAIN all : w.state[all[i]] \notin {"Inactive", "Conflicted"}}
      done == IF bad = {} THEN all ELSE SubSeq(all, 1, (CHOOSE i \in bad : \A k \in bad : i <= k) - 1)
      marked == [Forget(w, ToSet(all)) EXCEPT
                   !.state = [u \in Txs |-> IF u \in ToSet(done) THEN "Abandoned" ELSE @[u]]]
      undone == SelectSeq(all, LAMBDA u : w.state[u] = "Inactive")
  IN /\ w.ok /\ w.state[t] # "none"
     /\ calm => \A u \in w.unconfirmed : t \notin w.descendants[u]
     /\ IF bad = {}
        THEN w' = FoldLeft(RollBack, marked, Reverse(undone)) /\ db' = w'.state
        ELSE w' = marked /\ UNCHANGED db
     /\ UNCHANGED <<chain, created, reorgs>>

\* The orders in which the transactions of the database are added again: first
\* what is confirmed, by position, then the others; those that are neither
\* abandoned nor conflicted in the order in which they were created.
LoadOrders ==
  LET pending == SelectSeq(created, LAMBDA t : db[t] = "Inactive")
      others == {t \in Txs : db[t] \in {"Conflicted", "Abandoned"}}
      rest == ToSet(pending) \cup others
  IN {chain \o s : s \in {p \in SetToSeqs(rest) : SelectSeq(p, LAMBDA t : t \notin others) = pending}}

LoadTx(c, t) == AddTx(c, t, db[t])

\* OutputCache::new
Reload ==
  /\ ~calm /\ w.ok
  /\ \E order \in LoadOrders : w' = FoldLeft(LoadTx, Empty, order)
  /\ UNCHANGED <<chain, db, created, reorgs>>

TxsNext ==
  /\ \/ \E t \in Txs : Create(t) \/ Confirm(t) \/ AbandonTransaction(t)
     \/ Reorg
     \/ Reload
  /\ UNCHANGED calm

TxsSpec == TxsInit /\ [][TxsNext]_txsVars

----------------------------------------------------------------------------
(***************************************************************************)
(* Properties                                                              *)
(***************************************************************************)
\* Type correctness.
TxsTypeOK ==
  /\ w.state \in [Txs -> States] /\ db \in [Txs -> States]
  /\ w.unconfirmed \subseteq Txs /\ w.descendants \in [Txs -> SUBSET Txs]
  /\ w.consumed \in [Outs -> States]
  /\ w.lastNonce \in {-1} \cup {Nonce[t] : t \in {u \in Txs : HasNonce(u)}}
  /\ w.lastParent \in Txs \cup {NoTx} /\ w.ok \in BOOLEAN
  /\ ToSet(created) \subseteq Txs /\ Len(created) = Cardinality(ToSet(created))

\* "There are certain invariants associated with it: entries must be present in
\* `txs`; no confirmed txs are allowed; confirmed tx cannot have unconfirmed
\* parent" (wallet/src/account/output_cache/mod.rs:569).
DescendantsInvariants ==
  w.ok => /\ \A t \in w.unconfirmed : w.state[t] \notin {"none", "Confirmed"}
          /\ \A t \in w.unconfirmed : \A u \in w.descendants[t] : w.state[u] # "Confirmed"

\* The next nonce is the one after those in use: it was never used by a
\* transaction that is confirmed or may still be, and there is no gap before it.
NextNonceFree ==
  calm /\ w.ok => LET inUse == {Nonce[t] : t \in {u \in Txs : HasNonce(u) /\ w.state[u] \in Active}}
          IN inUse = 0 .. w.lastNonce

\* An output counts as consumed if and only if a transaction that is confirmed or
\* may still be spends it: abandoning a transaction must "make the consumed inputs
\* available to be used again" (wallet/wallet-rpc-lib/src/rpc/interface.rs:945).
ConsumedIsSpent ==
  calm /\ w.ok => \A o \in Outs :
    w.consumed[o] \in Active <=> \E t \in Txs : o \in Spends[t] /\ w.state[t] \in Active

\* An output that was spent by a transaction on the chain is never offered again.
SpentStaysSpent ==
  w.ok => \A t \in OnChain : \A o \in Spends[t] : w.consumed[o] = "Confirmed"

\* The cache of an account and its transactions agree: no output is offered or nonce
\* given out twice, and none is lost.
CacheAgrees ==
  /\ TxsTypeOK
  /\ DescendantsInvariants /\ NextNonceFree /\ ConsumedIsSpent /\ SpentStaysSpent
=============================================================================
