---------------------------- MODULE PosAccounting ----------------------------
(***************************************************************************)
(* The accounting of stake pools and delegations (pos-accounting), as the  *)
(* transaction verifier drives it when blocks are connected and            *)
(* disconnected.                                                           *)
(*                                                                         *)
(* The database holds the accounting state at the tip.  A verifier         *)
(* connects a block on top of it: each operation of a transaction is done  *)
(* on a fresh delta that reads through the verifier's delta, and is then   *)
(* merged into it; the operation's undo is remembered.  At the end of the  *)
(* block the reward is distributed among the staker and the delegations,   *)
(* the delta is written to the database and the undos are stored with the  *)
(* block.  A block that turns out to be invalid leaves no trace, as its    *)
(* verifier is dropped.  A block is disconnected by a verifier of its own, *)
(* which undoes the reward (in the order in which it was distributed) and  *)
(* then the transactions' operations (in the reverse order).               *)
(*                                                                         *)
(* Keys of the accounting state: a pool stands for its data and for its    *)
(* balance, a delegation for its data and its balance, and <<pool,         *)
(* delegation>> for the delegation's share in the pool.                    *)
(***************************************************************************)
EXTENDS Deltas, Sequences, SequencesExt, FiniteSets

CONSTANTS Pools, Delegations,
          Amounts,          \* amounts that are pledged, delegated, withdrawn
          Rewards,          \* rewards of a block: subsidy and fees
          CostPerBlock,     \* what the staker takes first (pool data)
          Margin,           \* the staker's margin in thousandths (pool data)
          UpgradeHeight,    \* the first block with version 1 of the distribution
          MaxOps,           \* bound on the operations of all blocks together
          MaxBlocks         \* bound on the blocks

ASSUME PosAssumption ==
  /\ Pools \cap Delegations = {} /\ IsFiniteSet(Delegations)
  /\ (Pools \cup Delegations) \cap (Pools \X Delegations) = {}
  /\ NoData \notin Pools \cup Delegations \cup [pledge : Nat, rewards : Nat]
  /\ NoData \notin Nat \cup [pool : Pools, balance : Nat]
  /\ Amounts \subseteq Nat \ {0} /\ Rewards \subseteq Nat
  /\ CostPerBlock \in Nat /\ Margin \in 0..1000 /\ UpgradeHeight \in Nat
  /\ MaxOps \in Nat /\ MaxBlocks \in Nat

VARIABLES
  db,          \* the accounting state at the tip
  verifier,    \* [delta, undos, failed]: failed if an operation that cannot
               \* fail reported an error
  chain,       \* the blocks: [txs, reward], the undos that are stored for them
  saved        \* history variable: the database before each block

vars == <<db, verifier, chain, saved>>

DataKeys   == Pools \cup Delegations
AmountKeys == Pools \cup Delegations \cup (Pools \X Delegations)

PoolData(pledge, rewards) == [pledge |-> pledge, rewards |-> rewards]

StakerBalance(data) == data.pledge + data.rewards

NewVerifier == [delta |-> NoChange(AmountKeys), undos |-> <<>>, failed |-> FALSE]

----------------------------------------------------------------------------
(***************************************************************************)
(* What a verifier reads: the database through its delta                   *)
(***************************************************************************)
View(v) == Apply(db, v.delta)

GetData(v, k) == View(v).data[k]
GetAmount(v, k) == View(v).amounts[k]
Exists(v, k) == GetData(v, k) # NoData

PoolOf(v, d) == GetData(v, d)        \* source_pool

\* get_pool_delegations_shares, added up
TotalShares(v, p) == SumFunction([d \in Delegations |-> GetAmount(v, <<p, d>>)])

----------------------------------------------------------------------------
(***************************************************************************)
(* Operations.  Each yields the verifier with the operation's delta merged *)
(* and its undo remembered; the conditions under which the code reports an *)
(* error are in the actions below.                                         *)
(***************************************************************************)
MergeDelta(v, data, amounts) ==
  LET d == [data |-> data, amounts |-> amounts]
  IN [v EXCEPT !.delta = Merge(v.delta, d), !.failed = @ \/ ~Mergeable(v.delta, d)]

Remember(v, undo) == [v EXCEPT !.undos = Append(@, undo)]

Undo(op, id, amount, data) == [op |-> op, id |-> id, amount |-> amount, data |-> data]

NoDataDelta == [k \in {} |-> NoData]

CreatePool(v, p, pledge) ==
  LET d == DataDelta(NoData, PoolData(pledge, 0))
  IN Remember(MergeDelta(v, DataOf(p, d), AmountOf(AmountKeys, {p}, pledge)),
              Undo("CreatePool", p, pledge, Invert(d)))

DecommissionPool(v, p) ==
  LET d == DataDelta(GetData(v, p), NoData)
      balance == GetAmount(v, p)
  IN Remember(MergeDelta(v, DataOf(p, d), AmountOf(AmountKeys, {p}, -balance)),
              Undo("DecommissionPool", p, balance, Invert(d)))

IncreaseStakerRewards(v, p, amount) ==
  LET old == GetData(v, p)
      d == DataDelta(old, PoolData(old.pledge, old.rewards + amount))
  IN Remember(MergeDelta(v, DataOf(p, d), AmountOf(AmountKeys, {p}, amount)),
              Undo("IncreaseStakerRewards", p, amount, Invert(d)))

CreateDelegationId(v, p, d) ==
  LET dd == DataDelta(NoData, p)
  IN Remember(MergeDelta(v, DataOf(d, dd), AmountOf(AmountKeys, {}, 0)),
              Undo("CreateDelegationId", d, 0, Invert(dd)))

DeleteDelegationId(v, d) ==
  LET dd == DataDelta(PoolOf(v, d), NoData)
  IN Remember(MergeDelta(v, DataOf(d, dd), AmountOf(AmountKeys, {}, 0)),
              Undo("DeleteDelegationId", d, 0, Invert(dd)))

DelegateStaking(v, d, amount) ==
  LET p == PoolOf(v, d)
  IN Remember(MergeDelta(v, NoDataDelta, AmountOf(AmountKeys, {d, p, <<p, d>>}, amount)),
              Undo("DelegateStaking", d, amount, NoData))

\* As SpendShare, but the pool's balance is left alone.
SpendSharePoolForgotten(v, d, amount) ==
  Remember(MergeDelta(v, NoDataDelta, AmountOf(AmountKeys, {d, <<PoolOf(v, d), d>>}, -amount)),
           Undo("SpendFromShare", d, amount, NoData))

\* Delegators of a decommissioned pool withdraw their shares one by one, when
\* the pool no longer has a balance.
SpendShare(v, d, amount) ==
  LET p == PoolOf(v, d)
      keys == {d, <<p, d>>} \cup (IF Exists(v, p) THEN {p} ELSE {})
  IN Remember(MergeDelta(v, NoDataDelta, AmountOf(AmountKeys, keys, -amount)),
              Undo("SpendFromShare", d, amount, NoData))

----------------------------------------------------------------------------
(***************************************************************************)
(* Undoing an operation: what is checked first, and what is merged then    *)
(***************************************************************************)
UndoAllowed(v, u) ==
  CASE u.op = "CreatePool"         -> GetAmount(v, u.id) = u.amount /\ Exists(v, u.id)
    [] u.op = "DecommissionPool"   -> ~Exists(v, u.id) /\ GetAmount(v, u.id) <= 0
    [] u.op = "CreateDelegationId" -> Exists(v, u.id)
    [] u.op = "DeleteDelegationId" -> GetAmount(v, u.id) <= 0
    [] u.op \in {"DelegateStaking", "SpendFromShare"} -> Exists(v, u.id)
    [] u.op = "IncreaseStakerRewards" -> TRUE

UndoMerged(v, u) ==
  LET p == PoolOf(v, u.id)
  IN CASE u.op \in {"CreatePool", "IncreaseStakerRewards"} ->
            MergeDelta(v, DataOf(u.id, u.data), AmountOf(AmountKeys, {u.id}, -u.amount))
       [] u.op = "DecommissionPool" ->
            MergeDelta(v, DataOf(u.id, u.data), AmountOf(AmountKeys, {u.id}, u.amount))
       [] u.op \in {"CreateDelegationId", "DeleteDelegationId"} ->
            MergeDelta(v, DataOf(u.id, u.data), AmountOf(AmountKeys, {}, 0))
       [] u.op = "DelegateStaking" ->
            MergeDelta(v, NoDataDelta, AmountOf(AmountKeys, {u.id, p, <<p, u.id>>}, -u.amount))
       [] u.op = "SpendFromShare" ->
            MergeDelta(v, NoDataDelta,
                       AmountOf(AmountKeys, {u.id, <<p, u.id>>} \cup
                                            (IF Exists(v, p) THEN {p} ELSE {}), u.amount))

UndoOp(v, u) == IF v.failed \/ ~UndoAllowed(v, u) THEN [v EXCEPT !.failed = TRUE]
                ELSE UndoMerged(v, u)

----------------------------------------------------------------------------
(***************************************************************************)
(* The reward of a block                                                   *)
(***************************************************************************)
\* reward_distribution_version of the block that is connected
Version == IF Len(chain) + 1 >= UpgradeHeight THEN 1 ELSE 0

\* calculate_staker_reward_v0 and _v1: the cost, a share of the rest in
\* proportion to the staker's part of the balance (version 1), and the margin.
StakerReward(v, p, total) ==
  LET rest    == total - CostPerBlock
      proRata == IF Version = 0 THEN 0
                 ELSE (rest * StakerBalance(GetData(v, p))) \div GetAmount(v, p)
  IN IF rest < 0 THEN total
     ELSE CostPerBlock + proRata + ((rest - proRata) * Margin) \div 1000

\* calculate_rewards_per_delegation, rounded down
DelegationReward(v, p, d, total) == (total * GetAmount(v, <<p, d>>)) \div TotalShares(v, p)

\* As Remainder, but what is left is not given to anybody.
RemainderLost(total, distributed) == 0

\* What rounding leaves of the delegations' reward, all of it without delegations.
Remainder(total, distributed) == total - distributed

Pay(w, x) == DelegateStaking(w, x.to, x.amount)

\* distribute_pos_reward: the delegations' rewards are delegated to the pool,
\* the remainder goes to the staker.
DistributePosReward(v, p, total) ==
  LET forDelegations == total - StakerReward(v, p, total)
      reward == [d \in Delegations |->
                   IF forDelegations > 0 /\ TotalShares(v, p) > 0
                   THEN DelegationReward(v, p, d, forDelegations) ELSE 0]
      paid == {[to |-> d, amount |-> reward[d]] : d \in {x \in Delegations : reward[x] > 0}}
      delegated == FoldLeft(Pay, [v EXCEPT !.undos = <<>>], SetToSeq(paid))
  IN IncreaseStakerRewards(delegated, p, StakerReward(v, p, total) +
                             Remainder(forDelegations, SumFunction(reward)))

----------------------------------------------------------------------------
(***************************************************************************)
(* Actions                                                                 *)
(***************************************************************************)
Init ==
  /\ db = [data |-> [k \in DataKeys |-> NoData], amounts |-> [k \in AmountKeys |-> 0]]
  /\ verifier = NewVerifier
  /\ chain = <<>>
  /\ saved = <<>>

AllUndos == verifier.undos \o FlattenSeq([i \in DOMAIN chain |-> chain[i].txs])

\* Ids are hashes of an input that is spent: no id is made twice on a chain.
Made(undos) == {undos[i].id : i \in {j \in DOMAIN undos :
                                        undos[j].op \in {"CreatePool", "CreateDelegationId"}}}

Fresh(id) == /\ id \notin Made(verifier.undos)
             /\ \A i \in DOMAIN chain : id \notin Made(chain[i].txs)

Operate(v) ==
  /\ Len(AllUndos) < MaxOps
  /\ Len(chain) < MaxBlocks
  /\ verifier' = v
  /\ UNCHANGED <<db, chain, saved>>

TxCreatePool(p, pledge) ==
  /\ Fresh(p)
  /\ ~Exists(verifier, p)
  /\ GetAmount(verifier, p) <= 0
  /\ Operate(CreatePool(verifier, p, pledge))

TxDecommissionPool(p) ==
  /\ Exists(verifier, p)
  /\ Operate(DecommissionPool(verifier, p))

TxCreateDelegationId(p, d) ==
  /\ Fresh(d)
  /\ Exists(verifier, p)
  /\ ~Exists(verifier, d)
  /\ Operate(CreateDelegationId(verifier, p, d))

TxDeleteDelegationId(d) ==
  /\ Exists(verifier, d)
  /\ GetAmount(verifier, d) <= 0
  /\ GetAmount(verifier, <<PoolOf(verifier, d), d>>) <= 0
  /\ ~Exists(verifier, PoolOf(verifier, d))
  /\ Operate(DeleteDelegationId(verifier, d))

TxDelegateStaking(d, amount) ==
  /\ Exists(verifier, d)
  /\ Operate(DelegateStaking(verifier, d, amount))

\* The balance is read after the withdrawal to be sure it is not negative.
TxSpendShare(d, amount) ==
  /\ Exists(verifier, d)
  /\ GetAmount(SpendShare(verifier, d, amount), d) >= 0
  /\ Operate(SpendShare(verifier, d, amount))

\* flush_to_storage: the verifier's delta is written to the database.
Flush(v) ==
  /\ db' = Apply(db, v.delta)
  /\ verifier' = [NewVerifier EXCEPT !.failed = v.failed \/ ~Applies(db, v.delta)]

\* The end of connect_block for a block that distributes no reward.
ConnectBlock ==
  /\ Len(chain) < MaxBlocks
  /\ Flush(verifier)
  /\ chain' = Append(chain, [txs |-> verifier.undos, reward |-> <<>>])
  /\ saved' = Append(saved, db)

\* The end of connect_block for a proof of stake block.
ConnectPosBlock(p, total) ==
  LET v == DistributePosReward(verifier, p, total)
  IN /\ Len(chain) < MaxBlocks
     /\ Exists(verifier, p)
     /\ Flush(v)
     /\ chain' = Append(chain, [txs |-> verifier.undos, reward |-> v.undos])
     /\ saved' = Append(saved, db)

\* The block is invalid: the verifier is dropped.
AbandonBlock ==
  /\ verifier.undos # <<>>
  /\ verifier' = NewVerifier
  /\ UNCHANGED <<db, chain, saved>>

\* As UndosOf, but the transactions are undone from the first to the last.
UndosOfInOrder(block) == block.reward \o block.txs

\* disconnect_block: the reward's undos first, in their own order, then those
\* of the transactions from the last to the first.
UndosOf(block) == block.reward \o Reverse(block.txs)

Disconnected(block) == FoldLeft(UndoOp, NewVerifier, UndosOf(block))

DisconnectBlock ==
  /\ chain # <<>>
  /\ verifier.undos = <<>>
  /\ Flush(Disconnected(Last(chain)))
  /\ chain' = Front(chain)
  /\ saved' = Front(saved)

Next ==
  \/ \E p \in Pools, a \in Amounts : TxCreatePool(p, a)
  \/ \E p \in Pools : TxDecommissionPool(p)
  \/ \E p \in Pools, d \in Delegations : TxCreateDelegationId(p, d)
  \/ \E d \in Delegations : TxDeleteDelegationId(d)
  \/ \E d \in Delegations, a \in Amounts : TxDelegateStaking(d, a)
  \/ \E d \in Delegations, a \in Amounts : TxSpendShare(d, a)
  \/ ConnectBlock
  \/ \E p \in Pools, r \in Rewards : ConnectPosBlock(p, r)
  \/ AbandonBlock
  \/ DisconnectBlock

Spec == Init /\ [][Next]_vars

----------------------------------------------------------------------------
(***************************************************************************)
(* Properties                                                              *)
(***************************************************************************)
States == [data : [DataKeys -> {NoData} \cup Pools \cup [pledge : Nat, rewards : Nat]],
           amounts : [AmountKeys -> Nat]]

\* The database, what the verifier reads and the databases before each block
\* are accounting states: no balance is ever negative.
TypeOK ==
  /\ db \in States
  /\ View(verifier) \in States
  /\ verifier.failed \in BOOLEAN
  /\ Len(saved) = Len(chain)
  /\ \A i \in DOMAIN saved : saved[i] \in States

\* No delta fails to merge into the verifier's or into the database, and no
\* undo finds a state other than the one it expects (merge_delta,
\* undo_create_pool, undo_decommission_pool and the others): the errors the
\* code calls invariant errors never happen.
NeverFails == ~verifier.failed

\* The balance of a pool, which the consensus rules weigh, is what its staker
\* and its delegators own, at every point of a block.  Each is kept in a map of
\* its own and changed by its own line (operator_impls.rs).
PoolBalanceAddsUp ==
  \A p \in Pools : Exists(verifier, p) =>
    GetAmount(verifier, p) = StakerBalance(GetData(verifier, p)) + TotalShares(verifier, p)

\* A delegation's balance is its share in its own pool, also after the pool is
\* gone, and a delegation that does not exist owns nothing.
SharesAreBalances ==
  \A d \in Delegations, p \in Pools :
    GetAmount(verifier, <<p, d>>) =
      IF PoolOf(verifier, d) = p THEN GetAmount(verifier, d) ELSE 0

\* The three maps agree, and no operation that cannot fail does.
BooksBalance == TypeOK /\ NeverFails /\ PoolBalanceAddsUp /\ SharesAreBalances

\* Undoing the last block is always possible and gives back the database as it
\* was before the block, pool balances and shares included, although the
\* reward's undos are not applied in reverse (disconnect_block_reward).
LastBlockCanBeUndone ==
  chain # <<>> =>
    LET v == Disconnected(Last(chain))
    IN /\ ~v.failed
       /\ Applies(db, v.delta)
       /\ Apply(db, v.delta) = Last(saved)

\* The deltas, shares, pool balances and undos implement a plain ledger.
StakersIn(state) == [p \in Pools |-> IF state.data[p] = NoData THEN NoData
                                     ELSE StakerBalance(state.data[p])]

DelegatorsIn(state) == [d \in Delegations |->
                          IF state.data[d] = NoData THEN NoData
                          ELSE [pool |-> state.data[d], balance |-> state.amounts[d]]]

LedgerIn(state) == <<StakersIn(state), DelegatorsIn(state)>>

Promise == INSTANCE PosLedger WITH
             stakers    <- StakersIn(View(verifier)),
             delegators <- DelegatorsIn(View(verifier)),
             past       <- [i \in 1..Len(saved) |-> LedgerIn(saved[i])] \o <<LedgerIn(db)>>

\* Every block that is connected, dropped or disconnected changes what stakers
\* and delegators own as the plain ledger says: a reward is given out to the
\* last coin, fairly, and an undone block is as if it had never been.
ImplementsLedger == Promise!Spec
==============================================================================
