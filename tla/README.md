# A TLA+ verification project for mintlayer-core

mintlayer-core is the node, wallet and API server of the Mintlayer blockchain.
This directory holds TLA+ specifications of the parts that carry its logic, TLC
configurations that check them on small instances, and TLAPS proofs of the
properties that matter most, for every instance.  Paths are relative to the
root of the repository, `src/` being the directory this project was written
beside.

## 1. Inventory

| Component | State | Operations | Interacts with |
|---|---|---|---|
| Chainstate (`chainstate/src/detail`) | block index (status, persisted flag, height, trust), stored blocks, best block, id by height, reorg limit; in memory the orphan pool, the IBD flag, event subscribers | `process_block`, `invalidate_block`, `reset_block_failure_flags`, queries | called by p2p, blockprod and RPC; sends `NewTip` to mempool, p2p, blockprod, wallet |
| Orphan pool (`orphan_blocks/pool.rs`) | ids, blocks by id, blocks by parent | add, take children, evict | owned by the chainstate |
| UTXO set and cache (`utxo`) | entries with DIRTY and FRESH flags over a parent view; block undo data | spend, add, fetch, batch write, undo | transaction verifier, mempool, storage |
| Transaction verifier (`chainstate/tx-verifier`) | UTXO cache, token ids, account nonces, accounting deltas, undo | connect, disconnect, consume | chainstate, mempool |
| Accounting (`accounting`, `pos-accounting`, `tokens-accounting`, `orders-accounting`) | amounts and data by id as base plus deltas | create, stake, mint, freeze, fill, undo, merge of deltas | transaction verifier |
| Epoch seal (`chainstateref/epoch_seal.rs`) | sealed accounting state, per-epoch deltas and randomness | seal and unseal while blocks are connected and disconnected | chainstate, PoS consensus |
| Constraints accumulator (`chainstate/constraints-value-accumulator`) | coins and tokens by unlock time | consume inputs, consume outputs, compute fee | transaction verifier, mempool |
| Mempool (`mempool/src/pool`) | transactions with ancestors and descendants, spenders by outpoint, rolling fee; orphans with their peers, work queue | add, reorg, evict, collect a block, a unit of background work, peer disconnected | chainstate events, p2p, blockprod, subsystem task |
| Sync (`p2p/src/sync`) | per peer: announced, requested and known headers, blocks, transactions | header, block and transaction messages, timeouts | chainstate, mempool, peer manager |
| Peer manager (`p2p/src/peer_manager`) and backend (`p2p/src/net/default_backend`) | peers, pending connects, bans, discouragement, sockets, tasks of the connections | connect, accept, disconnect, ban, switch networking off | networking, sync |
| Address database (`peer_manager/peerdb`) | address states, new and tried tables, stored addresses | discovered, connected, failed, reserved, heartbeat, load | peer manager |
| Subsystem manager (`subsystem`) | tasks and call channels of the subsystems | start, call, shut down | everything |
| Block production (`blockprod`) | jobs with their tips | produce, cancel on a new tip | chainstate, mempool |
| Wallet (`wallet`) | per account: best block, transactions, what they consume, nonces | synchronize, create, confirm, abandon, lock, restart | node RPC |
| API scanner (`api-server`) | scanned chain and what was found in it | scan, reset to a common block | node RPC |
| Skip list (`chainstate/types/src/height_skip.rs`, `ancestor.rs`) | none | ancestor at a height | chainstate |

What is hard in the chainstate: a call consists of several database
transactions, and the node may stop between any two of them; a transaction may
fail and some results are ignored; a reorg can fail halfway; the orphan pool is
bounded and blocks arrive in any order; operator commands mark and unmark whole
branches; the reorg limit only moves up.  `PROJECT.json` lists each of these
hazards at its line, with the properties that cover it.

What is hard elsewhere: in the UTXO cache, flags whose error only shows after a
later flush, and undo data that outlives several caches; in the mempool, orphans
that are queued now and looked at later, lazy removal of peers, calls of a peer
that is gone, and a tip that moves while transactions are verified; in p2p, late
and lost answers, announcements that are held back, commands and events that
cross each other; in the accounting, deltas that must be undone in the reverse
order and rounded divisions; between subsystems, calls that wait for one another
during a shutdown; in the wallet, a node whose tip moves between two calls, and
accounts that are saved one by one.  What makes each component correct: the main chain is the best admissible
chain and never violates a rule (chainstate); a cache behaves as the map it
stands for (UTXO, accounting); no orphan that could be added is forgotten and no
peer starves another one (mempool); nodes end up with the same chain and the same
transactions (sync); nothing is created, lost or moved against the rules
(accounting); whatever was begun ends (subsystems, jobs, connections); what the
wallet holds is what its chain says.

## 2. The modules

| Component | Modules | Checked by |
|---|---|---|
| Chainstate | `BlockTree`, `Chainstate`, `ChainstateProofs` | `MCCalls`, `MCFailures` |
| Orphan block pool | `OrphanSet`, `OrphanPool` | `MCCalls` |
| UTXO set and cache | `Ledger`, `UtxoSet`, `UtxosCache`, `VerifierProofs` | `MCVerifier` |
| Mempool: orphans, work queue | `WorkQueue`, `TxOrphans`, and their proofs | `MCTxOrphans`, `MCLatePeer` |
| Mempool: tip changes | `MempoolReorg`, `MempoolReorgProofs` | `MCMempoolReorg` |
| Accounting of stake | `Deltas`, `PosAccounting`, `PosLedger`, `StakingProofs` | `MCStaking` |
| Epoch seal | `Deltas`, `EpochSeal`, `StakingProofs` | `MCStaking` |
| Tokens and orders | `Deltas`, `TokensOrders`, `VerifierProofs` | `MCVerifier` |
| Block sync | `BlockTree`, `BlockSync`, `BlockSyncProofs` | `MCBlockSync` |
| Transaction sync | `TxSync` | `MCTxSync` |
| Connections | `PeerConnections`, `PeerDbProofs` | `MCPeers` |
| Peer addresses | `PeerDb`, `PeerDbProofs` | `MCPeers` |
| Subsystem manager | `Subsystems`, `SubsystemsProofs` | `MCTasks` |
| Block production | `BlockProduction` | `MCTasks` |
| Wallet | `RpcNode`, `WalletSync`, `WalletTxs` | `MCWallet` |

Abstract specifications: `OrphanSet` (a bounded set, which `Chainstate` uses and
`OrphanPool` implements), `UtxoSet` (plain maps, which `UtxosCache` implements),
`PosLedger` (what everybody owns, which `PosAccounting` implements) and
`WorkQueue` (which the mempool of `TxOrphans` implements).

An `MC` module that checks two components which share no state lets one of them
rest in its initial state while the other one moves, so its states are the sum
of both and not their product.

Plan for what comes next: the combination of cached undo operations
(`UtxosBlockUndoCache`) as a refinement of the plain map of undo data in
`UtxosCache`; fees and block assembly of the mempool.

## 3. The chainstate model

`BlockTree.tla` has the constants: a finite or infinite tree of blocks with
parents, heights, the ancestor of a block at a height and the trust of the chain
that ends in it.  `Chainstate.tla` is the component.  One action is one
read-write transaction (`with_rw_tx`), together with the reads before it and
the changes of the in-memory state after it; `pc` says where in a call the node
is.

| Variables | Code |
|---|---|
| `indexed`, `stage`, `fails`, `persisted` | `BlockIndex` in the database: existence, `last_valid_stage`, the three failure bits, the persisted flag |
| `blockMap` | stored block data |
| `best`, `byHeight`, `minReorg` | best block id, block id by height, `min_height_with_allowed_reorg` |
| `orphans`, `ibdDone`, `notified` | orphan pool, IBD flag, block of the last `NewTip` |
| `pc`, `first`, `source`, `cur`, `culprit`, `pending`, `batch`, `tip`, `cands`, `minTrust` | local variables of the call in progress |
| `faults` | bound on failures |

| Actions | Code |
|---|---|
| `ProcessBlock`, `AttemptOrphan`, `AttemptRejected`, `AttemptPanics`, `IntegrateCheckFails`, `IntegrateStale`, `IntegrateReorg`, `IntegrateConnectFails` | `process_block`, `attempt_to_process_block`, `integrate_block` with `check_block` and `activate_best_chain` |
| `MarkNewBlockFailed`, `SaveNewBlockIndex`, `BlameCulprit` | the error paths of `attempt_to_process_block`, one transaction each |
| `TakeOrphans`, `AttemptNextOrphan`, `FinishProcessBlock` | `process_orphans_of`, `NewTip` event, IBD flag |
| `InvalidateStaleBlock`, `InvalidateMainChainBlock`, `MarkInvalidatedBranch` | `BlockInvalidator::invalidate_block` |
| `ResetBlockFailureFlags` | `reset_block_failure_flags` |
| `CollectCandidates`, `CollectFails`, `ActivateCandidate`, `CandidateFails`, `NoCandidateLeft` | `find_and_activate_best_chain`, `BestChainCandidates` |
| `DbFailure`, `Crash` | a transaction that gives up after its last retry; a restart, which keeps the database only |

The data of a block is abstracted to what decides its fate: `BadHeader`,
`BadBody` and `BadTx` are the blocks that fail a rule of the header, of the body
or when their transactions are connected (a fixed property of a block, since a
block is always connected on top of the same chain); `FutureBlock` may be ahead
of the clock, `PoSBlock` need a reorg in memory before they can be checked,
`FreshBlock` may end the initial block download.  Height and trust of a block
are functions of the tree.  What connecting a block does to UTXOs and accounting
is the subject of the accounting modules.  Checkpoints are part of `BadHeader`.

A new block above one that is not indexed any more makes
`create_block_index_for_new_block` panic (`chainstateref/mod.rs:1056`) if the
missing one is on the way to the ancestor that the new index refers to.  Which
blocks are on that way depends on the heights and is left open: `AttemptPanics`,
which is followed by a restart, and `AttemptRejected` are both possible.

## 4. The orphan pool model

`OrphanSet.tla` is what `Chainstate.tla` uses: a set of blocks with a bound on
its size, where adding to a full pool first evicts a block.  `OrphanPool.tla`
has the three containers of `orphan_blocks/pool.rs` (the vector of ids, the map
by id, the map from a parent to its children) and the loops that change them
together: `add_block` with its eviction, `del_one_deepest_child`,
`take_all_children_of` and `drop_block`.  The random choice of the victim is a
nondeterministic one.  The property `ImplementsOrphanSet` maps the containers to
the set.

## 5. The UTXO model

`Ledger.tla` has the constants: transactions and block rewards with the
outpoints they spend and create, and what connecting and disconnecting one does
to a plain map of unspent outputs.  `UtxoSet.tla` is the promise: the storage
and the two verifiers on top of it are plain maps.  `UtxosCache.tla` is the code:
a cache is a map of entries over the view below it.

A utxo is abstracted to its `UtxoSource`.  The output is determined by the
outpoint; the source (the height of the block, or the mempool) depends on where
the transaction was connected, and only the undo data can bring it back.
`Excluded` holds the outputs that `should_include_in_utxo_set` keeps out.

| Variables | Code |
|---|---|
| `db` | `UtxosDB`: utxos, undo data, best block |
| `base` | the cache of the verifier that chainstate or mempool opened on the storage |
| `child` | the cache of a verifier derived from it (`derive_child`), as the mempool does for each transaction |

| Actions | Code |
|---|---|
| `NewCache`, `DeriveChild` | `TransactionVerifier::new`, `derive_child` |
| `ConnectTransaction`, `ConnectBlockReward` | `connect_transaction`, `connect_block_transactable`: spend the inputs, keep them as undo data, add the outputs |
| `DisconnectTransaction`, `DisconnectBlockReward` | the opposite: spend the outputs, add the inputs from the undo data |
| `SetBestBlock` | `set_best_block` |
| `GetUtxo`, `Uncache` | `fetch_utxo_entry` by a read (`get_mut_utxo`), `uncache` |
| `FlushChild`, `FlushBase` | `consume` and `batch_write` into a cache and into the storage |
| `DropTop` | a verifier that is not flushed, after any error in it |

Only the topmost cache changes: a derived verifier borrows its parent.  A call
that fails halfway leaves its cache in an intermediate state; the callers then
drop the verifier, which is `DropTop`, so the intermediate states are not
visible and the guard of an action is that all its calls succeed.  That the
errors which would be a defect of the cache (`OverwritingUtxo`,
`FreshUtxoAlreadyExists`, a failing disconnect) never happen is the property
`CallsSucceed`.  The undo data of a verifier is a plain map; its own cache of
write and erase operations is not modelled.  `add_utxo` is
modelled without `possible_overwrite`, which only tests set.

The instance has five outpoints: transaction `t1` and reward `r` compete for a
genesis output, `a` spends an account only, `t2` spends an output of each of `t1`
and `a`, and one output of `t1` is excluded.  There are two sources and two best
blocks, enough to tell a restored one from a new one.

## 6. The model of orphan transactions

`WorkQueue.tla` is the queue of `mempool/src/pool/work_queue/mod.rs`: per peer a
set of transaction ids, and the peers scheduled in the current round.  Items and
the handler that picks among them are left open: any batch of work may be
inserted and any item taken.  `TxOrphans.tla` extends it to the mempool around
it, with the transactions, their dependencies and the orphan pool.

| Variables | Code |
|---|---|
| `wq.queued`, `wq.work` | the keys and the values of `work_queue` |
| `wq.scheduled` | the vector `scheduled`; its order is random, so it is a bag |
| `panicked` | the assertion in `pick` failed; the mempool stops |
| `gone` | the peers for which `remove_peer` was called |
| `callers`, `late` | histories: peers whose calls came after their disconnection, and those of them that got work by it |
| `pool` | the ids in the store of the transaction pool |
| `origin` | `TxOrphanPool`: its transactions, each with the peer it came from |
| `overtaken`, `shadowed` | histories for `FairRounds` and `ForgottenOnlyByCopies` |

| Actions | Code |
|---|---|
| `AddLocal`, `AddRemote` | `add_transaction`: a duplicate, refused, added with the evictions and `enqueue_children`, or put into the orphan pool |
| `PerformWorkUnit`, `NoWorkLeft`, `WorkUnitPanics` | `perform_work_unit`, with the re-submission of the orphan it takes |
| `OnPeerDisconnected` | `on_peer_disconnected` |
| `SetSizeLimit` | `set_size_limit`, which evicts |
| `Insert`, `PickWork`, `PickNothing`, `PickPanics`, `RemovePeer` | the operations of the queue by itself |

A dependency (`TxDependency`) is an output of a transaction or the state of an
account; `Requires`, `Outputs` and `Accounts` say what a transaction needs and
provides.  Policy, fees and signatures may refuse any transaction at any time.
Expiry and the choice of victims are nondeterministic.  Replacement is disabled
in the code (`ENABLE_RBF`) and left out.  The calls of the mempool are
serialized by its subsystem, so one call is one step; a unit of background work
is only done when no call waits, so nothing is assumed about when it happens and
no liveness is claimed.

The calls of a peer may arrive after its disconnection: the sync manager tells
the mempool of it before it stops the peer's tasks (`p2p/src/sync/mod.rs:359`).
`QueueIntegrity`, `FairRounds` and `NothingOfGonePeers` say what holds of all other
peers, and how far such calls disturb the queue.

The instance has a chain of three transactions, by an output and by an account,
and a fourth one that competes with the last of the chain for another account;
two peers, which are symmetric, and an orphan pool for two of the three possible
orphans.  Ids are chosen such that children come before their parents in the
queue.  The bound of
`FairRounds` is only reached with a third peer that keeps the round open; the
proof covers any number of peers.

## 7. The other models

### How the mempool follows the tip: `MempoolReorg`

The mempool and the chainstate are two subsystems, and every question of the
mempool to the chainstate is a call of its own, between any two of which the tip
may move (`MoveTip`).  `TakeEvent` is `handle_new_tip` up to its first decision;
then `Discard`, `FetchDisconnectedTxs` or `FetchFails`, `Reset`, and the
transactions one by one: `SkipDuplicate`, `BeginAttempt`, `CheckInput`,
`TipMoved`, `AddedOrRejected`.  A transaction is the set of outputs it spends.
`disturbed` records whether the tip waited for the mempool.  Left out: orphans
(in `TxOrphans`), fees, expiry and `collect_txs`, and events that are sent before
the mempool has subscribed.

### Accounting: `Deltas`, `PosAccounting`, `PosLedger`, `EpochSeal`, `TokensOrders`

`Deltas` has the two kinds of deltas of the `accounting` crate, of data (old and
new value) and of amounts, and how they are merged, inverted and applied.
Overflow of 128 bits is left out.

`PosAccounting` has a database state and the delta of the verifier that works on
the next block.  Each operation (`TxCreatePool` ... `TxSpendShare`) is done on a
fresh delta which is merged into the verifier's, and its undo is remembered;
`ConnectBlock` and `ConnectPosBlock` write the delta, the latter after the
distribution of the reward in the version of the block's height; `AbandonBlock`
drops the verifier; `DisconnectBlock` undoes the reward in the order in which it
was distributed and the transactions in reverse.  Identifiers are hashes of spent
inputs, so a new one is always fresh.  `delete_delegation_id` has no caller at
present and is modelled nevertheless.  `PosLedger` is the promise: what each
staker and delegator owns, and the past ledgers that a disconnected block brings
back.  A reward may be shared out in any way that gives nothing to other pools'
delegators, is fair, and leaves what is not given to delegators to the staker.

`EpochSeal` has the sealed accounting state, the deltas, undos and the randomness
of epochs, for any sequence of blocks that are connected and disconnected.  All
blocks are proof of stake blocks; a block changes the data of an account or a
balance or nothing; only the seed of the last block of an epoch has an effect.
`Distance` is at least 1.

`TokensOrders` has the operations on tokens (issue, mint, unmint, lock, freeze,
unfreeze, change of authority, which also stands for the change of the metadata)
and on orders (create, fill, conclude, freeze) with nonces, undos and the fork
from version 0 to version 1 of the orders' rules.  A transaction has one account
command.  Unspent outputs are an amount per currency.  Fees, outputs that burn a
token and fills of 0 are left out.

### Synchronization: `BlockSync`, `TxSync`

`BlockSync` has several nodes with a `PeerBlockSyncManager` for every peer, and
the messages between them in first in, first out channels.  A handler is one step:
what its calls to the chainstate see only grows, and the state of a connection is
not shared.  `Receive` is a block that a node gets from elsewhere.
`DisconnectStalled` is the timeout for something that is not coming,
`DisconnectLate` the timeout although the answer is under way (bounded by
`maxDisconnects`); `Connect` connects again.  All blocks are valid.  A locator is
the set of blocks it lists.  The new tips of one node for one peer are one queue,
and whether the node is in initial block download is looked at when the event is
handled.  `headerLimit` has to exceed the length of a stale branch plus the gap
in the locator; in the code these are 2000 and at most 1000 blocks.

`TxSync` has one task per node and peer with `known`, `requested` and `pending`
transactions.  The mempools are sets; an orphan whose parent is there follows in a step of its
own, a work unit.  Both ends of a connection have the transactions service.  The
filter of known transactions is exact; in the code it is a rolling Bloom filter.
Connections exist from the start.  Announcements that arrive during the initial
block download or over the limit of requests, and requests that are purged, are
not made up for over the same link; `Calm` says that none of this happens.

### Connections and addresses: `PeerConnections`, `PeerDb`

`PeerConnections` has the peer manager `pm`, the network backend `be`, a task per
end of a connection, and the four kinds of channels between them.  The biased
select of a task (events of the backend first) is a guard.  A connection of the
node to itself has both ends in the model; of the others the remote end may do
anything, and it may stop reading: the task that sends it something then waits
(`StopReading`), without a timeout, unless the connection breaks down
(`SendFails`).  A feeler is not checked against the other peers
(`maybe_reject_because_already_connected`); it is the address database that does
not offer a connected address, unless it has forgotten it (scenarios with
`forgotten`).  Whether a peer is compatible, and which one is evicted, is
nondeterministic.  A `scenario` says what a behaviour may do: which commands, how
many of them, the limit of inbound peers, and whether connections of the node to
itself are `prompt`, that is, do not time out in the middle of a handshake.  Only
then, and only while networking is left on, does the node never become a peer of
itself: what the inbound end has received is dropped while networking is off, and
the outbound end may complete its handshake after it is on again.

`PeerDb` has the state of addresses, the new and tried tables with the slots that
addresses share, the storage, and restarts, at which reserved nodes and boot
nodes of the configuration enter the tables again.  `dropped` are the addresses
that were pushed out of the tables while they were connected.  Times are left to chance: a
reconnection or the removal of an unreachable address may be due or not.
`panicked` says that an `unreachable!()` was reached; a restart follows.

### Tasks: `Subsystems`, `BlockProduction`

`Subsystems` has the tasks of `N` subsystems with their call queues, the worker
tasks of immutable calls, the fair lock around the state (external: tokio's
`RwLock`), background work, panics, failed starts, and the manager that shuts
them down in reverse order with a timeout.  A panic of a task goes on in the
manager when it gets there, and ends it (`panicked`).  A subsystem calls only those created
before it.  Calls made by initialization and by the subsystems' own shutdown are
left out.

`BlockProduction` has the subsystem that executes one call at a time, the job
manager that polls its channels in any order, the search, and the chainstate's
new tips.  An `endless` search is a proof of work that need not succeed.  The
timestamp searcher and the shutdown of the job manager are left out.

### Wallet: `WalletSync`, `WalletTxs`

`WalletSync` is `sync_once`: accounts are grouped by their best block, brought to
a common one, blocks are fetched and scanned, the unused account is promoted when
it is paid, and groups are merged.  The node's tip may move between any two of
its calls.  `Restart` stops the process anywhere; each account is saved by a
transaction of its own.  `held` are unused accounts that were paid and could not be
promoted, because the wallet was locked or stopped at this point, and `gaps` the
accounts that are therefore not scanned from the start.  `NoGapsAssumption`:
accounts are used one after the other.  `WalletTxs` is the `OutputCache` of one account with a token's nonces:
transactions are created, confirmed, found in conflict, abandoned, disconnected
by reorgs and loaded again from the database.  The state "in the
mempool" is left out: only test code sets it (`scan_mempool`, `wallet/mod.rs:2564`).  Conflicts by spent outputs are an open issue of the code
(1875) and not modelled.  An error ends the behaviour (`ok = FALSE`).

## 8. Runs

| Run | Instance | Question |
|---|---|---|
| `MCCalls` | six blocks with forks at heights 0 and 1, a bad body, a bad transaction, one early, one proof of stake and one fresh block; two orphans in the chainstate and three in the pool by itself | Delivery in any order, invalidation and reset of branch roots: `BestChainActive`, `NoOrphanLeftBehind`, `GoodBlockNotBlamed`, `IndexConsistent` (the assertions of the consistency checker) between calls, `CallsEnd`; the pool's containers implement the bounded set |
| `MCFailures` | six blocks, of which a node gets at most five, where a branch of lower height has more trust; one crash or failed transaction; reorg depth 1 | All commands: the inductive invariant `ChainInv` and `FinalizedPrefixKept` |
| `MCTxOrphans` | two peers, four transactions, two places for orphans, calls after a disconnection | `QueueSound`: the work queue is sound and fair; `NothingOfGonePeers`; `OrphansInv`: no orphan is forgotten but for copies |
| `MCLatePeer` | the same | Expected to be violated: `PickNeverPanics`, the comment's "the panic should never happen"; see (4) |
| `MCMempoolReorg` | two branches of two blocks, five transactions, two moves of the tip, one failed query | `PoolSound`, `NothingLost`, `CatchesUp` |
| `MCStaking` | two pools, two delegations, five operations, two blocks with the upgrade at the second; and two epochs and a half, sealed one behind the tip | `BooksBalance`, `LastBlockCanBeUndone`, `ImplementsLedger`; `SealInv` |
| `MCVerifier` | two caches, three transactions and a reward over five outpoints; a token and an order that sells or buys it, five operations, two blocks with the fork at the second | The caches behave as plain maps, flags are right, no call fails; `OrdersAreFair`, `RestrictedStays`, `LastBlockCanBeUndone` |
| `MCBlockSync` | two nodes with a branch each; one in initial block download over a connection that is lost; the same with blocks of its own; three in a line | `HonestPeersNotBlamed`, `EndsAgree` (with `PeerWillAsk`), `Converges` (with the exception `Unheard`) |
| `MCTxSync` | a triangle of nodes, and a line with one request at a time, a purge, a transaction that leaves and a node in initial block download; a transaction and its child | `Relayed`, `RequestsEnd` |
| `MCTasks` | two subsystems, three calls, one fault; one staking key, three tips, two calls | `CallsOrdered` (with `CalleesOutliveCallers`), `ShutdownEnds`; `JobsEnd` |
| `MCWallet` | three accounts, five blocks, four moves of the node, in four scenarios: a new wallet, accounts at different blocks, a wallet that is locked or stopped while unused accounts are paid, with reorgs and with a rescan; three commands of a token and a payment, one reorg | `AccountsFollowChain`, `CatchesUp`; `CacheAgrees` |
| `MCPeers` | one remote address, two connections, up to two commands in seven scenarios, among them remotes that stop reading and forgotten addresses; three addresses in two slots, two of them boot nodes and one reserved | `ConnectionsInv`, `ConnectionsSettle`; `AddressesInv` |

Why the bounds suffice for the cases that matter.  Trees: a reorg that fails
halfway needs two blocks on the failing branch, a best chain that is not the
longest one needs uneven trust, eviction needs more orphans than places.  Stake:
a second pool and a second delegation are there so that an operation can touch
the wrong one, and reward 7 with two shares does not divide evenly.  Orders:
amounts 1 and 4 leave a remainder at the offers' prices, and the fork is between
the two blocks.  Sync: `headerLimit` and `blockLimit` are small enough that
headers and blocks come in several messages.  Subsystems: two calls to the same
subsystem and one between subsystems, with one fault.  Connections: two can be
made to the same address, in either direction; the tables have three addresses
for one slot, which is what a chain of evictions needs.

`Commands` of the chainstate is the set of operator commands in use: `reset_root`
only resets a block whose parent is ok, as a user does to undo an invalidation;
`reset_any` resets any block.  The parts of `IndexConsistent` are what
`consistency_checker.rs` asserts after each call if heavy checks are enabled; it
holds with `reset_root` and without failures (see section 9 for what breaks it).

Fairness.  `Chainstate`: weak fairness of the steps of a call, which one thread
executes to its end; nothing is assumed about when calls arrive, and `CallsEnd`
is checked without failures.  `BlockSync`, `TxSync`, `Subsystems`,
`BlockProduction`, `PeerConnections`: weak fairness of the disjunction of all
steps that the tasks take by themselves: as long as a task of the tokio runtime
can go on, one does; timeouts expire and random delays end; in `TxSync` the
mempool's work units are among these steps.  Sending to a peer has no timeout, so a
task whose remote does not read (`stalled`) is not assumed to go on or to fail.  A node's blocks,
users' commands, faults and late timeouts are never assumed to happen, and are
bounded, so that what must happen eventually is not postponed for ever.
`MempoolReorg`: weak fairness of the call that is executed, strong fairness of
taking an event, because the call queue is first in, first out and submitted
transactions cannot overtake an event for ever.  `WalletSync`: the wallet keeps
synchronizing.  `PosAccounting`, `EpochSeal`, `TokensOrders`, `UtxosCache`,
`TxOrphans`, `PeerDb` and `WalletTxs` have no liveness and assume no fairness.

Deadlock is not checked where the system may really come to rest: `BlockSync` and
`TxSync` when everything was delivered, `MCTasks` after the shutdown or the last
call, `MCWallet` after an error, `MCPeers` when the commands are used up.

## 9. Where code and comments disagree

Stronger forms of the properties, taken from comments, assertions and tests, do
not hold; TLC gave the behaviours below.  The properties of the runs are stated
with the exceptions that these require.

Chainstate.  (1) `find_and_activate_best_chain` does not update the reorg limit
(`block_invalidation/mod.rs:211`): after an invalidation a longer chain of less
trust can become active, and the stored limit is lower than
`consistency_checker.rs:215` asserts, until the next block.  (2) A reset below a
failed block yields an ok block with a failed parent (`mod.rs:286`, against
`consistency_checker.rs:171`).  (3) A crash between `set_new_block_index` and
`invalidate_block` in `attempt_to_process_block` (`detail/mod.rs:476`) leaves an
ok status for a block without data, against the comment at line 488.  A reset deletes
the index of a block without data; where (2) or (3) has led to blocks with data above
it, a new block on top of them may panic (`AttemptPanics`).  None of the three reaches the main chain: `MCFailures` allows all
of them, and the main chain invariants hold and are proved.

Mempool.  (4) The sync manager tells the mempool of a disconnection before it
stops the tasks of the peer (`p2p/src/sync/mod.rs:359`); a transaction that
arrives in between can make the peer be scheduled twice, and the assertion in
`pick` fails (`work_queue/mod.rs:113` and 191), against the comment "the panic should
never happen as a data structure invariant".  The run `MCLatePeer` shows it; orphans
and work of the peer may also remain.  (5) `is_ready` looks for parents in the orphan pool only
(`orphans/mod.rs:314`): if a parent has entered the pool from another origin
while a copy of it is an orphan, the child is dropped from the work queue and not
retried.  `ForgottenOnlyByCopies` shows that this is the only way while the tip
does not move.  (6) If the tip moves again while a reorg is handled
(`tx_pool/reorg.rs:190`), the new verifier has the newer tip as its best block and
the transactions of the blocks in between do not come back, as the tests expect
for a single move (`tests/reorg.rs:96`); `NothingLost` therefore has `~disturbed`.

Sync.  (7) A node whose tip went to another branch and back takes the first
request for a block of that branch for a `DuplicatedBlockRequest`
(`block_manager.rs:503`).  (8) A header request during the initial block download
is answered by an empty list (`block_manager.rs:391`), after which the peer does
not ask again and nothing is announced on this connection, against the comment at
line 257.  `Converges` states this exception (`Unheard`): it holds for all other
pairs of peers, and again on a connection that is made anew.

Block production.  (9) The first timestamp of a search comes from the tip at the
start, the parent from the tip read later (`detail/mod.rs:420`, against 434).
(10) A timestamp that is reported after a new tip was handled is stored for the
new tip (530, against 441).  (11) The destructor's message names a job by its key
and may stop the next job for the key (427).  (12) `stop_all` waits for the job it
is to stop, since both are mutable calls of one subsystem (`rpc.rs:101`).

Wallet.  (13) A wallet that was stopped between the saves of two accounts and is
started again at the same tip fails the assertion at `sync/mod.rs:389`.  (14) Two
groups with the same common block fail with "No new blocks found" each time
(`sync/mod.rs:229`).  (15) Merged groups need not have the same best block
(`sync/mod.rs:208`).  (16) If the wallet is locked when the unused account is
first paid, the account is not promoted although its blocks are committed
(`wallet/mod.rs:2530`).  (17) A restart right after an account was added loses
payments to the next one in the same blocks (`wallet/mod.rs:1048`).  (15) to (17)
are the exceptions `gaps` and `held` of `AccountsFollowChain`, and there are no others;
a scan from the start ends them.  (18) In the
output cache: abandoning a parent of an abandoned transaction fails after half of
it was done (1653), a conflict with such a parent fails (866), descendants are
not in the order of their dependencies (1513), a wallet's own freeze is in conflict
with itself (812), a reorg gives out a pending nonce again (1562), and loading
counts conflicted commands (603).  `CacheAgrees` states its nonce and consumption
parts for `calm` behaviours only.

Addresses and connections.  (19) `move_to_tried` may drop a connected address,
and its disconnection then reaches `unreachable!()` (`address_tables/mod.rs:91`,
`address_data/mod.rs:204`).  Discovered again, it may get a feeler besides the
connection it has, against `peer_manager/mod.rs:1931`.  `ConnectedAreKnown` and
`OneOutbound` state these exceptions.  (20) A reserved address that loses its slot stays in
the storage, and one of the two is discarded on load (`peerdb/mod.rs:508`).
(21) If networking is disabled while a connection is being made, the peer manager
never hears of it (`backend.rs:595`, against `peer_manager/mod.rs:613`), and an
outbound end to the node itself may complete its handshake.  (22) An address that
is discouraged between `try_connect` and the report of the connection is accepted
(`peer_manager/mod.rs:787`, against 783).  (23) A task that waits for its remote to
read (`peer.rs:459` and 463) never handles the `Disconnect` behind it, nor does the
peer manager hear of it (`backend.rs:298`; the comment at 530 speaks of tasks that
block); `ConnectionsSettle` exempts such peers (`Stuck`).

## 10. Proofs

`ChainstateProofs.tla` proves, for every block tree, every set of bad blocks and
every number of failures: `ChainInv` (the inductive invariant), `TypeOK`,
`MainChainLinked`, `MainChainFullyValid`, `MainChainSound` and
`FinalizedPrefixKept`.  The assumptions are those of `BlockTree.tla` and
`ChainstateAssumption`: the tree is a tree, trust grows along a chain, and the
sets of bad blocks are sets of blocks.

The main chain properties are not inductive by themselves.  `ChainInv` adds:

- `StoredBlocksChecked`: the flag and the data agree at every commit; a stored
  block and an ok block have passed `check_block`; a fully checked block has good
  transactions.  A reorg connects blocks from the database, and this is what it
  knows of them.
- `ReorgLimitBelowTip`: without it the finalized prefix could be longer than the
  chain.
- `CallInv`: what a transaction may rely on from the previous ones of the same
  call: the block to blame is not in the main chain, and every candidate leaves
  the main chain at or above the reorg limit.  For a candidate that replaces a
  failed one this needs that its fork height is the same (`ParentAboveFork`).

The arguments about chains are in the lemmas `ForkAgrees` (below the fork two
chains agree), `ForkAboveLimit` (an admissible branch forks at or above the
limit) and `StaleBranch` (a descendant of a stale block is not in the main
chain).  Then there is one lemma per kind of change of the database
(`ReorganizeKeeps`, `DisconnectKeeps`, `MarkBranchKeeps`, `ResetKeeps`,
`SaveKeeps`, `NewIndexKeeps`), and one step per action.

`VerifierProofs.tla` proves for any transactions, outpoints and sources, that
the stacked caches implement plain maps (`CachesImplementMaps`), and on the way
`CacheTypes`, `FlagsAreRight`, `UtxosAreReplays` and `NoInternalErrors`.  The
assumptions are `LedgerAssumption` (a transaction does not spend its own outputs,
an outpoint has one creator) and `CacheAssumption` (the values for "nothing" are
different from all others).  The invariant is

- `FlagsConsistent`: a FRESH entry hides nothing below it, an entry that is not
  DIRTY agrees with what is below it.  This is what makes a flush equal to the
  replacement of the map.
- `ViewsAreReplays`: what a cache shows is a function of the transactions that
  are connected in it.  It gives that an output that is about to be created does
  not exist, which `add_utxo` takes for granted and does not look up.

There is a lemma for every operation on an entry (what it does to the view, and
that the flags stay right), one that lifts a change of the topmost cache to the
state (`SetTop`), and one step per action in the invariant and in the refinement.

`TxOrphansProofs.tla` proves of the queue `QueueIntegrity`, `WorkNotForgotten` and
`FairRounds` for any peers and any work, and whatever is inserted for peers that were
removed.  `QueueInv` consists of `PeerOK` (a peer that got no work after its removal is
in one of the five states that the comment on `WorkQueue` lists; one that did is
scheduled at most twice, since it is removed only once), `RoundOpen` (a round that is over has been advanced, so an
empty schedule means an empty queue) and `WaitOK`: a peer that waits for the next
round was overtaken at most once by any other, and not at all by those that
still have their turn in this round; a peer that is removed in between may have one
turn more (`Spare`).  The bounds of `FairRounds` are not inductive without this
distinction.  It then proves that the
mempool implements the queue's specification (`UsesWorkQueue`), so that all of
this holds in the mempool, and that nothing of a disconnected peer is left
(`NothingLeft`), unless it made calls afterwards; its invariant adds that the orphans
come from connected peers and from those.  The panic itself is (4) above: the theorems
say that it needs such a call.  `MempoolQueueSound` is
what the run `MCTxOrphans` checks as `QueueSound`.

`TxOrphansProofs.tla` also proves `OrphansSound`, which has no exception for late
calls.  `OutputsAssumption` says that a transaction provides
an output that no other one provides, as outpoints name their transaction.  The
invariant `AwaitInv` says of every orphan that it misses something, or is queued
for its peer, or one of its parents was in the orphan pool when a copy of it
entered the pool; the last case is not recorded by any variable of the code, which is why the
property has the history `shadowed`.

`ChainstateProofs.tla` then builds on `ChainInv` and proves what holds between and
within calls: `IndexIsConsistent`, `NoGoodBlockBlamed`, `OrphansAreProcessed` and
`BestChainIsActive`, for every block tree, orphan limit and order of calls.  They
assume `Undisturbed`: no crash or failed transaction, and operators reset branch
roots only.  Without it they do not hold; see (2) and (3) above.  They include that
an attempt does not panic: the parents of a known block are known.  `CallsInv` has three
kinds of parts.  The index: a block has the failure bits of its parent's branch,
a stored block has a stored parent, and so on.  The search: while candidates are
tried, every better chain either goes through one of them or contains a block that
is marked as failed.  The orphans: each waits for a block that is unknown or
failed, or that is in the current batch.  "The best of the candidates" and "the
first failed block of a chain" exist by induction over natural numbers, which the
library has as `LeastNatural`, a theorem without operator parameter: a set of
numbers that is not empty has a least element.

`MempoolReorgProofs.tla` proves `PoolIsSound` and `NothingIsLost` for any block
tree, any transactions and any number of attempts.  `ChainsAssumption` says that
the blocks are valid: what a transaction spends comes before it on its chain.
`PoolInv` follows the mempool's call step by step: which prefix of the inputs was
looked up, and that a pool whose verifier has the current tip is consistent with
it.  `LossInv` says where a transaction that was in the pool or on the chain can
be: on the chain, in the pool, among those still to be added, or impossible from
now on because something it spends is not available any more (`NeverAgain`).  The
order matters, a child after its parent, so the proof needs what `TxsUpTo` and
`Without` compute for every input: both are recursive functions, and the lemmas
`WithoutIs` and `SplitChain` are proved by looking at the least index for which
they fail.

`PeerDbProofs.tla` proves `AddressesSound` for any addresses, slots, reserved nodes and
boot nodes; the invariant adds to `AddressesInv` that an address is in its own slot
only and that an address without an entry is in no table.  A boot node that is not
saved may take the slot of a loaded address at every start; what is in a table is
therefore saved or a boot node.

It also proves `ConnectionsSound`: `ConnectionsInv` for any remote addresses, any
number of connections and any scenario.  The three parties only share channels, so
the invariant `ConnInv` says, for each end of a connection, what can be on its way
in every channel while the backend has it in a given state (`Life`): a peer is
reported before it is closed and is not accepted twice, a failed attempt is never
reported as a peer, a peer the backend has forgotten and the peer manager has not is
reported as closed.  That the assertions in `accept_connection` and
`handle_outbound_error` hold needs that nothing is reported or commanded twice
(`EventsOnce`, `CommandsOnce`) and that whatever can still end an attempt to connect
is noted in `pending` and the only one at its address (`Attempts`); the latter also
gives `OneOutbound`, since a feeler is accepted without a look at the other peers
(`OutboundOnce`, with the exception of forgotten addresses).  `Own` follows the two ends of a connection of the node with
itself: as long as the outbound end is pending it waits in its handshake, and the
inbound end has sent nothing but the message that makes the backend forget both.
TLC checked `ConnInv` before it was proved.

`BlockSyncProofs.tla` proves `HonestNotBlamed` and `EndsAlwaysAgree` for any tree
of blocks, any nodes and connections, any sources of blocks, any number of lost
connections and all limits of at least 1.  `SyncAssumption` further says that a
connection has two ends and that "no block" is not a block.  The invariant `SyncInv`
looks at a connection in one direction at a time, one node loading from another
(`Loads`), since a handler changes one end of each direction only:

- `Accounted`: the blocks requested are the request on its way, or the blocks on
  their way followed by the queue of the peer; or the request was refused as a
  duplicate, and then there is nothing on its way.  This gives that no block is
  unsolicited or out of order, and that no request meets a queue that is not empty,
  so neither limit nor duplicates in the queue are an issue.
- `Wanted`: the requested blocks are a chain on top of what the loading node has,
  the pending headers a chain on top of both, and the peer has all of them.  The
  blocks requested next are therefore known to the peer, and a block that arrives
  has a parent.
- `Lists`: headers on their way are within the limit, linked, known to their sender,
  and connect to what the receiver has or gets before them.  An announcement starts
  at a block that was sent or that both have; what the receiver has and what is on
  its way have no gaps (`ComingClosed`), so the fork point is among them
  (`ForkFits`).
- `Asks`: a node that has not sent all its headers is owed a request.  Without it
  `PeerWillAsk` is not inductive: the last requested block, a full list of headers
  and a locator on its way each stand for the request that follows.

What a node has only grows and initial block download only ends, and `Loads` stays
true when they do (`LoadsGrow`); so a block that one connection brings does not
disturb the others.  There is a lemma for each message that leaves or enters a
channel and one for each action.  `SyncInv` speaks of any sequence of blocks that a
channel may carry; TLC checks the two properties.

`SubsystemsProofs.tla` proves `CallsAreOrdered` for any number of subsystems,
calls, panics and timeouts.  `CallsInv` says that the queues hold exactly the
calls that were not received, in the order of their numbers (so no earlier
mutable call is left when a call is received); that a mutable call in progress is
the one the task serves, and an immutable one has a worker; who may wait for or
hold a lock; that a call has at most one callee, which belongs to an earlier
subsystem; and, without faults, that a caller waits for its callee, and that all
subsystems after the manager's are down while those before it have not been told
to stop.  The last two give that a subsystem only goes down when nobody can be
waiting for it.  A task ended by a panic is one of the faults (`PanicsAreFaults`), so
without faults the manager does not stop in between.

`VerifierProofs.tla` also proves `OrdersFair`, `BlockCanBeUndone` and
`RestrictedTokensStay` for any tokens, offers, amounts, operations and blocks, and
wherever the fork of the orders' rules is; the assumption that matters is that the
orders are finitely many.  The invariant `TokensInv` says that the database and
what the verifier shows are good states: amounts are numbers, what is created has
data of its type, nothing that does not exist has a balance, currencies add up, and
an order has at least its price left to give.  It further says how the two are
linked: undoing the verifier's operations one by one, last first, is accepted at
every step and leads from what the verifier shows to the database, and the same
for every connected block and the state saved before it.  A state that an undo
would lead to has to be good as well, which is why the invariant is about all
states between two operations of a block and not only the last one.  The argument
has three layers:

- Deltas: merging two changes and applying the result is applying them one after
  the other (`MergeIsApplyBoth`), and the inverse takes a change back
  (`InverseTakesBack`).  Nothing of this is specific to tokens.
- Sums and folds: `InOrders` and `UndosOf` are defined by choosing a recursive
  function.  That such a function exists for every finite set and every sequence,
  and is unique, is proved by looking at the least number for which it fails
  (`SumsExist`, `UndosExist`); then a sum changes by what one of its summands
  changes (`SumChanges`), and undoing is undoing one by one (`UndoOneByOne`).
- Operations: each one leads from a good state to a good state, and its undo is
  accepted there (`Does`).  For a filled order this is the arithmetic of the two
  rules: a division that rounds down leaves the order at or above its price, with
  the remaining balances and with the original ones (`PriceKept`).

`TokensInv` speaks of sequences of states that are not kept, so TLC does not check
it itself but the three properties that follow from it.

`StakingProofs.tla` proves `SealSound` for epochs of any length, any distance of
the sealed epoch, any data and amounts and any sequence of connected and
disconnected blocks.  `EpochAssumption` says that an epoch has a block, that the
sealed epoch is not that of the tip, and that "no data" is neither data nor a
delta.  The invariant `SealIInv` relates what is stored to the main chain and to
nothing else, so that it does not matter how the tip got there.  Every block of the
chain leads from one state to the next; the stored delta of an epoch leads from
the state before the epoch to the state after it, or at the tip (`DeltasHold`),
and that of a later epoch is gone; the sealed state is the one the chain went
through at the end of the sealed epoch (`SealedHolds`); the stored undo of a sealed
epoch is the inverse of its delta (`UndosHold`), not only there or not, or the
sealed state could not be led back; and the randomness of every epoch whose last
block is on the chain is what these blocks determine (`RandomHolds`), not only that
of the one in use.  That a merge never fails is then a consequence: two deltas
fit together if one leads to the state the other starts from (`LeadsOn`).  The
lemmas on epochs (`EpochOf`, `LastIs`, `NextHeight`) are the arithmetic of
heights: the block after the last of an epoch starts the next one, and an epoch is
sealed with the last block of another one and never with the first.

It also proves `BooksBalanced`, `PosBlockCanBeUndone` and `LedgerImplemented` for any pools, any finite
set of delegations, any amounts, rewards, cost and margin, and wherever the
upgrade of the distribution is.  `PosAssumption` says besides that pools,
delegations and shares have different keys.  The invariant `PosInv` has the shape of `TokensInv`: the
database and what the verifier reads are sound, and undos lead from each state to
the one before.  Three things are its own:

- Undos are applied to states that are not known in advance.  The reward's undos
  come first to last (`disconnect_block_reward`), so the first of them meets a
  state in which all later payments are still there.  `Paid` therefore says that the
  undos of the payments can be applied to every state with the same delegations,
  and what they take away there; `PaidAndIncreased` puts the staker's part on top.
- The reward never exceeds what there is: the staker takes at most the total, in
  both versions (`StakerTakes`), and the delegations' parts, each rounded down, sum
  up to at most what is left (`SharesGetAtMostAll`).  Were it otherwise, the
  remainder would be negative and with it the staker's reward.
- A new pool has no shares.  Delegations outlive their pool, so the shares of a
  pool that was made a second time would not be in its balance.  What excludes it is
  that ids are never made twice: `InMade` says that every pool that exists or has
  a delegation was made by a block of the chain or by the verifier, also in the
  database that a disconnected block leads back to.

`LedgerImplemented` is the refinement: `PosAccounting` implements `PosLedger`.  The
mapping reads stakers and delegators from what the verifier reads, and the past
from the databases before the blocks.  An operation changes one entry
(`StakerChanges`, `DelegatorChanges`).  A rewarded block needs what each single
delegation is paid: every delegation of the pool is paid once, what it is due
(`AllPaid`, `Gained`), one that owns less is due less (`RewardFair`), and
`Rewarded` gathers this as the function the ledger's `Reward` asks for.  A dropped
block reads the last ledger, since a verifier without undos reads the database;
a disconnected one reads the ledger before it by `PosInv`.  For this step
`PosAssumption` says that `NoData` is neither a balance nor an entry of the ledger.

`PosInv`, like `TokensInv`, speaks of states that are not kept; TLC checks the three
properties.

Only model-checked, and why.  All liveness (`CallsEnd`, `CatchesUp`, `Converges`,
`ShutdownEnds`, `JobsEnd`, `Relayed`, `RequestsEnd`, `ConnectionsSettle`):
fairness is beyond TLAPS.  `CacheAgrees` rests on sequences of sets that are sorted
by a choice, `ImplementsOrphanSet` on the recursion over children.
`AccountsFollowChain` holds in the scenarios of `MCWallet`.  Restarts and reorgs are
combined in one of them, with accounts that start from the same block; more accounts
at different heights with reorgs are left to the exceptions (14) and (15).

## 11. What is not modelled

The components with status `not_modelled` in `PROJECT.json`: cryptography,
serialization, script evaluation, storage backends, consensus arithmetic and the
front ends are computation without state, 256-bit arithmetic or I/O; the skip list
and the constraints accumulator are pure functions whose results the models use
(`Ancestor`, what a transaction may take out of an order); the API server writes
each block to a database as `WalletSync` scans it.

In the modelled components: the wording of errors, logging, RPC events and
read-only queries; fees, the rolling fee rate and block assembly of the mempool;
the combination of cached undo operations (`utxos_undo_cache`); the exchange of
peer addresses, pings, anchors and DNS seeds; coin selection, keys and signatures
of the wallet; transactions that are not relayed, and bans in the transaction
sync; the timestamp searcher of block production.
