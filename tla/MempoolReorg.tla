---------------------------- MODULE MempoolReorg ----------------------------
(***************************************************************************)
(* How the mempool follows the tip of the chainstate.                      *)
(*                                                                         *)
(* The mempool and the chainstate are two subsystems.  The mempool handles *)
(* one call at a time, but it sees the chainstate only through calls of    *)
(* its own, each of which may find another tip: the tip can move between   *)
(* any two of them.  The chainstate announces every new tip by an event,   *)
(* which waits in the mempool's queue.  The mempool ignores an event that  *)
(* is not about the current tip; otherwise it looks for the transactions   *)
(* of the blocks that are no longer on the chain, forgets everything, and  *)
(* adds these and its own transactions again, one by one.                  *)
(*                                                                         *)
(* A transaction is what it spends: coins that exist from the start and    *)
(* outputs of other transactions, one per transaction.  The verifier of    *)
(* the mempool holds the effects of the pool's transactions and asks the   *)
(* chainstate for everything else.  Fees, expiry and the limits of the     *)
(* pool are left out, and so are orphans (TxOrphans).                      *)
(***************************************************************************)
EXTENDS BlockTree, Sequences, SequencesExt, FiniteSets, FiniteSetsExt

CONSTANTS
  Txs,            \* transactions
  Coins,          \* outputs that exist from the start
  Spends,         \* Spends[t]: the outputs that t spends
  BlockTxs,       \* BlockTxs[b]: the transactions of block b, in order
  MaxAttempts,    \* config::MAX_TX_ADDITION_ATTEMPTS
  MaxMoves,       \* bound on the number of tips
  MaxFailures     \* bound on the number of failed queries

ASSUME MempoolAssumption ==
  /\ Txs \cap Coins = {}
  /\ Spends \in [Txs -> SUBSET (Txs \cup Coins)]
  /\ BlockTxs \in [Block -> Seq(Txs)]
  /\ MaxAttempts \in Nat \ {0}
  /\ MaxMoves \in Nat /\ MaxFailures \in Nat

VARIABLES
  \* the chainstate
  tip, ibd, moves,
  \* the calls that wait for the mempool: NewTip events
  events,
  \* TxPool: the transactions in the order of their insertion and the best
  \* block the verifier was created with
  pool, best,
  \* the call that the mempool executes: what it does next, the event's block,
  \* the transactions still to be added, and of the first one the number of
  \* attempts, the tip at its start, the inputs not looked up yet, and whether
  \* those looked up were there
  phase, newTip, todo, attempt, startTip, left, found,
  failures,
  \* history: what was in the pool or on the chain since the pool last had
  \* caught up, and whether the tip did not wait for that, or a query failed
  had, disturbed

chain == <<tip, ibd, moves>>
call  == <<phase, newTip, todo, attempt, startTip, left, found>>
history == <<had, disturbed>>
vars  == <<chain, events, pool, best, call, failures, history>>

----------------------------------------------------------------------------
(***************************************************************************)
(* Chains                                                                  *)
(***************************************************************************)
\* The transactions of the blocks from stop, exclusive, up to b, in the order of
\* the chain
TxsUpTo(b, stop) ==
  LET upTo[h \in Height[stop]..Height[b]] ==
        IF h = Height[stop] THEN <<>> ELSE upTo[h - 1] \o BlockTxs[Ancestor[b][h]]
  IN  upTo[Height[b]]

\* As TxsUpTo, but with the blocks in the order of them being disconnected
TxsDownFrom(b, stop) ==
  LET downTo[h \in Height[stop]..Height[b]] ==
        IF h = Height[stop] THEN <<>> ELSE BlockTxs[Ancestor[b][h]] \o downTo[h - 1]
  IN  downTo[Height[b]]

ChainTxs(b) == ToSet(TxsUpTo(b, Genesis))

\* The blocks are valid: a transaction, coinbase apart, spends something, and what
\* it spends is there from the start or comes before it on the chain.
ASSUME ChainsAssumption ==
  /\ \A t \in Txs : Spends[t] # {}
  /\ \A b \in GenBlock :
       LET txs == TxsUpTo(b, Genesis)
       IN  \A n \in DOMAIN txs : Spends[txs[n]] \subseteq Coins \cup {txs[m] : m \in 1..(n - 1)}

SpentBy(txs) == UNION {Spends[t] : t \in txs}

Utxos(b) == (Coins \cup ChainTxs(b)) \ SpentBy(ChainTxs(b))

LastCommonAncestor(a, b) ==
  Ancestor[a][Max({h \in 0..Height[a] : h <= Height[b] /\ Ancestor[a][h] = Ancestor[b][h]})]

\* The elements of s, in their order, without those of gone
Without(s, gone) ==
  LET kept[n \in 0..Len(s)] ==
        IF n = 0 THEN <<>>
        ELSE IF s[n] \in gone THEN kept[n - 1]
        ELSE Append(kept[n - 1], s[n])
  IN  kept[Len(s)]

\* As Disconnected, but with the blocks in the order of them being disconnected.
DisconnectedBackwards(old, new) ==
  LET fork == LastCommonAncestor(old, new)
  IN  Without(TxsDownFrom(old, fork), ToSet(TxsUpTo(new, fork)))

\* The transactions that are on the chain of the old tip and not on the one
\* of the new
Disconnected(old, new) ==
  LET fork == LastCommonAncestor(old, new)
  IN  Without(TxsUpTo(old, fork), ToSet(TxsUpTo(new, fork)))

----------------------------------------------------------------------------
PoolTxs == ToSet(pool)

Settled == phase = "idle" /\ events = <<>>

Init ==
  /\ tip \in GenBlock /\ ibd \in BOOLEAN /\ moves = 0
  /\ events = <<>>
  /\ pool = <<>> /\ best = tip
  /\ phase = "idle" /\ newTip = tip /\ todo = <<>>
  /\ attempt = 0 /\ startTip = tip /\ left = {} /\ found = TRUE
  /\ failures = 0
  /\ had = {} /\ disturbed = ibd

\* The chainstate has a new tip: a better block, or, after blocks were
\* invalidated or their failure flags reset, any other block.
MoveTip(b, stillIbd) ==
  /\ b # tip
  /\ moves < MaxMoves
  /\ stillIbd => ibd
  /\ tip' = b /\ ibd' = stillIbd /\ moves' = moves + 1
  /\ events' = Append(events, b)
  /\ had' = (IF Settled THEN {} ELSE had) \cup PoolTxs \cup ChainTxs(tip)
  /\ disturbed' = (disturbed \/ ~Settled)
  /\ UNCHANGED <<pool, best, call, failures>>

----------------------------------------------------------------------------
(***************************************************************************)
(* NewTip events                                                           *)
(***************************************************************************)
\* As IsOutdated, but an event that the verifier already knows of is ignored too.
IsOutdatedOrKnown(b) == b # tip \/ b = best

\* The chainstate has another tip than the event is about.
IsOutdated(b) == b # tip

\* As Rest, but an ignored event is put back to be looked at again later.
RestWithRetry(b) == IF ~ibd /\ IsOutdated(b) THEN Append(Tail(events), b) ELSE Tail(events)

\* The events left after the first one, b, has been taken
Rest(b) == Tail(events)

\* handle_new_tip up to the decision what to do, one call of the chainstate
TakeEvent ==
  /\ phase = "idle" /\ events # <<>>
  /\ events' = Rest(Head(events))
  /\ newTip' = Head(events)
  /\ phase' = CASE ibd                                 -> "discard"
                [] ~ibd /\ IsOutdated(Head(events))    -> "idle"
                [] ~ibd /\ ~IsOutdated(Head(events))   -> "fetch"
  /\ UNCHANGED <<chain, pool, best, todo, attempt, startTip, left, found, failures, history>>

\* During initial block download the pool is emptied.
Discard ==
  /\ phase = "discard"
  /\ best' = tip /\ pool' = <<>>
  /\ phase' = "idle"
  /\ UNCHANGED <<chain, events, newTip, todo, attempt, startTip, left, found, failures, history>>

FetchDisconnectedTxs ==
  /\ phase = "fetch"
  /\ todo' = Disconnected(best, newTip)
  /\ phase' = "reset"
  /\ UNCHANGED <<chain, events, pool, best, newTip, attempt, startTip, left, found, failures, history>>

\* The chainstate reports an error: refresh_mempool.
FetchFails ==
  /\ phase = "fetch"
  /\ failures < MaxFailures
  /\ failures' = failures + 1 /\ disturbed' = TRUE
  /\ todo' = <<>>
  /\ phase' = "reset"
  /\ UNCHANGED <<chain, events, pool, best, newTip, attempt, startTip, left, found, had>>

\* The transactions that remain to be added; without any, the call returns.
Continue(rest) ==
  /\ todo' = rest
  /\ attempt' = 0
  /\ phase' = IF rest = <<>> THEN "idle" ELSE "add"

\* A new verifier, with whatever is the tip now, and an empty pool
Reset ==
  /\ phase = "reset"
  /\ best' = tip /\ pool' = <<>>
  /\ Continue(todo \o pool)
  /\ UNCHANGED <<chain, events, newTip, startTip, left, found, failures, history>>

----------------------------------------------------------------------------
(***************************************************************************)
(* Adding a transaction                                                    *)
(***************************************************************************)
\* A user or a peer submits a transaction, which is refused during initial block
\* download.
SubmitTx(t) ==
  /\ phase = "idle"
  /\ IF ibd THEN UNCHANGED <<phase, todo, attempt>> ELSE Continue(<<t>>)
  /\ UNCHANGED <<chain, events, pool, best, newTip, startTip, left, found, failures, history>>

SkipDuplicate ==
  /\ phase = "add"
  /\ Head(todo) \in PoolTxs
  /\ Continue(Tail(todo))
  /\ UNCHANGED <<chain, events, pool, best, newTip, startTip, left, found, failures, history>>

\* validate_transaction reads the tip.
BeginAttempt ==
  /\ phase = "add"
  /\ Head(todo) \notin PoolTxs
  /\ startTip' = tip
  /\ attempt' = attempt + 1
  /\ left' = Spends[Head(todo)] /\ found' = TRUE
  /\ phase' = "verify"
  /\ UNCHANGED <<chain, events, pool, best, newTip, todo, failures, history>>

\* An output as the verifier sees it.  An output that was created and spent in the
\* pool leaves no trace in the verifier's cache, which then asks the chainstate.
Available(output) ==
  LET cachedSpent == SpentBy(PoolTxs) \ PoolTxs
  IN  \/ output \in PoolTxs \ SpentBy(PoolTxs)
      \/ output \in Utxos(tip) \ cachedSpent

\* One output is looked up; the first one that is missing ends the verification.
CheckInput(output) ==
  /\ phase = "verify"
  /\ output \in left
  /\ found' = Available(output)
  /\ left' = IF Available(output) THEN left \ {output} ELSE {}
  /\ UNCHANGED <<chain, events, pool, best, phase, newTip, todo, attempt, startTip, failures, history>>

\* A transaction of the pool spends an output that t spends.
Conflicts(t) == Spends[t] \cap SpentBy(PoolTxs) # {}

Verified == phase = "verify" /\ left = {}

Retry == attempt < MaxAttempts

\* The tip is not the one the verification started with: once more, or give up.
TipMoved ==
  /\ Verified
  /\ tip # startTip
  /\ IF Retry THEN phase' = "add" /\ UNCHANGED <<todo, attempt>> ELSE Continue(Tail(todo))
  /\ UNCHANGED <<chain, events, pool, best, newTip, startTip, left, found, failures, history>>

AddedOrRejected ==
  /\ Verified
  /\ tip = startTip
  /\ pool' = IF found /\ ~Conflicts(Head(todo)) THEN Append(pool, Head(todo)) ELSE pool
  /\ Continue(Tail(todo))
  /\ UNCHANGED <<chain, events, best, newTip, startTip, left, found, failures, history>>

----------------------------------------------------------------------------
ExecuteCall ==
  \/ Discard \/ FetchDisconnectedTxs \/ FetchFails \/ Reset
  \/ SkipDuplicate \/ BeginAttempt \/ TipMoved \/ AddedOrRejected
  \/ \E output \in left : CheckInput(output)

Next ==
  \/ \E b \in Block, stillIbd \in BOOLEAN : MoveTip(b, stillIbd)
  \/ TakeEvent
  \/ ExecuteCall
  \/ \E t \in Txs : SubmitTx(t)

\* The mempool executes its calls, and its queue is first in, first out: an event
\* is taken eventually, whatever is submitted in between.
Spec == Init /\ [][Next]_vars /\ WF_vars(ExecuteCall) /\ SF_vars(TakeEvent)

----------------------------------------------------------------------------
\* Type correctness.
TypeOK ==
  /\ tip \in GenBlock /\ best \in GenBlock /\ newTip \in GenBlock /\ startTip \in GenBlock
  /\ ibd \in BOOLEAN /\ found \in BOOLEAN
  /\ moves \in 0..MaxMoves /\ failures \in 0..MaxFailures /\ attempt \in 0..MaxAttempts
  /\ events \in Seq(Block)
  /\ pool \in Seq(Txs) /\ todo \in Seq(Txs) /\ had \subseteq Txs /\ disturbed \in BOOLEAN
  /\ phase \in {"idle", "discard", "fetch", "reset", "add", "verify"}
  /\ phase \in {"add", "verify"} => todo # <<>>
  /\ left \subseteq Txs \cup Coins

\* At any time, in the middle of a reorg too, no transaction is twice in the pool
\* and no two spend the same output, although each was verified on what was the
\* tip then (check_mempool_policy).  In what order they are is only settled when
\* the mempool is: a parent that a reorg took out of its block may be submitted
\* again after its child.
NoDoubleSpend ==
  \A m, n \in DOMAIN pool : m # n =>
    pool[m] # pool[n] /\ Spends[pool[m]] \cap Spends[pool[n]] = {}

\* When the mempool has nothing to do, its verifier knows the tip, and its
\* transactions can be put on top of the tip in their order: however the tip
\* moved while events were handled or transactions added, a move away and back
\* included (handle_new_tip).
InSyncWhenSettled ==
  Settled =>
    /\ best = tip
    /\ \A n \in DOMAIN pool :
         /\ pool[n] \notin ChainTxs(tip)
         /\ Spends[pool[n]] \subseteq Utxos(tip) \cup {pool[m] : m \in 1..(n - 1)}

\* The pool is consistent in itself, and with the chain when it has caught up.
PoolSound == TypeOK /\ NoDoubleSpend /\ InSyncWhenSettled

\* What was in the pool or on the chain before the tip moved is on the chain or
\* in the pool afterwards, unless it cannot be added.  The tests in
\* tx_pool/tests/reorg.rs expect a reorg to make "tx2 ... reappear in mempool"
\* (line 96).  True while the tip waits for the mempool: if it moves while the
\* mempool resets, the new verifier already has the newer tip as its best block,
\* and the blocks in between are never looked at.
NothingLost ==
  Settled /\ ~disturbed =>
    \A t \in had \ (ChainTxs(tip) \cup PoolTxs) : Conflicts(t) \/ \E o \in Spends[t] : ~Available(o)

\* Every event is handled, and the mempool ends up with the chainstate's tip.
CatchesUp == <>[](events = <<>> /\ best = tip)
=============================================================================
