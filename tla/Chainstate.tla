----------------------------- MODULE Chainstate -----------------------------
(***************************************************************************)
(* The chainstate of a node: block processing, reorganisation, orphans,    *)
(* explicit invalidation and the reset of failure flags                    *)
(* (chainstate/src/detail/mod.rs, block_invalidation/mod.rs,               *)
(* chainstateref/mod.rs).                                                  *)
(*                                                                         *)
(* The chainstate is a single-threaded object: a call runs to its end      *)
(* before the next one starts, but a call consists of several database     *)
(* transactions, each of which commits or aborts as a whole.  One action   *)
(* is one read-write transaction, with the reads and the changes of the    *)
(* in-memory state around it; pc says where in a call the node is.  A      *)
(* crash keeps the database only, and a transaction may fail after its     *)
(* last retry, which the code sometimes ignores.                           *)
(***************************************************************************)
EXTENDS OrphanSet

CONSTANTS
    NoBlock,        \* None in Option<BlockIndex>
    BadHeader,      \* blocks whose header fails checkpoints or consensus rules
    BadBody,        \* blocks that fail the checks of check_block on the body
    BadTx,          \* blocks whose transactions cannot be connected
    FutureBlock,    \* blocks whose timestamp may be too far in the future
    PoSBlock,       \* blocks that are validated after a reorg in memory
    FreshBlock,     \* blocks young enough to end the initial block download
    MaxReorgDepth,  \* chain_config.max_depth_for_reorg
    Commands,       \* operator commands in use
    Faults,         \* kinds of failures that can happen
    MaxFaults       \* bound on the number of failures

Command == {"invalidate", "reset_root", "reset_any"}
Fault == {"crash", "db"}

ASSUME ChainstateAssumption ==
    /\ NoBlock \notin GenBlock
    /\ BadHeader \subseteq Block /\ BadBody \subseteq Block
    /\ BadTx \subseteq Block /\ FutureBlock \subseteq Block
    /\ PoSBlock \subseteq Block /\ FreshBlock \subseteq GenBlock
    /\ MaxReorgDepth \in Nat /\ MaxFaults \in Nat
    /\ Commands \subseteq Command /\ Faults \subseteq Fault

VARIABLES
    \* the database
    indexed,    \* blocks that have a BlockIndex
    stage,      \* last_valid_stage of a block's status
    fails,      \* failure bits of a block's status
    persisted,  \* blocks whose BlockIndex says that they are persisted
    blockMap,   \* blocks whose data is stored
    best,       \* best block id
    byHeight,   \* block id by height: the main chain
    minReorg,   \* min_height_with_allowed_reorg
    \* the in-memory state, besides the orphan pool, orphans
    ibdDone,    \* is_initial_block_download_finished
    notified,   \* block of the last NewTip event, genesis before the first
    \* the call in progress
    pc, first, source, cur, culprit, pending, batch, tip, cands, minTrust,
    \* history
    faults      \* number of failures so far

status   == <<stage, fails>>
index    == <<indexed, status, persisted>>
chain    == <<best, byHeight>>
database == <<index, blockMap, chain, minReorg>>
memory   == <<orphans, ibdDone, notified>>
orphanJob == <<pending, batch, tip>>
search   == <<cands, minTrust>>
vars     == <<database, memory, pc, first, source, cur, culprit, orphanJob,
              search, faults>>

-----------------------------------------------------------------------------
(* Block status: chainstate/types/src/block_status.rs                      *)

Unchecked    == 0
CheckBlockOk == 1
FullyChecked == 2
FailBit == {"failed", "invalid_parent", "explicit"}

IsIndexed(b) == b = Genesis \/ b \in indexed
IsOk(b) == b # Genesis => fails[b] = {}
LastValidStage(b) == IF b = Genesis THEN FullyChecked ELSE stage[b]
IsFullyValid(b) == IsOk(b) /\ LastValidStage(b) = FullyChecked

-----------------------------------------------------------------------------
(* The main chain                                                          *)

InMainChain(b) == Height[b] \in DOMAIN byHeight /\ byHeight[Height[b]] = b

\* get_new_chain walks from b towards genesis until it meets the main chain:
\* the blocks of b's chain above height f are the ones to connect.
IsForkHeight(b, f) ==
    /\ f \in 0 .. Height[b]
    /\ f = 0 \/ InMainChain(Ancestor[b][f])
    /\ \A h \in (f + 1) .. Height[b] : ~InMainChain(Ancestor[b][h])

\* The last common ancestor of b and the tip is not below minReorg.
ReorgAllowed(b) ==
    \E h \in 0 .. Height[b] :
        h \geq minReorg /\ h \leq Height[best] /\ Ancestor[b][h] = Ancestor[best][h]

\* calc_min_height_with_allowed_reorg, for a tip of height h.
MinHeight(h) == IF h \geq MaxReorgDepth THEN h - MaxReorgDepth ELSE 0

\* update_min_height_with_allowed_reorg, once the tip is t.
UpdateMinReorg(t) ==
    minReorg' = IF MinHeight(Height[t]) > minReorg THEN MinHeight(Height[t]) ELSE minReorg

\* disconnect_until(tip, t): t becomes the tip and the heights above it are
\* deleted.
DisconnectUntil(t) ==
    /\ best' = t
    /\ byHeight' = [h \in 0 .. Height[t] |-> byHeight[h]]

\* reorganize, when every block connects: the chain of b above the fork
\* height f replaces the main chain above f, and is fully checked.
Reorganize(b, f) ==
    /\ best' = b
    /\ byHeight' = [h \in 0 .. Height[b] |-> IF h \leq f THEN byHeight[h] ELSE Ancestor[b][h]]

\* As Connected, but only the new tip becomes fully checked.
ConnectedTipOnly(s, b, f) ==
    [a \in Block |-> IF a = b THEN FullyChecked ELSE s[a]]

\* The stages after Reorganize(b, f), where s are the stages before it.
Connected(s, b, f) ==
    [a \in Block |-> IF \E h \in (f + 1) .. Height[b] : a = Ancestor[b][h]
                     THEN FullyChecked ELSE s[a]]

\* connect_tip of block a succeeds.  new is the block that the transaction
\* has added itself, if any: it is stored and has no failure bit.
Connects(a, new) == /\ a = new \/ (fails[a] = {} /\ a \in blockMap)
                    /\ a \notin BadTx

\* connect_tip of block a fails in a way that blames the block: the status is
\* ok and the data is there, but the transactions are not valid.
ConnectsBadly(a, new) == /\ a = new \/ (fails[a] = {} /\ a \in blockMap)
                         /\ a \in BadTx

\* reorganize to b from fork height f stops at height h.
FirstFailure(b, f, h, new) ==
    /\ h \in (f + 1) .. Height[b]
    /\ ~Connects(Ancestor[b][h], new)
    /\ \A k \in (f + 1) .. (h - 1) : Connects(Ancestor[b][k], new)

AllConnect(b, f, new) == \A h \in (f + 1) .. Height[b] : Connects(Ancestor[b][h], new)

-----------------------------------------------------------------------------
(* check_block                                                             *)

\* A proof-of-stake block is validated on top of its parent's chain, which
\* reorganize_in_memory connects without looking at the status of its blocks.
InMemoryReorgOk(b) ==
    b \in PoSBlock =>
        \A f \in 0 .. Height[Parent[b]] :
            IsForkHeight(Parent[b], f) =>
                \A h \in (f + 1) .. Height[Parent[b]] : Ancestor[b][h] \in blockMap \ BadTx

\* The reorg in memory stops at a stored block whose transactions are bad: the
\* error is an error of the block being checked.
InMemoryReorgBad(b) ==
    /\ b \in PoSBlock
    /\ \E f \in 0 .. Height[Parent[b]] :
          /\ IsForkHeight(Parent[b], f)
          /\ \E h \in (f + 1) .. Height[Parent[b]] :
                /\ Ancestor[b][h] \in blockMap \cap BadTx
                /\ \A k \in (f + 1) .. (h - 1) : Ancestor[b][k] \in blockMap \ BadTx

\* As CheckPasses, but the depth of the fork is not limited.
CheckPassesAtAnyDepth(b, early) ==
    /\ IsOk(Parent[b])
    /\ InMemoryReorgOk(b)
    /\ b \notin BadHeader
    /\ ~early
    /\ b \notin BadBody

\* check_block(b) succeeds; early says that the timestamp of b is ahead of the
\* clock by more than the allowed offset.
CheckPasses(b, early) ==
    /\ IsOk(Parent[b])
    /\ ReorgAllowed(Parent[b])
    /\ InMemoryReorgOk(b)
    /\ b \notin BadHeader
    /\ ~early
    /\ b \notin BadBody

\* As CheckBlames, but a block from the future is bad.
CheckBlamesEarly(b, early) ==
    \/ ~IsOk(Parent[b])
    \/ ~ReorgAllowed(Parent[b])
    \/ InMemoryReorgBad(b)
    \/ InMemoryReorgOk(b) /\ (b \in BadHeader \/ early \/ b \in BadBody)

\* check_block(b) fails with an error of class BadBlock; any other failure is
\* temporary or has nothing to do with the block.
CheckBlames(b, early) ==
    \/ ~IsOk(Parent[b])
    \/ ~ReorgAllowed(Parent[b])
    \/ InMemoryReorgBad(b)
    \/ InMemoryReorgOk(b) /\ (b \in BadHeader \/ (~early /\ b \in BadBody))

-----------------------------------------------------------------------------
(* Branches and the orphan pool                                            *)

\* Every ancestor of b, and b, has an index.
ChainIndexed(b) == \A h \in 1 .. Height[b] : Ancestor[b][h] \in indexed

\* collect_block_indices_in_branch, which goes from parents to children.
Branch(r) ==
    {d \in indexed : /\ IsAncestorOrSelf(r, d)
                     /\ \A h \in Height[r] .. Height[d] : Ancestor[d][h] \in indexed}

\* The part of invalidate_stale_block that runs in a transaction.
MarkBranch(r, bit) ==
    fails' = [d \in Block |->
                IF d \in Branch(r)
                THEN fails[d] \cup {IF d = r THEN bit ELSE "invalid_parent"}
                ELSE fails[d]]

\* The orphans that are connected to r through orphans only.
OrphansOf(r) ==
    {o \in orphans : /\ o # r /\ IsAncestorOrSelf(r, o)
                     /\ \A h \in (Height[r] + 1) .. Height[o] : Ancestor[o][h] \in orphans}

\* remove_orphans_of
RemoveOrphansOf(r) == orphans' = orphans \ OrphansOf(r)

-----------------------------------------------------------------------------
(* The end of a call and of an attempt                                     *)

Idle ==
    /\ pc' = "idle" /\ first' = FALSE /\ source' = "local"
    /\ cur' = NoBlock /\ culprit' = NoBlock
    /\ pending' = {} /\ batch' = {} /\ tip' = NoBlock
    /\ cands' = {} /\ minTrust' = 0

\* An error of the first attempt ends process_block, an error of an orphan
\* only ends the attempt.
AttemptFails ==
    \/ first /\ Idle
    \/ /\ ~first
       /\ pc' = "orphans" /\ cur' = NoBlock /\ culprit' = NoBlock
       /\ UNCHANGED <<first, source, orphanJob, search>>

\* reorg says whether the block is now the tip.
AttemptSucceeds(reorg) ==
    /\ pc' = "orphans" /\ first' = FALSE /\ cur' = NoBlock
    /\ pending' = IF first THEN {cur} ELSE pending
    /\ tip' = IF reorg THEN cur ELSE tip
    /\ UNCHANGED <<source, culprit, batch, search>>

-----------------------------------------------------------------------------
(* process_block                                                           *)

ProcessBlock(b, src) ==
    /\ pc = "idle"
    /\ pc' = "attempt" /\ first' = TRUE /\ source' = src /\ cur' = b
    /\ UNCHANGED <<database, memory, culprit, orphanJob, search, faults>>

\* check_legitimate_orphan: only a local block waits for its parent.
AttemptOrphan ==
    /\ pc = "attempt" /\ source = "local" /\ ~IsIndexed(Parent[cur])
    /\ AddOrphan(cur)
    /\ AttemptFails
    /\ UNCHANGED <<database, ibdDone, notified, faults>>

\* The parent is not known and the block came from a peer, or the block is known,
\* or its height, trust and common ancestor with the tip cannot be computed
\* because a block below it has lost its index.
AttemptRejected ==
    /\ pc = "attempt"
    /\ \/ source = "peer" /\ ~IsIndexed(Parent[cur])
       \/ /\ IsIndexed(Parent[cur])
          /\ cur \in indexed \/ ~ChainIndexed(Parent[cur])
    /\ AttemptFails
    /\ UNCHANGED <<database, memory, faults>>

\* Chainstate::new: nothing that was in memory is left.
Restarted ==
    /\ orphans' = {} /\ notified' = best
    /\ \E fresh \in BOOLEAN : (fresh => best \in FreshBlock) /\ ibdDone' = fresh
    /\ Idle
    /\ UNCHANGED database

\* create_block_index_for_new_block panics when the block that is missing is one it
\* meets on the way to the ancestor that the new index refers to.  Which ones it
\* meets depends on the heights and is left open: AttemptRejected is the other
\* outcome.  The panic ends the node, which is started again.
AttemptPanics ==
    /\ pc = "attempt" /\ cur \notin indexed
    /\ IsIndexed(Parent[cur]) /\ ~ChainIndexed(Parent[cur])
    /\ Restarted
    /\ UNCHANGED faults

\* The attempt gets as far as integrate_block.
Integrating == pc = "attempt" /\ cur \notin indexed /\ ChainIndexed(Parent[cur])

IntegrateCheckFails ==
    \E early \in BOOLEAN :
        /\ Integrating
        /\ early => cur \in FutureBlock
        /\ ~CheckPasses(cur, early)
        /\ IF CheckBlames(cur, early)
           THEN /\ pc' = "mark_failed"
                /\ UNCHANGED <<first, source, cur, culprit, orphanJob, search>>
           ELSE AttemptFails
        /\ UNCHANGED <<database, memory, faults>>

\* The index and the data of the block are saved by one transaction.
SaveCheckedBlock(b) ==
    /\ indexed' = indexed \cup {b}
    /\ fails' = [fails EXCEPT ![b] = {}]
    /\ persisted' = persisted \cup {b}
    /\ blockMap' = blockMap \cup {b}

\* The block does not have more trust than the tip.
IntegrateStale ==
    /\ Integrating
    /\ CheckPasses(cur, FALSE)
    /\ ChainTrust[cur] \leq ChainTrust[best]
    /\ SaveCheckedBlock(cur)
    /\ stage' = [stage EXCEPT ![cur] = CheckBlockOk]
    /\ UpdateMinReorg(best)
    /\ AttemptSucceeds(FALSE)
    /\ UNCHANGED <<chain, memory, faults>>

IntegrateReorg ==
    /\ Integrating
    /\ CheckPasses(cur, FALSE)
    /\ ChainTrust[cur] > ChainTrust[best]
    /\ \E f \in 0 .. Height[cur] :
          /\ IsForkHeight(cur, f)
          /\ AllConnect(cur, f, cur)
          /\ Reorganize(cur, f)
          /\ stage' = Connected([stage EXCEPT ![cur] = CheckBlockOk], cur, f)
    /\ SaveCheckedBlock(cur)
    /\ UpdateMinReorg(cur)
    /\ AttemptSucceeds(TRUE)
    /\ UNCHANGED <<memory, faults>>

\* ConnectBlockErrorDuringReorg: the transaction is aborted; a bad block will
\* be blamed by two more transactions.
IntegrateConnectFails ==
    /\ Integrating
    /\ CheckPasses(cur, FALSE)
    /\ ChainTrust[cur] > ChainTrust[best]
    /\ \E f \in 0 .. Height[cur] : \E h \in 1 .. Height[cur] :
          /\ IsForkHeight(cur, f)
          /\ FirstFailure(cur, f, h, cur)
          /\ IF ConnectsBadly(Ancestor[cur][h], cur)
             THEN /\ pc' = "save_index" /\ culprit' = Ancestor[cur][h]
                  /\ UNCHANGED <<first, source, cur, orphanJob, search>>
             ELSE AttemptFails
    /\ UNCHANGED <<database, memory, faults>>

\* set_new_block_index with a failed status, for a block that was never saved.
MarkNewBlockFailed ==
    /\ pc = "mark_failed"
    /\ indexed' = indexed \cup {cur}
    /\ stage' = [stage EXCEPT ![cur] = Unchecked]
    /\ fails' = [fails EXCEPT ![cur] = {"failed"}]
    /\ AttemptFails
    /\ UNCHANGED <<persisted, blockMap, chain, minReorg, memory, faults>>

\* set_new_block_index with an ok status, so that the block can be invalidated.
SaveNewBlockIndex ==
    /\ pc = "save_index"
    /\ indexed' = indexed \cup {cur}
    /\ stage' = [stage EXCEPT ![cur] = CheckBlockOk]
    /\ fails' = [fails EXCEPT ![cur] = {}]
    /\ pc' = "blame"
    /\ UNCHANGED <<persisted, blockMap, chain, minReorg, memory, first, source,
                   cur, culprit, orphanJob, search, faults>>

\* invalidate_block(culprit, IsExplicit::No); an error, for want of an index, is
\* ignored.
BlameCulprit ==
    /\ pc = "blame"
    /\ IF culprit \in indexed
       THEN MarkBranch(culprit, "failed") /\ RemoveOrphansOf(culprit)
       ELSE UNCHANGED <<fails, orphans>>
    /\ AttemptFails
    /\ UNCHANGED <<indexed, stage, persisted, blockMap, chain, minReorg,
                   ibdDone, notified, faults>>

\* As TakeOrphans, but the children of the orphans stay.
TakeOneGeneration ==
    /\ pc = "orphans" /\ batch = {}
    /\ \E p \in pending :
          /\ batch' = OrphanChildren(p)
          /\ orphans' = orphans \ OrphanChildren(p)
          /\ pending' = pending \ {p}
    /\ UNCHANGED <<database, ibdDone, notified, pc, first, source, cur, culprit,
                   tip, search, faults>>

\* process_orphans_of: the children of a block that has been attempted leave
\* the pool together ...
TakeOrphans ==
    /\ pc = "orphans" /\ batch = {}
    /\ \E p \in pending :
          /\ batch' = OrphanChildren(p)
          /\ orphans' = orphans \ OrphanChildren(p)
          /\ pending' = (pending \ {p}) \cup OrphanChildren(p)
    /\ UNCHANGED <<database, ibdDone, notified, pc, first, source, cur, culprit,
                   tip, search, faults>>

\* ... and are attempted one after the other.
AttemptNextOrphan ==
    /\ pc = "orphans"
    /\ \E o \in batch : cur' = o /\ batch' = batch \ {o}
    /\ pc' = "attempt" /\ source' = "local"
    /\ UNCHANGED <<database, memory, first, culprit, pending, tip, search, faults>>

\* broadcast_new_tip_event and update_initial_block_download_flag
FinishProcessBlock ==
    /\ pc = "orphans" /\ batch = {} /\ pending = {}
    /\ IF tip = NoBlock
       THEN UNCHANGED <<notified, ibdDone>>
       ELSE /\ notified' = tip
            /\ \E fresh \in BOOLEAN : /\ fresh => best \in FreshBlock
                                      /\ ibdDone' = (ibdDone \/ fresh)
    /\ Idle
    /\ UNCHANGED <<database, orphans, faults>>

-----------------------------------------------------------------------------
(* invalidate_block and reset_block_failure_flags                          *)

InvalidateStaleBlock(b) ==
    /\ pc = "idle" /\ "invalidate" \in Commands
    /\ b \in indexed /\ ~InMainChain(b)
    /\ MarkBranch(b, "explicit")
    /\ RemoveOrphansOf(b)
    /\ UNCHANGED <<indexed, stage, persisted, blockMap, chain, minReorg, ibdDone,
                   notified, pc, first, source, cur, culprit, orphanJob, search, faults>>

\* As InvalidateMainChainBlock, but the block itself stays the tip.
InvalidateLeavesTip(b) ==
    /\ pc = "idle" /\ "invalidate" \in Commands
    /\ b \in indexed /\ InMainChain(b)
    /\ Height[b] > minReorg
    /\ DisconnectUntil(b)
    /\ pc' = "mark_branch" /\ culprit' = b
    /\ UNCHANGED <<index, blockMap, minReorg, memory, first, source, cur,
                   orphanJob, search, faults>>

\* The first of the transactions that invalidate a block of the main chain.
InvalidateMainChainBlock(b) ==
    /\ pc = "idle" /\ "invalidate" \in Commands
    /\ b \in indexed /\ InMainChain(b)
    /\ Height[b] > minReorg
    /\ DisconnectUntil(Parent[b])
    /\ pc' = "mark_branch" /\ culprit' = b
    /\ UNCHANGED <<index, blockMap, minReorg, memory, first, source, cur,
                   orphanJob, search, faults>>

MarkInvalidatedBranch ==
    /\ pc = "mark_branch"
    /\ MarkBranch(culprit, "explicit")
    /\ RemoveOrphansOf(culprit)
    /\ pc' = "collect" /\ culprit' = NoBlock
    /\ UNCHANGED <<indexed, stage, persisted, blockMap, chain, minReorg, ibdDone,
                   notified, first, source, cur, orphanJob, search, faults>>

\* A block without data loses its index, the others lose their failure bits.
ResetBlockFailureFlags(b) ==
    /\ pc = "idle"
    /\ \/ "reset_any" \in Commands
       \/ "reset_root" \in Commands /\ IsOk(Parent[b])
    /\ b \in indexed
    /\ LET deleted == Branch(b) \ persisted IN
       /\ indexed' = indexed \ deleted
       /\ stage' = [d \in Block |-> IF d \in deleted THEN Unchecked ELSE stage[d]]
       /\ fails' = [d \in Block |-> IF d \in Branch(b) THEN {} ELSE fails[d]]
    /\ pc' = "collect"
    /\ UNCHANGED <<persisted, blockMap, chain, minReorg, memory, first, source,
                   cur, culprit, orphanJob, search, faults>>

\* The tips of the branches of ok blocks that have enough trust.
OkTips(min) ==
    LET eligible == {b \in indexed : IsOk(b) /\ ChainTrust[b] \geq min /\ Height[b] \geq minReorg}
    IN  {b \in eligible : \A c \in eligible : Parent[c] # b}

\* BestChainCandidates::new: of these, the ones that leave the main chain at an
\* allowed height.
BestChainCandidates(min) == {b \in OkTips(min) : ReorgAllowed(b)}

CollectCandidates ==
    /\ pc = "collect"
    /\ \A b \in OkTips(ChainTrust[best] + 1) : ChainIndexed(b)
    /\ minTrust' = ChainTrust[best] + 1
    /\ cands' = BestChainCandidates(ChainTrust[best] + 1)
    /\ pc' = "activate"
    /\ UNCHANGED <<database, memory, first, source, cur, culprit, orphanJob, faults>>

\* The common ancestor of a tip cannot be found.
CollectFails ==
    /\ pc = "collect"
    /\ \E b \in OkTips(ChainTrust[best] + 1) : ~ChainIndexed(b)
    /\ Idle
    /\ UNCHANGED <<database, memory, faults>>

\* best_item; the tie-breaker, the block id, is any order.
IsBestCandidate(c) == c \in cands /\ \A d \in cands : ChainTrust[d] \leq ChainTrust[c]

ActivateCandidate ==
    /\ pc = "activate"
    /\ \E c \in cands : \E f \in 0 .. Height[c] :
          /\ IsBestCandidate(c)
          /\ IsForkHeight(c, f)
          /\ AllConnect(c, f, NoBlock)
          /\ Reorganize(c, f)
          /\ stage' = Connected(stage, c, f)
    /\ Idle
    /\ UNCHANGED <<indexed, fails, persisted, blockMap, minReorg, memory, faults>>

\* As RemoveTreeAddParent, but the parent is not added.
RemoveTreeOnly(a) == cands' = cands \ Branch(a)

\* As RemoveTreeAddParent, but the tree stays.
AddParentOnly(a) ==
    cands' = cands \cup {p \in {Parent[a]} : p # Genesis /\ ChainTrust[p] \geq minTrust}

\* remove_tree_add_parent(a)
RemoveTreeAddParent(a) ==
    cands' = (cands \ Branch(a)) \cup
             {p \in {Parent[a]} : p # Genesis /\ ChainTrust[p] \geq minTrust}

\* ConnectTipFailed: the branch is invalidated if its first block is bad, and
\* is no longer a candidate in any case.
CandidateFails ==
    /\ pc = "activate"
    /\ \E c \in cands : \E f \in 0 .. Height[c] : \E h \in 1 .. Height[c] :
          /\ IsBestCandidate(c)
          /\ IsForkHeight(c, f)
          /\ FirstFailure(c, f, h, NoBlock)
          /\ RemoveTreeAddParent(Ancestor[c][h])
          /\ IF ConnectsBadly(Ancestor[c][h], NoBlock)
             THEN MarkBranch(Ancestor[c][h], "failed") /\ RemoveOrphansOf(Ancestor[c][h])
             ELSE UNCHANGED <<fails, orphans>>
    /\ UNCHANGED <<indexed, stage, persisted, blockMap, chain, minReorg, ibdDone, notified,
                   pc, first, source, cur, culprit, orphanJob, minTrust, faults>>

NoCandidateLeft ==
    /\ pc = "activate" /\ cands = {}
    /\ Idle
    /\ UNCHANGED <<database, memory, faults>>

-----------------------------------------------------------------------------
(* Failures                                                                *)

\* with_rw_tx gives up: the transaction leaves no trace.  Only saving the index
\* of a block before blaming its ancestor is not followed by a return.
DbFailure ==
    /\ "db" \in Faults /\ faults < MaxFaults /\ faults' = faults + 1
    /\ \/ pc \in {"attempt", "mark_failed", "blame"} /\ AttemptFails
       \/ /\ pc = "save_index" /\ pc' = "blame"
          /\ UNCHANGED <<first, source, cur, culprit, orphanJob, search>>
       \/ pc \in {"mark_branch", "collect", "activate"} /\ Idle
    /\ UNCHANGED <<database, memory>>

\* The node stops and is started again (Chainstate::new).
Crash ==
    /\ "crash" \in Faults /\ faults < MaxFaults /\ faults' = faults + 1
    /\ Restarted

-----------------------------------------------------------------------------
\* process_genesis
Init ==
    /\ indexed = {} /\ persisted = {} /\ blockMap = {}
    /\ stage = [b \in Block |-> Unchecked] /\ fails = [b \in Block |-> {}]
    /\ best = Genesis /\ byHeight = [h \in 0 .. 0 |-> Genesis] /\ minReorg = 0
    /\ orphans = {} /\ notified = Genesis
    /\ ibdDone \in BOOLEAN /\ (ibdDone => Genesis \in FreshBlock)
    /\ pc = "idle" /\ first = FALSE /\ source = "local" /\ cur = NoBlock /\ culprit = NoBlock
    /\ pending = {} /\ batch = {} /\ tip = NoBlock /\ cands = {} /\ minTrust = 0
    /\ faults = 0

Call ==
    \E b \in Block :
        \/ \E src \in {"local", "peer"} : ProcessBlock(b, src)
        \/ InvalidateStaleBlock(b)
        \/ InvalidateMainChainBlock(b)
        \/ ResetBlockFailureFlags(b)

ProcessStep ==
    \/ AttemptOrphan \/ AttemptRejected \/ AttemptPanics
    \/ IntegrateCheckFails \/ IntegrateStale \/ IntegrateReorg \/ IntegrateConnectFails
    \/ MarkNewBlockFailed \/ SaveNewBlockIndex \/ BlameCulprit
    \/ TakeOrphans \/ AttemptNextOrphan \/ FinishProcessBlock

InvalidationStep ==
    \/ MarkInvalidatedBranch \/ CollectCandidates \/ CollectFails
    \/ ActivateCandidate \/ CandidateFails \/ NoCandidateLeft

Step == ProcessStep \/ InvalidationStep

Next == Call \/ Step \/ DbFailure \/ Crash

Spec == Init /\ [][Next]_vars

\* A call that has started goes on; nobody has to start one.
FairSpec == Spec /\ WF_vars(Step)

-----------------------------------------------------------------------------
(* Properties                                                              *)

DatabaseType ==
    /\ indexed \subseteq Block /\ persisted \subseteq indexed /\ blockMap \subseteq Block
    /\ stage \in [Block -> Unchecked .. FullyChecked]
    /\ fails \in [Block -> SUBSET FailBit]
    /\ best \in GenBlock
    /\ byHeight \in [0 .. Height[best] -> GenBlock]
    /\ minReorg \in Nat

MemoryType == orphans \subseteq Block /\ ibdDone \in BOOLEAN /\ notified \in GenBlock

CallType ==
    /\ pc \in {"idle", "attempt", "mark_failed", "save_index", "blame", "orphans",
               "mark_branch", "collect", "activate"}
    /\ first \in BOOLEAN /\ source \in {"local", "peer"}
    /\ cur \in Block \cup {NoBlock} /\ culprit \in Block \cup {NoBlock}
    /\ pending \subseteq Block /\ batch \subseteq Block /\ tip \in Block \cup {NoBlock}
    /\ cands \subseteq Block /\ minTrust \in Nat

\* The state has its type; in particular every height up to the tip's, and no
\* other, has a block.
TypeOK == DatabaseType /\ MemoryType /\ CallType /\ faults \in 0 .. MaxFaults

\* The main chain by height is exactly the ancestry of the best block: no gap, no
\* stale entry above the tip, genesis at the bottom (what
\* check_block_height_map_consistency asserts), at every commit of every call.
MainChainLinked == byHeight = [h \in 0 .. Height[best] |-> Ancestor[best][h]]

\* Every block of the main chain above genesis is indexed, stored, marked as
\* persisted and fully valid, also between the transactions of a call.
MainChainFullyValid ==
    \A h \in 1 .. Height[best] :
        /\ byHeight[h] \in indexed \cap persisted \cap blockMap
        /\ IsFullyValid(byHeight[h])

\* A block that breaks a consensus rule is never in the main chain, whatever
\* sequence of deliveries, invalidations, resets and failures led there.
MainChainSound ==
    \A h \in 1 .. Height[best] : byHeight[h] \notin BadHeader \cup BadBody \cup BadTx

PrefixStep ==
    /\ minReorg' \geq minReorg
    /\ \A h \in 0 .. minReorg : h \in DOMAIN byHeight' /\ byHeight'[h] = byHeight[h]

\* A commit never changes the main chain at or below the height that reorgs are
\* limited to, and that height never goes down.
FinalizedPrefixKept == [][PrefixStep]_vars

\* Between calls a block has a stored body exactly if its index says so, and
\* otherwise its status is not ok (check_block_index_consistency).
NonPersistedNotOk ==
    pc = "idle" => /\ persisted = blockMap
                   /\ \A b \in indexed \ persisted : ~IsOk(b)

\* Between calls the parent of an ok block is ok (check_block_index_consistency).
OkParentOfOk == pc = "idle" => \A b \in indexed : IsOk(b) => IsOk(Parent[b])

\* The parent of an indexed block is indexed, it is persisted if the child is,
\* and it is at least as valid (check_block_index_consistency).
ParentAtLeastAsValid ==
    \A b \in indexed :
        /\ IsIndexed(Parent[b])
        /\ b \in persisted => Parent[b] \in persisted \cup {Genesis}
        /\ LastValidStage(Parent[b]) \geq stage[b]

\* All ancestors of b, and b, are ok.
ChainIsOk(b) == \A h \in 1 .. Height[b] : IsOk(Ancestor[b][h])

\* Between calls no stored chain without failed block that the reorg limit
\* admits has more trust than the main chain: process_block, invalidate_block
\* and reset_block_failure_flags each end with the best chain active.
BestChainActive ==
    pc = "idle" =>
        \A b \in persisted : ChainIsOk(b) /\ ReorgAllowed(b) => ChainTrust[b] \leq ChainTrust[best]

\* A block is marked as failed only if its chain breaks a rule, or if it is not
\* stored and could still not be accepted: a valid block whose parent is valid
\* and which the reorg limit admits is never left behind as failed.
GoodBlockNotBlamed ==
    \A b \in indexed :
        "failed" \in fails[b] =>
            \/ \E h \in 1 .. Height[b] : Ancestor[b][h] \in BadHeader \cup BadBody \cup BadTx
            \/ b \notin persisted /\ (~IsOk(Parent[b]) \/ ~ReorgAllowed(Parent[b]))

\* Between calls no orphan is waiting for a block that has been accepted.
NoOrphanLeftBehind ==
    pc = "idle" => \A o \in orphans : ~(IsIndexed(Parent[o]) /\ IsOk(Parent[o]))

\* The assertions of the code: a block to blame or to invalidate is stale
\* (collect_stale_block_indices_in_branch), a new index is not there yet
\* (set_new_block_index), and a candidate has more trust than the tip, so that
\* activating it is a reorg (find_and_activate_best_chain).
AssertionsHold ==
    /\ pc \in {"save_index", "blame", "mark_branch"} => ~InMainChain(culprit)
    /\ pc = "mark_branch" => culprit \in indexed
    /\ pc \in {"mark_failed", "save_index"} => cur \notin indexed
    /\ pc = "activate" => \A c \in cands : /\ c \in indexed
                                           /\ ChainTrust[c] \geq minTrust
                                           /\ ChainTrust[c] > ChainTrust[best]

\* What the consistency checker of the code asserts of the block index, and the
\* assertions within the calls.
IndexConsistent == NonPersistedNotOk /\ OkParentOfOk /\ ParentAtLeastAsValid /\ AssertionsHold

\* Every call ends: the orphan queue and the list of candidates run dry.
CallsEnd == pc # "idle" ~> pc = "idle"

-----------------------------------------------------------------------------
(* What the main chain invariants rest on                                  *)

\* The flag and the data of a block agree at every commit, a block has passed
\* check_block when it is stored or its status is ok, and its transactions have
\* been connected when it is fully checked.
StoredBlocksChecked ==
    /\ persisted = blockMap
    /\ \A b \in blockMap : stage[b] \geq CheckBlockOk /\ b \notin BadHeader \cup BadBody
    /\ \A b \in indexed : fails[b] = {} => stage[b] \geq CheckBlockOk
    /\ \A b \in Block : stage[b] = FullyChecked => b \in blockMap \ BadTx

\* The limit of reorgs is not above the tip.
ReorgLimitBelowTip == minReorg \leq Height[best]

\* What the steps of a call may rely on.
CallInv ==
    /\ pc \in {"attempt", "mark_failed", "save_index"} => cur \in Block
    /\ pc \in {"mark_failed", "save_index"} => cur \notin indexed
    /\ pc \in {"save_index", "blame", "mark_branch"} =>
          culprit \in Block /\ ~InMainChain(culprit)
    /\ pc = "activate" => \A c \in cands : ReorgAllowed(c)

\* What holds of the database at every commit.
DatabaseInv ==
    /\ DatabaseType
    /\ MainChainLinked
    /\ MainChainFullyValid
    /\ StoredBlocksChecked
    /\ ReorgLimitBelowTip

\* The inductive invariant: the main chain invariants, together with what the
\* index says of the blocks outside the main chain and what the steps of a call
\* rely on.
ChainInv == DatabaseInv /\ MemoryType /\ CallType /\ CallInv /\ faults \in 0 .. MaxFaults

=============================================================================
