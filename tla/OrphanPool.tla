----------------------------- MODULE OrphanPool ------------------------------
(***************************************************************************)
(* OrphanBlocksPool (chainstate/src/detail/orphan_blocks/pool.rs): the     *)
(* orphan blocks in three containers that have to agree.  A block stands   *)
(* for its id.                                                             *)
(***************************************************************************)
EXTENDS BlockTree, SequencesExt

CONSTANT MaxOrphanBlocks   \* chainstate_config.max_orphan_blocks

VARIABLES
    blockPool,    \* the containers: orphan_ids, orphan_by_id, orphan_by_prev_id
    takenBlocks   \* what the last call of take_all_children_of returned

EmptyPool == [ids |-> <<>>, byId |-> {}, byPrev |-> <<>>]

Without(s, b) == SelectSeq(s, LAMBDA x : x # b)

\* drop_block
DropBlock(q, b) ==
    LET siblings == Without(q.byPrev[Parent[b]], b)
    IN  [ids    |-> Without(q.ids, b),
         byId   |-> q.byId \ {b},
         byPrev |-> IF siblings = <<>>
                    THEN Restrict(q.byPrev, DOMAIN q.byPrev \ {Parent[b]})
                    ELSE [q.byPrev EXCEPT ![Parent[b]] = siblings]]

\* As IsDeepestChild, but any block of the pool will do.
IsChosen(q, b, d) == d = b

\* del_one_deepest_child(b) drops d: d has no child in the pool, and the way
\* from b to d always takes the first child.
IsDeepestChild(q, b, d) ==
    /\ IsAncestorOrSelf(b, d)
    /\ d \notin DOMAIN q.byPrev
    /\ \A h \in Height[b] .. (Height[d] - 1) :
          /\ Ancestor[d][h] \in DOMAIN q.byPrev
          /\ Head(q.byPrev[Ancestor[d][h]]) = Ancestor[d][h + 1]

\* The insertion at the end of add_block.
InsertBlock(q, b) ==
    LET siblings == IF Parent[b] \in DOMAIN q.byPrev THEN q.byPrev[Parent[b]] ELSE <<>>
    IN  [ids    |-> Append(q.ids, b),
         byId   |-> q.byId \cup {b},
         byPrev |-> [p \in DOMAIN q.byPrev \cup {Parent[b]} |->
                       IF p = Parent[b] THEN Append(siblings, b) ELSE q.byPrev[p]]]

InsertNew(q, b) == IF b \in q.byId THEN q ELSE InsertBlock(q, b)

\* add_block when there is room.
AddBlock(b) ==
    /\ Len(blockPool.ids) < MaxOrphanBlocks
    /\ blockPool' = InsertNew(blockPool, b)
    /\ UNCHANGED takenBlocks

\* add_block with prune, which picks a block at random.
AddBlockToFullPool(b) ==
    /\ Len(blockPool.ids) \geq MaxOrphanBlocks
    /\ \E i \in DOMAIN blockPool.ids : \E d \in blockPool.byId :
          /\ IsDeepestChild(blockPool, blockPool.ids[i], d)
          /\ blockPool' = InsertNew(DropBlock(blockPool, d), b)
    /\ UNCHANGED takenBlocks

\* take_all_children_of
TakeAllChildrenOf(p) ==
    /\ takenBlocks' = IF p \in DOMAIN blockPool.byPrev THEN blockPool.byPrev[p] ELSE <<>>
    /\ blockPool' = FoldLeft(DropBlock, blockPool, takenBlocks')

PoolInit == blockPool = EmptyPool /\ takenBlocks = <<>>

PoolNext ==
    \/ \E b \in Block : AddBlock(b) \/ AddBlockToFullPool(b)
    \/ \E p \in GenBlock : TakeAllChildrenOf(p)

poolVars == <<blockPool, takenBlocks>>

PoolSpec == PoolInit /\ [][PoolNext]_poolVars

-----------------------------------------------------------------------------
\* The containers agree at the end of every call: the vector of ids has no
\* duplicates and is as long as the map, the map by parent has no empty vector
\* and lists the children of a block in the order of their arrival.  The
\* expects of drop_block and del_one_deepest_child rely on it.
ContainersAgree ==
    /\ ToSet(blockPool.ids) = blockPool.byId /\ Len(blockPool.ids) = Cardinality(blockPool.byId)
    /\ DOMAIN blockPool.byPrev = {Parent[b] : b \in blockPool.byId}
    /\ \A p \in DOMAIN blockPool.byPrev :
          blockPool.byPrev[p] = SelectSeq(blockPool.ids, LAMBDA x : Parent[x] = p)

\* Blocks leave the pool by take_all_children_of in the order of their arrival,
\* and none of them is left behind.
ChildrenLeaveTogether ==
    [][takenBlocks' # takenBlocks /\ takenBlocks' # <<>> =>
         /\ ToSet(takenBlocks') = {b \in blockPool.byId : Parent[b] = Parent[Head(takenBlocks')]}
         /\ takenBlocks' = SelectSeq(blockPool.ids, LAMBDA x : x \in ToSet(takenBlocks'))]_poolVars

Set == INSTANCE OrphanSet WITH MaxOrphans <- MaxOrphanBlocks, orphans <- blockPool.byId

\* The pool is the set with eviction that the chainstate relies on: in
\* particular prune drops exactly one block and never one that another orphan
\* depends on, and take_all_children_of removes all children and nothing else;
\* and its containers agree.
ImplementsOrphanSet == []ContainersAgree /\ ChildrenLeaveTogether /\ Set!OrphanSpec
=============================================================================
