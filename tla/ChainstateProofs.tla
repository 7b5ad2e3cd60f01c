-------------------------- MODULE ChainstateProofs --------------------------
(***************************************************************************)
(* Proofs about Chainstate, for every block tree, every set of bad blocks, *)
(* every reorg depth and pool size.  First what holds with any number of   *)
(* failures; then what the calls leave behind when no transaction of the   *)
(* database fails and the node does not crash, and when the operator only  *)
(* resets failures from the root of a failed branch: the block index is    *)
(* what the consistency checker of the code asserts, no block is blamed    *)
(* that could be accepted, no orphan is left behind, and the best chain is *)
(* active.                                                                 *)
(***************************************************************************)
EXTENDS Chainstate, TLAPS, WellFoundedInduction

-----------------------------------------------------------------------------
(* The block tree                                                          *)

\* Heights are natural numbers, positive except for genesis.
LEMMA HeightType ==
    /\ \A b \in GenBlock : Height[b] \in Nat
    /\ \A b \in Block : b \in GenBlock /\ Height[b] >= 1 /\ b # Genesis
BY TreeAssumption DEF GenBlock

\* Ancestors at the heights they are asked for.
LEMMA AncestorType ==
    ASSUME NEW b \in GenBlock, NEW h \in 0 .. Height[b]
    PROVE  /\ Ancestor[b][h] \in GenBlock
           /\ Height[Ancestor[b][h]] = h
           /\ h > 0 => Ancestor[b][h] \in Block
BY AncestorAssumption, HeightType

\* The ancestor of an ancestor.
LEMMA AncestorOfAncestor ==
    ASSUME NEW b \in GenBlock, NEW h \in 0 .. Height[b], NEW k \in 0 .. h
    PROVE  Ancestor[Ancestor[b][h]][k] = Ancestor[b][k]
BY AncestorAssumption, HeightType

\* A block and its parent have the same ancestors below the block.
LEMMA AncestorOfParent ==
    ASSUME NEW b \in Block, NEW h \in 0 .. Height[Parent[b]]
    PROVE  /\ Parent[b] \in GenBlock
           /\ Height[Parent[b]] = Height[b] - 1
           /\ Ancestor[b][Height[b] - 1] = Parent[b]
           /\ Ancestor[Parent[b]][h] = Ancestor[b][h]
<1>1. Parent[b] \in GenBlock /\ Height[Parent[b]] \in Nat /\ Height[b] = Height[Parent[b]] + 1
  BY TreeAssumption, HeightType
<1>2. b \in GenBlock /\ Height[b] \in 0 .. Height[b] /\ Ancestor[b][Height[b]] = b
  BY <1>1, AncestorAssumption, HeightType
<1>3. Ancestor[b][Height[b] - 1] = Parent[b]
  BY <1>1, <1>2, AncestorAssumption
<1>4. Ancestor[Ancestor[b][Height[b] - 1]][h] = Ancestor[b][h]
  BY <1>1, <1>2, AncestorOfAncestor
<1> QED
  BY <1>1, <1>3, <1>4

-----------------------------------------------------------------------------
(* The main chain and forks                                                *)

\* Being in the main chain is being an ancestor of the tip.
LEMMA InMainChainMeaning ==
    ASSUME DatabaseType, MainChainLinked, NEW b \in GenBlock
    PROVE  InMainChain(b) <=> Height[b] \leq Height[best] /\ Ancestor[best][Height[b]] = b
BY HeightType DEF DatabaseType, MainChainLinked, InMainChain

\* Below the fork height two chains agree.
LEMMA ForkAgrees ==
    ASSUME DatabaseType, MainChainLinked, NEW b \in GenBlock, NEW f, IsForkHeight(b, f)
    PROVE  /\ f \in Nat /\ f \leq Height[b] /\ f \leq Height[best]
           /\ \A h \in 0 .. f : Ancestor[b][h] = byHeight[h]
<1>1. f \in 0 .. Height[b] /\ Height[b] \in Nat /\ Height[best] \in Nat /\ best \in GenBlock
  BY HeightType DEF IsForkHeight, DatabaseType
<1>2. CASE f = 0
  <2>1. Ancestor[b][0] = Genesis /\ Ancestor[best][0] = Genesis
    BY <1>1, AncestorAssumption
  <2> QED
    BY <1>1, <1>2, <2>1 DEF MainChainLinked
<1>3. CASE f # 0
  <2> DEFINE a == Ancestor[b][f]
  <2>1. a \in GenBlock /\ Height[a] = f /\ InMainChain(a)
    BY <1>1, <1>3, AncestorType DEF IsForkHeight
  <2>2. f \leq Height[best] /\ Ancestor[best][f] = a
    BY <2>1, InMainChainMeaning
  <2>3. \A h \in 0 .. f : Ancestor[a][h] = Ancestor[b][h]
    BY <1>1, AncestorOfAncestor
  <2>4. \A h \in 0 .. f : Ancestor[a][h] = Ancestor[best][h]
    BY <1>1, <2>2, AncestorOfAncestor
  <2> HIDE DEF a
  <2> QED
    BY <1>1, <2>2, <2>3, <2>4 DEF MainChainLinked
<1> QED
  BY <1>2, <1>3

\* A chain that the limit admits leaves the main chain at or above the limit.
LEMMA ForkAboveLimit ==
    ASSUME DatabaseType, MainChainLinked, NEW b \in GenBlock, NEW f, IsForkHeight(b, f),
           ReorgAllowed(b)
    PROVE  minReorg \leq f
<1>1. PICK h \in 0 .. Height[b] :
        h \geq minReorg /\ h \leq Height[best] /\ Ancestor[b][h] = Ancestor[best][h]
  BY DEF ReorgAllowed
<1>2. Height[b] \in Nat /\ Height[best] \in Nat /\ minReorg \in Nat /\ f \in 0 .. Height[b]
  BY HeightType DEF DatabaseType, IsForkHeight
<1>3. Ancestor[b][h] \in GenBlock /\ Height[Ancestor[b][h]] = h
  BY AncestorType
<1>4. InMainChain(Ancestor[b][h])
  BY <1>1, <1>2, <1>3, InMainChainMeaning
<1>5. ~(h > f)
  BY <1>1, <1>2, <1>4 DEF IsForkHeight
<1> QED
  BY <1>1, <1>2, <1>5

\* What a parent is allowed, its child is.
LEMMA ReorgAllowedForChild ==
    ASSUME DatabaseType, NEW b \in Block, ReorgAllowed(Parent[b])
    PROVE  ReorgAllowed(b)
<1>1. PICK h \in 0 .. Height[Parent[b]] :
        /\ h \geq minReorg /\ h \leq Height[best]
        /\ Ancestor[Parent[b]][h] = Ancestor[best][h]
  BY DEF ReorgAllowed
<1>2. Ancestor[Parent[b]][h] = Ancestor[b][h] /\ Height[Parent[b]] = Height[b] - 1
  BY AncestorOfParent
<1>3. h \in 0 .. Height[b]
  BY <1>2, HeightType
<1> QED
  BY <1>1, <1>2, <1>3 DEF ReorgAllowed

-----------------------------------------------------------------------------
(* The control state                                                       *)

\* The variables of a call that has ended.
LEMMA IdleCall ==
    ASSUME Idle
    PROVE  CallType' /\ pc' = "idle"
BY DEF Idle, CallType

\* An attempt that fails ends the call or goes on with the next orphan.
LEMMA AttemptFailsCall ==
    ASSUME CallType, AttemptFails
    PROVE  CallType' /\ pc' \in {"idle", "orphans"}
BY IdleCall DEF AttemptFails, CallType, orphanJob, search

\* An attempt that succeeds goes on with the orphans of the block.
LEMMA AttemptSucceedsCall ==
    ASSUME CallType, cur \in Block, NEW r \in BOOLEAN, AttemptSucceeds(r)
    PROVE  CallType' /\ pc' = "orphans"
BY DEF AttemptSucceeds, CallType, search

\* Nothing is assumed of the state between two attempts or two calls, and
\* before the candidates are collected.
LEMMA QuietCall ==
    ASSUME pc' \in {"idle", "orphans", "collect"}
    PROVE  CallInv'
BY DEF CallInv

\* DatabaseInv only depends on the database.
LEMMA DatabaseUnchanged ==
    ASSUME DatabaseInv, UNCHANGED database
    PROVE  DatabaseInv'
BY DEF DatabaseInv, DatabaseType, MainChainLinked, MainChainFullyValid,
       StoredBlocksChecked, ReorgLimitBelowTip, database, index, status, chain,
       IsFullyValid, IsOk, LastValidStage

-----------------------------------------------------------------------------
(* Changes of the database                                                 *)

\* No descendant of a stale block is in the main chain.
LEMMA StaleBranch ==
    ASSUME DatabaseType, MainChainLinked, NEW r \in Block, ~InMainChain(r),
           NEW h \in 1 .. Height[best], IsAncestorOrSelf(r, byHeight[h])
    PROVE  FALSE
<1> DEFINE d == byHeight[h]
<1>1. best \in GenBlock /\ Height[best] \in Nat /\ h \in 0 .. Height[best]
  BY HeightType DEF DatabaseType
<1>2. d = Ancestor[best][h] /\ Height[d] = h
  BY <1>1, AncestorType DEF MainChainLinked
<1>3. r \in GenBlock /\ Height[r] \in Nat /\ Height[r] \leq h /\ Ancestor[d][Height[r]] = r
  BY <1>2, HeightType DEF IsAncestorOrSelf
<1>4. Ancestor[best][Height[r]] = r
  BY <1>1, <1>2, <1>3, AncestorOfAncestor
<1> HIDE DEF d
<1> QED
  BY <1>1, <1>3, <1>4, InMainChainMeaning

\* Marking the branch of a stale block as invalid.
LEMMA MarkBranchKeeps ==
    ASSUME DatabaseInv, NEW r \in Block, ~InMainChain(r), NEW bit \in FailBit,
           MarkBranch(r, bit),
           UNCHANGED <<indexed, stage, persisted, blockMap, chain, minReorg>>
    PROVE  DatabaseInv'
<1> USE DEF DatabaseInv, chain
<1>1. fails' \in [Block -> SUBSET FailBit] /\ \A d \in Block : fails[d] \subseteq fails'[d]
  BY DEF MarkBranch, DatabaseType, FailBit
<1>2. \A h \in 1 .. Height[best] : fails'[byHeight[h]] = fails[byHeight[h]]
  <2> SUFFICES ASSUME NEW h \in 1 .. Height[best]
               PROVE  fails'[byHeight[h]] = fails[byHeight[h]]
    OBVIOUS
  <2>1. byHeight[h] \in Block
    BY DEF MainChainFullyValid, DatabaseType
  <2>2. ~IsAncestorOrSelf(r, byHeight[h])
    BY StaleBranch
  <2> QED
    BY <2>1, <2>2 DEF MarkBranch, Branch
<1>3. DatabaseType' /\ MainChainLinked' /\ ReorgLimitBelowTip'
  BY <1>1 DEF DatabaseType, MainChainLinked, ReorgLimitBelowTip
<1>4. MainChainFullyValid'
  BY <1>2 DEF MainChainFullyValid, IsFullyValid, IsOk, LastValidStage
<1>5. StoredBlocksChecked'
  BY <1>1 DEF StoredBlocksChecked, DatabaseType
<1> QED
  BY <1>3, <1>4, <1>5

\* Adding the index of a new block that is not stored.
LEMMA NewIndexKeeps ==
    ASSUME DatabaseInv, NEW c \in Block, c \notin indexed,
           NEW s \in {Unchecked, CheckBlockOk}, NEW fl \in SUBSET FailBit,
           fl = {} => s = CheckBlockOk,
           indexed' = indexed \cup {c},
           stage' = [stage EXCEPT ![c] = s],
           fails' = [fails EXCEPT ![c] = fl],
           UNCHANGED <<persisted, blockMap, chain, minReorg>>
    PROVE  DatabaseInv'
<1> USE DEF DatabaseInv, chain
<1>1. DatabaseType' /\ MainChainLinked' /\ ReorgLimitBelowTip'
  BY DEF DatabaseType, MainChainLinked, ReorgLimitBelowTip, Unchecked, CheckBlockOk, FullyChecked
<1>2. MainChainFullyValid'
  <2> SUFFICES ASSUME NEW h \in 1 .. Height[best]
               PROVE  /\ byHeight[h] \in indexed' \cap persisted' \cap blockMap'
                      /\ IsFullyValid(byHeight[h])'
    BY DEF MainChainFullyValid
  <2>1. byHeight[h] \in indexed /\ byHeight[h] \in Block /\ byHeight[h] # c
    BY DEF MainChainFullyValid, DatabaseType
  <2> QED
    BY <2>1 DEF MainChainFullyValid, IsFullyValid, IsOk, LastValidStage, DatabaseType
<1>3. StoredBlocksChecked'
  BY DEF StoredBlocksChecked, DatabaseType, Unchecked, CheckBlockOk, FullyChecked
<1> QED
  BY <1>1, <1>2, <1>3

\* Saving a checked block, without a reorg.
LEMMA SaveKeeps ==
    ASSUME DatabaseInv, NEW c \in Block, c \notin indexed,
           c \notin BadHeader \cup BadBody,
           SaveCheckedBlock(c),
           stage' = [stage EXCEPT ![c] = CheckBlockOk],
           minReorg' \in Nat, minReorg' \leq Height[best],
           UNCHANGED chain
    PROVE  DatabaseInv'
<1> USE DEF DatabaseInv, chain
<1>1. DatabaseType' /\ MainChainLinked' /\ ReorgLimitBelowTip'
  BY DEF DatabaseType, MainChainLinked, ReorgLimitBelowTip, SaveCheckedBlock,
         Unchecked, CheckBlockOk, FullyChecked
<1>2. MainChainFullyValid'
  <2> SUFFICES ASSUME NEW h \in 1 .. Height[best]
               PROVE  /\ byHeight[h] \in indexed' \cap persisted' \cap blockMap'
                      /\ IsFullyValid(byHeight[h])'
    BY DEF MainChainFullyValid
  <2>1. byHeight[h] \in indexed /\ byHeight[h] \in Block /\ byHeight[h] # c
    BY DEF MainChainFullyValid, DatabaseType
  <2> QED
    BY <2>1 DEF MainChainFullyValid, IsFullyValid, IsOk, LastValidStage, DatabaseType,
                SaveCheckedBlock
<1>3. StoredBlocksChecked'
  BY DEF StoredBlocksChecked, DatabaseType, SaveCheckedBlock, Unchecked, CheckBlockOk, FullyChecked
<1> QED
  BY <1>1, <1>2, <1>3

\* reorganize puts the ancestry of the new tip in the place of the old main chain.
LEMMA ReorganizeLinks ==
    ASSUME DatabaseType, MainChainLinked, NEW b \in Block, NEW f, IsForkHeight(b, f),
           Reorganize(b, f)
    PROVE  /\ best' \in GenBlock
           /\ byHeight' \in [0 .. Height[best'] -> GenBlock]
           /\ MainChainLinked'
           /\ \A h \in 0 .. f : h \leq Height[b] /\ byHeight'[h] = byHeight[h]
<1>1. b \in GenBlock /\ Height[b] \in Nat /\ f \in Nat /\ f \leq Height[b]
  BY HeightType, ForkAgrees
<1>2. \A h \in 0 .. Height[b] : Ancestor[b][h] \in GenBlock
  BY <1>1, AncestorType
<1>3. \A h \in 0 .. Height[b] : (IF h \leq f THEN byHeight[h] ELSE Ancestor[b][h]) = Ancestor[b][h]
  BY <1>1, ForkAgrees
<1>4. best' = b /\ byHeight' = [h \in 0 .. Height[b] |-> Ancestor[b][h]]
  BY <1>3 DEF Reorganize
<1>5. \A h \in 0 .. f : h \in 0 .. Height[b] /\ Ancestor[b][h] = byHeight[h]
  BY <1>1, ForkAgrees
<1>6. MainChainLinked' /\ byHeight' \in [0 .. Height[best'] -> GenBlock]
  BY <1>2, <1>4 DEF MainChainLinked
<1> QED
  BY <1>1, <1>4, <1>5, <1>6

\* A successful reorg to b: s, i, k, m are the stages, the failure bits, the
\* index and the stored blocks once b itself has been saved.
LEMMA ReorganizeKeeps ==
    ASSUME DatabaseInv, NEW b \in Block, NEW f, IsForkHeight(b, f), Reorganize(b, f),
           NEW s \in [Block -> Unchecked .. FullyChecked],
           stage' = Connected(s, b, f),
           \A a \in Block : s[a] = FullyChecked => stage[a] = FullyChecked,
           \A a \in blockMap' : s[a] \geq CheckBlockOk /\ a \notin BadHeader \cup BadBody,
           \A a \in indexed' : fails'[a] = {} => s[a] \geq CheckBlockOk,
           fails' \in [Block -> SUBSET FailBit],
           indexed \subseteq indexed', indexed' \subseteq Block,
           blockMap \subseteq blockMap', persisted' = blockMap', blockMap' \subseteq indexed',
           \A h \in (f + 1) .. Height[b] : /\ Ancestor[b][h] \in blockMap' \ BadTx
                                           /\ fails'[Ancestor[b][h]] = {},
           \A h \in 0 .. f : byHeight[h] # Genesis => /\ fails'[byHeight[h]] = fails[byHeight[h]]
                                                      /\ s[byHeight[h]] = stage[byHeight[h]],
           minReorg' \in Nat, minReorg' \leq Height[b]
    PROVE  DatabaseInv'
<1> USE DEF DatabaseInv
<1>1. b \in GenBlock /\ Height[b] \in Nat /\ f \in Nat /\ f \leq Height[b] /\ f \leq Height[best]
  BY HeightType, ForkAgrees
<1>2. best' = b /\ best' \in GenBlock /\ byHeight' \in [0 .. Height[best'] -> GenBlock]
      /\ MainChainLinked' /\ \A h \in 0 .. f : byHeight'[h] = byHeight[h]
  BY ReorganizeLinks DEF Reorganize
<1>3. stage' \in [Block -> Unchecked .. FullyChecked]
  BY DEF Connected, Unchecked, FullyChecked
<1>4. DatabaseType' /\ ReorgLimitBelowTip'
  BY <1>2, <1>3 DEF DatabaseType, ReorgLimitBelowTip
<1>5. \A h \in (f + 1) .. Height[b] : /\ byHeight'[h] = Ancestor[b][h]
                                      /\ Ancestor[b][h] \in Block
                                      /\ stage'[Ancestor[b][h]] = FullyChecked
  <2> SUFFICES ASSUME NEW h \in (f + 1) .. Height[b]
               PROVE  /\ byHeight'[h] = Ancestor[b][h] /\ Ancestor[b][h] \in Block
                      /\ stage'[Ancestor[b][h]] = FullyChecked
    OBVIOUS
  <2>1. Ancestor[b][h] \in Block
    BY <1>1, AncestorType
  <2> QED
    BY <1>1, <2>1 DEF Connected, Reorganize
<1>6. MainChainFullyValid'
  <2> SUFFICES ASSUME NEW h \in 1 .. Height[b]
               PROVE  /\ byHeight'[h] \in indexed' \cap persisted' \cap blockMap'
                      /\ IsFullyValid(byHeight[h])'
    BY <1>2 DEF MainChainFullyValid
  <2>1. CASE h > f
    BY <1>1, <1>5, <2>1 DEF IsFullyValid, IsOk, LastValidStage
  <2>2. CASE h \leq f
    <3> DEFINE a == byHeight[h]
    <3>1. h \in 1 .. Height[best] /\ h \in 0 .. f /\ byHeight'[h] = a
      BY <1>1, <1>2, <2>2, HeightType DEF DatabaseType
    <3>2. a \in Block /\ a # Genesis /\ a \in indexed \cap persisted \cap blockMap
      BY <3>1, HeightType DEF MainChainFullyValid, DatabaseType
    <3>3. fails[a] = {} /\ stage[a] = FullyChecked
      BY <3>1, <3>2 DEF MainChainFullyValid, IsFullyValid, IsOk, LastValidStage
    <3>4. fails'[a] = {} /\ stage'[a] = FullyChecked
      BY <3>1, <3>2, <3>3 DEF Connected
    <3> HIDE DEF a
    <3> QED
      BY <3>1, <3>2, <3>4 DEF IsFullyValid, IsOk, LastValidStage, StoredBlocksChecked
  <2> QED
    BY <1>1, <2>1, <2>2
<1>7. StoredBlocksChecked'
  <2>1. \A a \in Block : stage'[a] = s[a] \/ stage'[a] = FullyChecked
    BY DEF Connected
  <2>2. \A a \in Block : stage'[a] = FullyChecked => a \in blockMap' \ BadTx
    BY DEF Connected, StoredBlocksChecked
  <2>3. \A a \in Block : s[a] \geq CheckBlockOk => stage'[a] \geq CheckBlockOk
    BY <2>1 DEF CheckBlockOk, FullyChecked
  <2>4. blockMap' \subseteq Block
    OBVIOUS
  <2> QED
    BY <2>2, <2>3, <2>4 DEF StoredBlocksChecked
<1> QED
  BY <1>2, <1>4, <1>6, <1>7

\* Disconnecting the main chain down to the parent of one of its blocks.
LEMMA DisconnectKeeps ==
    ASSUME DatabaseInv, NEW b \in Block, InMainChain(b), Height[b] > minReorg,
           DisconnectUntil(Parent[b]),
           UNCHANGED <<index, blockMap, minReorg>>
    PROVE  /\ DatabaseInv'
           /\ ~InMainChain(b)'
           /\ \A h \in 0 .. minReorg : h \in DOMAIN byHeight' /\ byHeight'[h] = byHeight[h]
<1> DEFINE p == Parent[b]
<1> USE DEF DatabaseInv, index, status
<1>1. /\ b \in GenBlock /\ Height[b] \in Nat /\ Height[b] \geq 1 /\ Height[b] \leq Height[best]
      /\ Ancestor[best][Height[b]] = b /\ Height[best] \in Nat /\ best \in GenBlock
  BY HeightType, InMainChainMeaning DEF DatabaseType
<1>2. /\ p \in GenBlock /\ Height[p] = Height[b] - 1
      /\ \A h \in 0 .. Height[p] : Ancestor[p][h] = Ancestor[b][h]
  BY <1>1, AncestorOfParent, HeightType, TreeAssumption
<1>3. \A h \in 0 .. Height[b] : Ancestor[b][h] = Ancestor[best][h]
  BY <1>1, AncestorOfAncestor
<1>4. best' = p /\ byHeight' = [h \in 0 .. Height[p] |-> byHeight[h]]
  BY DEF DisconnectUntil
<1> HIDE DEF p
<1>5. \A h \in 0 .. Height[p] : h \in 0 .. Height[best] /\ byHeight[h] = Ancestor[p][h]
  BY <1>1, <1>2, <1>3 DEF MainChainLinked
<1>6. MainChainLinked'
  BY <1>4, <1>5 DEF MainChainLinked
<1>7. DatabaseType' /\ ReorgLimitBelowTip'
  BY <1>1, <1>2, <1>4, <1>5 DEF DatabaseType, ReorgLimitBelowTip
<1>8. MainChainFullyValid'
  <2> SUFFICES ASSUME NEW h \in 1 .. Height[p]
               PROVE  /\ byHeight'[h] \in indexed' \cap persisted' \cap blockMap'
                      /\ IsFullyValid(byHeight[h])'
    BY <1>4 DEF MainChainFullyValid
  <2>1. h \in 1 .. Height[best] /\ byHeight'[h] = byHeight[h]
    BY <1>1, <1>2, <1>4
  <2> QED
    BY <2>1 DEF MainChainFullyValid, IsFullyValid, IsOk, LastValidStage
<1>9. StoredBlocksChecked'
  BY DEF StoredBlocksChecked
<1>10. ~InMainChain(b)'
  BY <1>1, <1>2, <1>4 DEF InMainChain
<1>11. \A h \in 0 .. minReorg : h \in DOMAIN byHeight' /\ byHeight'[h] = byHeight[h]
  BY <1>1, <1>2, <1>4 DEF DatabaseType
<1> QED
  BY <1>6, <1>7, <1>8, <1>9, <1>10, <1>11

\* Clearing the failure bits of a set of blocks and deleting the index of those
\* that are not persisted.
LEMMA ResetKeeps ==
    ASSUME DatabaseInv, NEW br \in SUBSET indexed,
           indexed' = indexed \ (br \ persisted),
           stage' = [d \in Block |-> IF d \in br \ persisted THEN Unchecked ELSE stage[d]],
           fails' = [d \in Block |-> IF d \in br THEN {} ELSE fails[d]],
           UNCHANGED <<persisted, blockMap, chain, minReorg>>
    PROVE  DatabaseInv'
<1> USE DEF DatabaseInv, chain
<1>1. stage' \in [Block -> Unchecked .. FullyChecked] /\ fails' \in [Block -> SUBSET FailBit]
  BY DEF DatabaseType, Unchecked, FullyChecked
<1>2. DatabaseType' /\ MainChainLinked' /\ ReorgLimitBelowTip'
  BY <1>1 DEF DatabaseType, MainChainLinked, ReorgLimitBelowTip
<1>3. MainChainFullyValid'
  <2> SUFFICES ASSUME NEW h \in 1 .. Height[best]
               PROVE  /\ byHeight[h] \in indexed' \cap persisted' \cap blockMap'
                      /\ IsFullyValid(byHeight[h])'
    BY DEF MainChainFullyValid
  <2>1. byHeight[h] \in Block /\ byHeight[h] # Genesis /\ byHeight[h] \in persisted
    BY HeightType DEF MainChainFullyValid, DatabaseType
  <2> QED
    BY <2>1 DEF MainChainFullyValid, IsFullyValid, IsOk, LastValidStage, DatabaseType
<1>4. StoredBlocksChecked'
  <2>1. \A b \in blockMap : stage'[b] = stage[b]
    BY DEF StoredBlocksChecked, DatabaseType
  <2>2. \A b \in indexed' : fails'[b] = {} => stage'[b] \geq CheckBlockOk
    BY DEF StoredBlocksChecked, DatabaseType
  <2>3. \A b \in Block : stage'[b] = FullyChecked => stage[b] = FullyChecked
    BY DEF Unchecked, FullyChecked
  <2> QED
    BY <2>1, <2>2, <2>3 DEF StoredBlocksChecked
<1> QED
  BY <1>2, <1>3, <1>4

\* update_min_height_with_allowed_reorg raises the limit, but not above the tip.
LEMMA LimitUpdate ==
    ASSUME minReorg \in Nat, NEW t \in GenBlock, minReorg \leq Height[t], UpdateMinReorg(t)
    PROVE  minReorg' \in Nat /\ minReorg' \geq minReorg /\ minReorg' \leq Height[t]
BY HeightType, ChainstateAssumption DEF UpdateMinReorg, MinHeight

\* A step that leaves the main chain alone, apart from raising the limit.
LEMMA SameChain ==
    ASSUME DatabaseInv, UNCHANGED chain, minReorg' \in Nat, minReorg' \geq minReorg
    PROVE  PrefixStep
BY HeightType DEF DatabaseInv, DatabaseType, ReorgLimitBelowTip, PrefixStep, chain

-----------------------------------------------------------------------------
(* The steps of the specification                                          *)

\* The first step of a call.
LEMMA CallKeeps ==
    ASSUME ChainInv, Call
    PROVE  ChainInv' /\ PrefixStep
<1> USE DEF ChainInv
<1> SUFFICES ASSUME NEW b \in Block,
                    \/ \E src \in {"local", "peer"} : ProcessBlock(b, src)
                    \/ InvalidateStaleBlock(b)
                    \/ InvalidateMainChainBlock(b)
                    \/ ResetBlockFailureFlags(b)
             PROVE  ChainInv' /\ PrefixStep
  BY DEF Call
<1>0. minReorg \in Nat
  BY DEF DatabaseInv, DatabaseType
<1>1. CASE \E src \in {"local", "peer"} : ProcessBlock(b, src)
  <2>1. PICK src \in {"local", "peer"} : ProcessBlock(b, src)
    BY <1>1
  <2>2. DatabaseInv'
    BY <2>1, DatabaseUnchanged DEF ProcessBlock
  <2>3. PrefixStep
    BY <1>0, <2>1, SameChain DEF ProcessBlock, database
  <2>4. CallType' /\ CallInv' /\ MemoryType' /\ faults' \in 0 .. MaxFaults
    BY <2>1 DEF ProcessBlock, CallType, CallInv, MemoryType, memory, orphanJob, search
  <2> QED
    BY <2>2, <2>3, <2>4
<1>2. CASE InvalidateStaleBlock(b)
  <2>1. DatabaseInv'
    BY <1>2, MarkBranchKeeps DEF InvalidateStaleBlock, FailBit
  <2>2. PrefixStep
    BY <1>0, <1>2, SameChain DEF InvalidateStaleBlock
  <2>3. CallType' /\ MemoryType' /\ faults' \in 0 .. MaxFaults
    BY <1>2 DEF InvalidateStaleBlock, CallType, MemoryType, orphanJob, search, RemoveOrphansOf
  <2>4. CallInv'
    BY <1>2, QuietCall DEF InvalidateStaleBlock
  <2> QED
    BY <2>1, <2>2, <2>3, <2>4
<1>3. CASE InvalidateMainChainBlock(b)
  <2>1. DatabaseInv' /\ ~InMainChain(b)'
        /\ \A h \in 0 .. minReorg : h \in DOMAIN byHeight' /\ byHeight'[h] = byHeight[h]
    BY <1>3, DisconnectKeeps DEF InvalidateMainChainBlock
  <2>2. PrefixStep
    BY <1>0, <1>3, <2>1 DEF InvalidateMainChainBlock, PrefixStep
  <2>3. CallType' /\ MemoryType' /\ faults' \in 0 .. MaxFaults
    BY <1>3 DEF InvalidateMainChainBlock, CallType, MemoryType, memory, orphanJob, search
  <2>4. CallInv'
    BY <1>3, <2>1 DEF InvalidateMainChainBlock, CallInv, InMainChain
  <2> QED
    BY <2>1, <2>2, <2>3, <2>4
<1>4. CASE ResetBlockFailureFlags(b)
  <2>1. Branch(b) \in SUBSET indexed
    BY DEF Branch
  <2>2. DatabaseInv'
    BY <1>4, <2>1, ResetKeeps DEF ResetBlockFailureFlags
  <2>3. PrefixStep
    BY <1>0, <1>4, SameChain DEF ResetBlockFailureFlags
  <2>4. CallType' /\ MemoryType' /\ faults' \in 0 .. MaxFaults
    BY <1>4 DEF ResetBlockFailureFlags, CallType, MemoryType, memory, orphanJob, search
  <2>5. CallInv'
    BY <1>4, QuietCall DEF ResetBlockFailureFlags
  <2> QED
    BY <2>2, <2>3, <2>4, <2>5
<1> QED
  BY <1>1, <1>2, <1>3, <1>4

\* The attempts that end without a change of the database, and the failed
\* transactions.
LEMMA QuietStepKeeps ==
    ASSUME ChainInv, UNCHANGED database, MemoryType', CallType',
           pc' \in {"idle", "orphans", "collect"}, faults' \in 0 .. MaxFaults
    PROVE  ChainInv' /\ PrefixStep
<1>1. DatabaseInv'
  BY DatabaseUnchanged DEF ChainInv
<1>2. PrefixStep
  BY SameChain DEF ChainInv, DatabaseInv, DatabaseType, database
<1> QED
  BY <1>1, <1>2, QuietCall DEF ChainInv

\* The block has passed check_block and becomes the tip.
LEMMA IntegrateReorgKeeps ==
    ASSUME ChainInv, IntegrateReorg
    PROVE  ChainInv' /\ PrefixStep
<1> USE DEF ChainInv
<1>1. /\ cur \in Block /\ cur \notin indexed /\ cur \notin BadHeader \cup BadBody
      /\ ReorgAllowed(Parent[cur]) /\ SaveCheckedBlock(cur)
      /\ AttemptSucceeds(TRUE) /\ UpdateMinReorg(cur)
  BY DEF IntegrateReorg, Integrating, CallInv, CheckPasses
<1>2. PICK f \in 0 .. Height[cur] :
        /\ IsForkHeight(cur, f) /\ AllConnect(cur, f, cur) /\ Reorganize(cur, f)
        /\ stage' = Connected([stage EXCEPT ![cur] = CheckBlockOk], cur, f)
  BY DEF IntegrateReorg
<1>3. DatabaseType /\ MainChainLinked /\ cur \in GenBlock /\ Height[cur] \in Nat /\ minReorg \in Nat
  BY <1>1, HeightType DEF DatabaseInv, DatabaseType
<1>4. minReorg \leq f /\ minReorg \leq Height[cur]
  BY <1>1, <1>2, <1>3, ReorgAllowedForChild, ForkAboveLimit
<1>5. minReorg' \in Nat /\ minReorg' \geq minReorg /\ minReorg' \leq Height[cur]
  BY <1>1, <1>3, <1>4, LimitUpdate
<1>6. PrefixStep
  <2>1. \A h \in 0 .. f : h \leq Height[cur] /\ byHeight'[h] = byHeight[h]
    BY <1>1, <1>2, <1>3, ReorganizeLinks
  <2>2. DOMAIN byHeight' = 0 .. Height[cur]
    BY <1>2 DEF Reorganize
  <2> QED
    BY <1>3, <1>4, <1>5, <2>1, <2>2 DEF PrefixStep
<1>7. DatabaseInv'
  <2> DEFINE s == [stage EXCEPT ![cur] = CheckBlockOk]
  <2>1. s \in [Block -> Unchecked .. FullyChecked]
    <3>1. CheckBlockOk \in Unchecked .. FullyChecked
      BY DEF Unchecked, CheckBlockOk, FullyChecked
    <3> QED
      BY <1>3, <3>1 DEF DatabaseType
  <2>2. \A a \in Block : s[a] = FullyChecked => stage[a] = FullyChecked
    BY <1>1, <1>3 DEF DatabaseType, CheckBlockOk, FullyChecked
  <2>3. /\ fails' \in [Block -> SUBSET FailBit] /\ fails'[cur] = {}
        /\ \A a \in Block \ {cur} : fails'[a] = fails[a] /\ s[a] = stage[a]
        /\ s[cur] = CheckBlockOk
    BY <1>1, <1>3 DEF DatabaseType, SaveCheckedBlock
  <2>4. /\ indexed \subseteq indexed' /\ indexed' \subseteq Block
        /\ blockMap \subseteq blockMap' /\ persisted' = blockMap' /\ blockMap' \subseteq indexed'
    BY <1>1, <1>3 DEF DatabaseType, SaveCheckedBlock, DatabaseInv, StoredBlocksChecked
  <2>5. \A a \in blockMap' : s[a] \geq CheckBlockOk /\ a \notin BadHeader \cup BadBody
    BY <1>1, <1>3, <2>3 DEF DatabaseType, SaveCheckedBlock, DatabaseInv, StoredBlocksChecked,
                            CheckBlockOk
  <2>6. \A a \in indexed' : fails'[a] = {} => s[a] \geq CheckBlockOk
    BY <1>1, <1>3, <2>3 DEF DatabaseType, SaveCheckedBlock, DatabaseInv, StoredBlocksChecked,
                            CheckBlockOk
  <2>7. \A h \in (f + 1) .. Height[cur] : /\ Ancestor[cur][h] \in blockMap' \ BadTx
                                          /\ fails'[Ancestor[cur][h]] = {}
    <3> SUFFICES ASSUME NEW h \in (f + 1) .. Height[cur]
                 PROVE  Ancestor[cur][h] \in blockMap' \ BadTx /\ fails'[Ancestor[cur][h]] = {}
      OBVIOUS
    <3>1. Connects(Ancestor[cur][h], cur)
      BY <1>2 DEF AllConnect
    <3>2. Ancestor[cur][h] \in Block
      BY <1>3, AncestorType
    <3> QED
      BY <1>1, <2>3, <3>1, <3>2 DEF Connects, SaveCheckedBlock
  <2>8. \A h \in 0 .. f : byHeight[h] # Genesis =>
           fails'[byHeight[h]] = fails[byHeight[h]] /\ s[byHeight[h]] = stage[byHeight[h]]
    <3> SUFFICES ASSUME NEW h \in 0 .. f, byHeight[h] # Genesis
                 PROVE  byHeight[h] \in Block \ {cur}
      BY <2>3
    <3>1. h \in 0 .. Height[best] /\ byHeight[h] = Ancestor[best][h] /\ Ancestor[best][0] = Genesis
      BY <1>2, <1>3, ForkAgrees, AncestorAssumption, HeightType DEF DatabaseType, MainChainLinked
    <3>2. h \in 1 .. Height[best]
      BY <3>1
    <3> QED
      BY <1>1, <1>3, <3>2 DEF DatabaseInv, MainChainFullyValid, DatabaseType
  <2> HIDE DEF s
  <2>9. stage' = Connected(s, cur, f)
    BY <1>2 DEF s
  <2> QED
    BY <1>1, <1>2, <1>5, <2>1, <2>2, <2>3, <2>4, <2>5, <2>6, <2>7, <2>8, <2>9, ReorganizeKeeps
<1>8. CallType' /\ pc' = "orphans"
  BY <1>1, AttemptSucceedsCall
<1>9. MemoryType' /\ faults' \in 0 .. MaxFaults
  BY DEF IntegrateReorg, MemoryType, memory
<1> QED
  BY <1>6, <1>7, <1>8, <1>9, QuietCall

\* The steps of process_block.
LEMMA ProcessStepKeeps ==
    ASSUME ChainInv, ProcessStep
    PROVE  ChainInv' /\ PrefixStep
<1> USE DEF ChainInv
<1>0. DatabaseType /\ MainChainLinked /\ minReorg \in Nat /\ minReorg \leq Height[best]
  BY DEF DatabaseInv, DatabaseType, ReorgLimitBelowTip
<1>1. CASE AttemptOrphan
  <2>1. cur \in Block
    BY <1>1 DEF AttemptOrphan, CallInv
  <2>2. MemoryType'
    BY <1>1, <2>1 DEF AttemptOrphan, AddOrphan, MemoryType
  <2> QED
    BY <1>1, <2>2, AttemptFailsCall, QuietStepKeeps DEF AttemptOrphan
<1>2. CASE AttemptRejected
  BY <1>2, AttemptFailsCall, QuietStepKeeps DEF AttemptRejected, MemoryType, memory
<1>3. CASE IntegrateCheckFails
  <2>1. UNCHANGED database /\ MemoryType' /\ faults' \in 0 .. MaxFaults
    BY <1>3 DEF IntegrateCheckFails, MemoryType, memory
  <2>2. CASE AttemptFails
    BY <2>1, <2>2, AttemptFailsCall, QuietStepKeeps
  <2>3. CASE ~AttemptFails
    <3>1. /\ pc = "attempt" /\ cur \notin indexed /\ pc' = "mark_failed"
          /\ UNCHANGED <<first, source, cur, culprit, orphanJob, search>>
      BY <1>3, <2>3 DEF IntegrateCheckFails, Integrating
    <3>2. CallType' /\ CallInv'
      BY <2>1, <3>1 DEF CallType, CallInv, orphanJob, search, database, index
    <3>3. DatabaseInv' /\ PrefixStep
      BY <1>0, <2>1, DatabaseUnchanged, SameChain DEF database
    <3> QED
      BY <2>1, <3>2, <3>3
  <2> QED
    BY <2>2, <2>3
<1>4. CASE IntegrateStale
  <2>1. /\ cur \in Block /\ cur \notin indexed /\ cur \notin BadHeader \cup BadBody
        /\ AttemptSucceeds(FALSE) /\ UpdateMinReorg(best) /\ SaveCheckedBlock(cur)
        /\ stage' = [stage EXCEPT ![cur] = CheckBlockOk] /\ UNCHANGED chain
    BY <1>4 DEF IntegrateStale, Integrating, CallInv, CheckPasses
  <2>2. minReorg' \in Nat /\ minReorg' \geq minReorg /\ minReorg' \leq Height[best]
    BY <1>0, <2>1, LimitUpdate DEF DatabaseType
  <2>3. DatabaseInv' /\ PrefixStep
    BY <2>1, <2>2, SaveKeeps, SameChain
  <2>4. MemoryType' /\ faults' \in 0 .. MaxFaults
    BY <1>4 DEF IntegrateStale, MemoryType, memory
  <2> QED
    BY <2>1, <2>3, <2>4, AttemptSucceedsCall, QuietCall
<1>5. CASE IntegrateReorg
  BY <1>5, IntegrateReorgKeeps
<1>6. CASE IntegrateConnectFails
  <2>1. UNCHANGED database /\ MemoryType' /\ faults' \in 0 .. MaxFaults
    BY <1>6 DEF IntegrateConnectFails, MemoryType, memory
  <2>2. CASE AttemptFails
    BY <2>1, <2>2, AttemptFailsCall, QuietStepKeeps
  <2>3. CASE ~AttemptFails
    <3>1. PICK f \in 0 .. Height[cur], h \in 1 .. Height[cur] :
            /\ IsForkHeight(cur, f) /\ FirstFailure(cur, f, h, cur)
            /\ pc' = "save_index" /\ culprit' = Ancestor[cur][h]
            /\ UNCHANGED <<first, source, cur, orphanJob, search>>
      BY <1>6, <2>3 DEF IntegrateConnectFails
    <3>2. cur \in Block /\ cur \in GenBlock /\ cur \notin indexed
      BY <1>6, HeightType DEF IntegrateConnectFails, Integrating, CallInv
    <3>3. Ancestor[cur][h] \in Block /\ ~InMainChain(Ancestor[cur][h])
      BY <3>1, <3>2, AncestorType, HeightType DEF IsForkHeight, FirstFailure
    <3>4. CallType'
      BY <3>1, <3>2, <3>3 DEF CallType, orphanJob, search
    <3>5. CallInv'
      BY <2>1, <3>1, <3>2, <3>3 DEF CallInv, database, index, chain, InMainChain
    <3>6. DatabaseInv' /\ PrefixStep
      BY <1>0, <2>1, DatabaseUnchanged, SameChain DEF database
    <3> QED
      BY <2>1, <3>4, <3>5, <3>6
  <2> QED
    BY <2>2, <2>3
<1>7. CASE MarkNewBlockFailed
  <2>1. cur \in Block /\ cur \notin indexed
    BY <1>7 DEF MarkNewBlockFailed, CallInv
  <2>2. DatabaseInv'
    BY <1>7, <2>1, NewIndexKeeps DEF MarkNewBlockFailed, FailBit
  <2>3. PrefixStep
    BY <1>0, <1>7, SameChain DEF MarkNewBlockFailed
  <2>4. MemoryType' /\ faults' \in 0 .. MaxFaults /\ AttemptFails
    BY <1>7 DEF MarkNewBlockFailed, MemoryType, memory
  <2> QED
    BY <2>2, <2>3, <2>4, AttemptFailsCall, QuietCall
<1>8. CASE SaveNewBlockIndex
  <2>1. cur \in Block /\ cur \notin indexed /\ culprit \in Block /\ ~InMainChain(culprit)
    BY <1>8 DEF SaveNewBlockIndex, CallInv
  <2>2. DatabaseInv'
    BY <1>8, <2>1, NewIndexKeeps DEF SaveNewBlockIndex
  <2>3. PrefixStep
    BY <1>0, <1>8, SameChain DEF SaveNewBlockIndex
  <2>4. MemoryType' /\ faults' \in 0 .. MaxFaults /\ CallType'
    BY <1>8 DEF SaveNewBlockIndex, MemoryType, memory, CallType, orphanJob, search
  <2>5. CallInv'
    BY <1>8, <2>1 DEF SaveNewBlockIndex, CallInv, chain, InMainChain
  <2> QED
    BY <2>2, <2>3, <2>4, <2>5
<1>9. CASE BlameCulprit
  <2>1. culprit \in Block /\ ~InMainChain(culprit)
    BY <1>9 DEF BlameCulprit, CallInv
  <2>2. DatabaseInv'
    <3>1. CASE culprit \in indexed
      BY <1>9, <2>1, <3>1, MarkBranchKeeps DEF BlameCulprit, FailBit
    <3>2. CASE culprit \notin indexed
      BY <1>9, <3>2, DatabaseUnchanged DEF BlameCulprit, database, index, status
    <3> QED
      BY <3>1, <3>2
  <2>3. PrefixStep
    BY <1>0, <1>9, SameChain DEF BlameCulprit
  <2>4. MemoryType' /\ faults' \in 0 .. MaxFaults /\ AttemptFails
    BY <1>9 DEF BlameCulprit, MemoryType, RemoveOrphansOf
  <2> QED
    BY <2>2, <2>3, <2>4, AttemptFailsCall, QuietCall
<1>10. CASE TakeOrphans
  <2>1. PICK p \in pending : /\ batch' = OrphanChildren(p)
                             /\ orphans' = orphans \ OrphanChildren(p)
                             /\ pending' = (pending \ {p}) \cup OrphanChildren(p)
    BY <1>10 DEF TakeOrphans
  <2>2. OrphanChildren(p) \subseteq Block
    BY DEF OrphanChildren, MemoryType
  <2>3. UNCHANGED database /\ faults' \in 0 .. MaxFaults /\ pc' = "orphans"
    BY <1>10 DEF TakeOrphans
  <2>4. MemoryType' /\ CallType'
    BY <1>10, <2>1, <2>2 DEF TakeOrphans, MemoryType, CallType, search
  <2> QED
    BY <2>3, <2>4, QuietStepKeeps
<1>11. CASE AttemptNextOrphan
  <2>1. UNCHANGED database /\ MemoryType' /\ faults' \in 0 .. MaxFaults
    BY <1>11 DEF AttemptNextOrphan, MemoryType, memory
  <2>2. CallType' /\ CallInv'
    BY <1>11 DEF AttemptNextOrphan, CallType, CallInv, search
  <2> QED
    BY <1>0, <2>1, <2>2, DatabaseUnchanged, SameChain DEF database
<1>12. CASE FinishProcessBlock
  <2>1. UNCHANGED database /\ faults' \in 0 .. MaxFaults /\ Idle
    BY <1>12 DEF FinishProcessBlock
  <2>2. MemoryType'
    BY <1>12 DEF FinishProcessBlock, MemoryType, CallType, GenBlock
  <2> QED
    BY <2>1, <2>2, IdleCall, QuietStepKeeps
<1>13. CASE AttemptPanics
  <2>1. UNCHANGED database /\ faults' \in 0 .. MaxFaults /\ Idle
    BY <1>13 DEF AttemptPanics, Restarted
  <2>2. MemoryType'
    BY <1>0, <1>13 DEF AttemptPanics, Restarted, MemoryType, DatabaseType
  <2> QED
    BY <2>1, <2>2, IdleCall, QuietStepKeeps
<1> QED
  BY <1>1, <1>2, <1>3, <1>4, <1>5, <1>6, <1>7, <1>8, <1>9, <1>10, <1>11, <1>12, <1>13
  DEF ProcessStep

\* The best candidate becomes the tip.
LEMMA ActivateCandidateKeeps ==
    ASSUME ChainInv, ActivateCandidate
    PROVE  ChainInv' /\ PrefixStep
<1> USE DEF ChainInv
<1>1. PICK c \in cands : \E f \in 0 .. Height[c] :
        /\ IsForkHeight(c, f) /\ AllConnect(c, f, NoBlock) /\ Reorganize(c, f)
        /\ stage' = Connected(stage, c, f)
  BY DEF ActivateCandidate
<1>f. PICK f \in 0 .. Height[c] :
        /\ IsForkHeight(c, f) /\ AllConnect(c, f, NoBlock) /\ Reorganize(c, f)
        /\ stage' = Connected(stage, c, f)
  BY <1>1
<1>2. /\ c \in Block /\ ReorgAllowed(c) /\ Idle
      /\ UNCHANGED <<indexed, fails, persisted, blockMap, minReorg, memory, faults>>
  BY DEF ActivateCandidate, CallInv, CallType
<1>3. /\ DatabaseType /\ MainChainLinked /\ StoredBlocksChecked
      /\ c \in GenBlock /\ Height[c] \in Nat /\ minReorg \in Nat
  BY <1>2, HeightType DEF DatabaseInv, DatabaseType
<1>4. minReorg \leq f /\ minReorg \leq Height[c]
  BY <1>f, <1>2, <1>3, ForkAboveLimit
<1>5. PrefixStep
  <2>1. \A h \in 0 .. f : h \leq Height[c] /\ byHeight'[h] = byHeight[h]
    BY <1>f, <1>2, <1>3, ReorganizeLinks
  <2>2. DOMAIN byHeight' = 0 .. Height[c]
    BY <1>f DEF Reorganize
  <2> QED
    BY <1>2, <1>3, <1>4, <2>1, <2>2 DEF PrefixStep
<1>6. DatabaseInv'
  <2>1. \A h \in (f + 1) .. Height[c] : /\ Ancestor[c][h] \in blockMap' \ BadTx
                                        /\ fails'[Ancestor[c][h]] = {}
    <3> SUFFICES ASSUME NEW h \in (f + 1) .. Height[c]
                 PROVE  Ancestor[c][h] \in blockMap' \ BadTx /\ fails'[Ancestor[c][h]] = {}
      OBVIOUS
    <3>1. Connects(Ancestor[c][h], NoBlock)
      BY <1>f DEF AllConnect
    <3>2. Ancestor[c][h] \in GenBlock
      BY <1>3, AncestorType
    <3> QED
      BY <1>2, <3>1, <3>2, ChainstateAssumption DEF Connects
  <2>2. /\ stage \in [Block -> Unchecked .. FullyChecked]
        /\ fails' \in [Block -> SUBSET FailBit]
        /\ indexed \subseteq indexed' /\ indexed' \subseteq Block
        /\ blockMap \subseteq blockMap' /\ persisted' = blockMap' /\ blockMap' \subseteq indexed'
    BY <1>2, <1>3 DEF DatabaseType, StoredBlocksChecked
  <2>3. /\ \A a \in blockMap' : stage[a] \geq CheckBlockOk /\ a \notin BadHeader \cup BadBody
        /\ \A a \in indexed' : fails'[a] = {} => stage[a] \geq CheckBlockOk
    BY <1>2, <1>3 DEF StoredBlocksChecked
  <2>4. minReorg' \in Nat /\ minReorg' \leq Height[c]
    BY <1>2, <1>3, <1>4
  <2>5. \A h \in 0 .. f : byHeight[h] # Genesis =>
           fails'[byHeight[h]] = fails[byHeight[h]] /\ stage[byHeight[h]] = stage[byHeight[h]]
    BY <1>2
  <2> QED
    BY <1>f, <1>2, <2>1, <2>2, <2>3, <2>4, <2>5, ReorganizeKeeps
<1>7. CallType' /\ pc' = "idle" /\ MemoryType' /\ faults' \in 0 .. MaxFaults
  BY <1>2, IdleCall DEF MemoryType, memory
<1> QED
  BY <1>5, <1>6, <1>7, QuietCall

\* The parent of a block above the fork is a candidate as good as the tip of
\* the branch: it leaves the main chain at the same height.
LEMMA ParentAboveFork ==
    ASSUME DatabaseType, MainChainLinked, NEW c \in GenBlock, NEW f, IsForkHeight(c, f),
           ReorgAllowed(c), NEW h \in (f + 1) .. Height[c]
    PROVE  ReorgAllowed(Parent[Ancestor[c][h]])
<1> DEFINE p == Parent[Ancestor[c][h]]
<1>1. /\ Height[c] \in Nat /\ Height[best] \in Nat /\ best \in GenBlock
      /\ f \in Nat /\ f \leq Height[c] /\ f \leq Height[best] /\ minReorg \leq f
      /\ Ancestor[c][f] = byHeight[f]
  BY HeightType, ForkAgrees, ForkAboveLimit DEF DatabaseType
<1>2. h \in 0 .. Height[c] /\ h > 0 /\ h - 1 \in 0 .. Height[c] /\ f \in 0 .. (h - 1)
  BY <1>1
<1>3. p = Ancestor[c][h - 1]
  BY <1>2, AncestorAssumption
<1>4. Height[p] = h - 1 /\ Ancestor[p][f] = Ancestor[c][f]
  BY <1>2, <1>3, AncestorType, AncestorOfAncestor
<1>5. Ancestor[best][f] = byHeight[f]
  BY <1>1 DEF MainChainLinked
<1> QED
  BY <1>1, <1>2, <1>4, <1>5 DEF ReorgAllowed

\* A candidate fails: its branch is marked if it is bad, and its parent may
\* replace it.
LEMMA CandidateFailsKeeps ==
    ASSUME ChainInv, CandidateFails
    PROVE  ChainInv' /\ PrefixStep
<1> USE DEF ChainInv
<1>1. PICK c \in cands : \E f \in 0 .. Height[c] : \E h \in 1 .. Height[c] :
        /\ IsForkHeight(c, f) /\ FirstFailure(c, f, h, NoBlock)
        /\ RemoveTreeAddParent(Ancestor[c][h])
        /\ IF ConnectsBadly(Ancestor[c][h], NoBlock)
           THEN MarkBranch(Ancestor[c][h], "failed") /\ RemoveOrphansOf(Ancestor[c][h])
           ELSE UNCHANGED <<fails, orphans>>
  BY DEF CandidateFails
<1>2. PICK f \in 0 .. Height[c] : \E h \in 1 .. Height[c] :
        /\ IsForkHeight(c, f) /\ FirstFailure(c, f, h, NoBlock)
        /\ RemoveTreeAddParent(Ancestor[c][h])
        /\ IF ConnectsBadly(Ancestor[c][h], NoBlock)
           THEN MarkBranch(Ancestor[c][h], "failed") /\ RemoveOrphansOf(Ancestor[c][h])
           ELSE UNCHANGED <<fails, orphans>>
  BY <1>1
<1>3. PICK h \in 1 .. Height[c] :
        /\ IsForkHeight(c, f) /\ FirstFailure(c, f, h, NoBlock)
        /\ RemoveTreeAddParent(Ancestor[c][h])
        /\ IF ConnectsBadly(Ancestor[c][h], NoBlock)
           THEN MarkBranch(Ancestor[c][h], "failed") /\ RemoveOrphansOf(Ancestor[c][h])
           ELSE UNCHANGED <<fails, orphans>>
  BY <1>2
<1> DEFINE a == Ancestor[c][h]
<1>4. /\ pc = "activate" /\ pc' = "activate"
      /\ UNCHANGED <<indexed, stage, persisted, blockMap, chain, minReorg>>
      /\ UNCHANGED <<ibdDone, notified, first, source, cur, culprit, orphanJob, minTrust, faults>>
  BY DEF CandidateFails
<1>5. /\ DatabaseType /\ MainChainLinked /\ minReorg \in Nat /\ minReorg \leq Height[best]
      /\ c \in Block /\ c \in GenBlock /\ Height[c] \in Nat /\ ReorgAllowed(c)
  BY <1>4, HeightType DEF DatabaseInv, DatabaseType, ReorgLimitBelowTip, CallInv, CallType
<1>6. a \in Block /\ ~InMainChain(a) /\ h \in (f + 1) .. Height[c]
  BY <1>3, <1>5, AncestorType DEF FirstFailure, IsForkHeight
<1>7. DatabaseInv'
  <2>1. CASE ConnectsBadly(a, NoBlock)
    BY <1>3, <1>4, <1>6, <2>1, MarkBranchKeeps DEF FailBit
  <2>2. CASE ~ConnectsBadly(a, NoBlock)
    BY <1>3, <1>4, <2>2, DatabaseUnchanged DEF database, index, status
  <2> QED
    BY <2>1, <2>2
<1>8. PrefixStep
  BY <1>4, <1>5, SameChain
<1>9. MemoryType'
  BY <1>3, <1>4 DEF MemoryType, RemoveOrphansOf
<1>10. \A d \in cands' : d \in Block /\ ReorgAllowed(d)
  <2>1. ReorgAllowed(Parent[a]) /\ Parent[a] \in GenBlock
    BY <1>3, <1>5, <1>6, ParentAboveFork, TreeAssumption
  <2>2. \A d \in cands' : d \in cands \/ (d = Parent[a] /\ d # Genesis)
    BY <1>3 DEF RemoveTreeAddParent
  <2> QED
    BY <1>4, <2>1, <2>2 DEF CallInv, CallType, GenBlock
<1>11. CallInv'
  BY <1>4, <1>10 DEF CallInv, ReorgAllowed, chain
<1>12. CallType' /\ faults' \in 0 .. MaxFaults
  BY <1>4, <1>10 DEF CallType, orphanJob
<1> QED
  BY <1>7, <1>8, <1>9, <1>11, <1>12

\* The steps that follow an invalidation or a reset.
LEMMA InvalidationStepKeeps ==
    ASSUME ChainInv, InvalidationStep
    PROVE  ChainInv' /\ PrefixStep
<1> USE DEF ChainInv
<1>0. DatabaseType /\ MainChainLinked /\ minReorg \in Nat /\ minReorg \leq Height[best]
  BY DEF DatabaseInv, DatabaseType, ReorgLimitBelowTip
<1>1. CASE MarkInvalidatedBranch
  <2>1. culprit \in Block /\ ~InMainChain(culprit)
    BY <1>1 DEF MarkInvalidatedBranch, CallInv
  <2>2. DatabaseInv'
    BY <1>1, <2>1, MarkBranchKeeps DEF MarkInvalidatedBranch, FailBit
  <2>3. PrefixStep
    BY <1>0, <1>1, SameChain DEF MarkInvalidatedBranch
  <2>4. CallType' /\ MemoryType' /\ faults' \in 0 .. MaxFaults
    BY <1>1 DEF MarkInvalidatedBranch, CallType, MemoryType, orphanJob, search, RemoveOrphansOf
  <2>5. CallInv'
    BY <1>1, QuietCall DEF MarkInvalidatedBranch
  <2> QED
    BY <2>2, <2>3, <2>4, <2>5
<1>2. CASE CollectCandidates
  <2>1. UNCHANGED database /\ MemoryType' /\ faults' \in 0 .. MaxFaults /\ pc' = "activate"
    BY <1>2 DEF CollectCandidates, MemoryType, memory
  <2>2. \A c \in cands' : c \in Block /\ ReorgAllowed(c)
    BY <1>0, <1>2 DEF CollectCandidates, BestChainCandidates, OkTips, DatabaseType
  <2>3. CallInv'
    BY <2>1, <2>2 DEF CallInv, ReorgAllowed, database, chain
  <2>4. minTrust' \in Nat
    BY <1>0, <1>2, TrustAssumption DEF CollectCandidates, DatabaseType
  <2>5. CallType'
    BY <1>2, <2>2, <2>4 DEF CollectCandidates, CallType, orphanJob
  <2> QED
    BY <1>0, <2>1, <2>3, <2>5, DatabaseUnchanged, SameChain DEF database
<1>3. CASE CollectFails
  BY <1>3, IdleCall, QuietStepKeeps DEF CollectFails, MemoryType, memory
<1>4. CASE ActivateCandidate
  BY <1>4, ActivateCandidateKeeps
<1>5. CASE CandidateFails
  BY <1>5, CandidateFailsKeeps
<1>6. CASE NoCandidateLeft
  BY <1>6, IdleCall, QuietStepKeeps DEF NoCandidateLeft, MemoryType, memory
<1> QED
  BY <1>1, <1>2, <1>3, <1>4, <1>5, <1>6 DEF InvalidationStep

\* A transaction that gives up, and a crash, keep the database.
LEMMA FailureKeeps ==
    ASSUME ChainInv, DbFailure \/ Crash
    PROVE  ChainInv' /\ PrefixStep
<1> USE DEF ChainInv
<1>0. DatabaseType /\ MainChainLinked /\ minReorg \in Nat /\ minReorg \leq Height[best]
  BY DEF DatabaseInv, DatabaseType, ReorgLimitBelowTip
<1>1. CASE DbFailure
  <2>1. UNCHANGED database /\ MemoryType' /\ faults' \in 0 .. MaxFaults
    BY <1>1, ChainstateAssumption DEF DbFailure, MemoryType, memory
  <2>2. CASE AttemptFails
    BY <2>1, <2>2, AttemptFailsCall, QuietStepKeeps
  <2>3. CASE Idle
    BY <2>1, <2>3, IdleCall, QuietStepKeeps
  <2>4. CASE /\ pc = "save_index" /\ pc' = "blame"
             /\ UNCHANGED <<first, source, cur, culprit, orphanJob, search>>
    <3>1. CallType' /\ CallInv'
      BY <2>1, <2>4 DEF CallType, CallInv, orphanJob, search, InMainChain, database, chain
    <3> QED
      BY <1>0, <2>1, <3>1, DatabaseUnchanged, SameChain DEF database
  <2> QED
    BY <1>1, <2>2, <2>3, <2>4 DEF DbFailure
<1>2. CASE Crash
  <2>1. UNCHANGED database /\ faults' \in 0 .. MaxFaults /\ Idle
    BY <1>2, ChainstateAssumption DEF Crash, Restarted
  <2>2. MemoryType'
    BY <1>0, <1>2 DEF Crash, Restarted, MemoryType, DatabaseType
  <2> QED
    BY <2>1, <2>2, IdleCall, QuietStepKeeps
<1> QED
  BY <1>1, <1>2

\* The chain after process_genesis.
LEMMA InitKeeps ==
    ASSUME Init
    PROVE  ChainInv
<1>1. Height[Genesis] = 0 /\ Genesis \in GenBlock /\ Ancestor[Genesis][0] = Genesis
  BY TreeAssumption, AncestorAssumption DEF GenBlock
<1>2. DatabaseType /\ ReorgLimitBelowTip /\ StoredBlocksChecked
  <2>1. Unchecked \in Unchecked .. FullyChecked /\ Unchecked # FullyChecked
    BY DEF Unchecked, FullyChecked
  <2>2. byHeight \in [0 .. Height[best] -> GenBlock]
    BY <1>1 DEF Init
  <2> QED
    BY <1>1, <2>1, <2>2 DEF Init, DatabaseType, ReorgLimitBelowTip, StoredBlocksChecked
<1>3. MainChainLinked /\ MainChainFullyValid
  <2>1. \A h \in 0 .. 0 : Ancestor[Genesis][h] = Genesis
    BY <1>1
  <2> QED
    BY <1>1, <2>1 DEF Init, MainChainLinked, MainChainFullyValid
<1>4. MemoryType
  BY <1>1 DEF Init, MemoryType
<1>5. CallType /\ CallInv
  BY DEF Init, CallType, CallInv
<1>6. faults \in 0 .. MaxFaults
  BY ChainstateAssumption DEF Init
<1> QED
  BY <1>2, <1>3, <1>4, <1>5, <1>6 DEF ChainInv, DatabaseInv

\* Every step keeps the inductive invariant and the finalized prefix.
LEMMA NextKeeps ==
    ASSUME ChainInv, [Next]_vars
    PROVE  ChainInv' /\ [PrefixStep]_vars
<1>1. CASE Next
  <2>1. CASE Call
    BY <2>1, CallKeeps DEF Call
  <2>2. CASE Step
    BY <2>2, ProcessStepKeeps, InvalidationStepKeeps DEF Step
  <2>3. CASE DbFailure \/ Crash
    BY <2>3, FailureKeeps
  <2> QED
    BY <1>1, <2>1, <2>2, <2>3 DEF Next
<1>2. CASE UNCHANGED vars
  <2>1. DatabaseInv'
    BY <1>2, DatabaseUnchanged DEF ChainInv, vars
  <2>2. MemoryType' /\ CallType' /\ faults' \in 0 .. MaxFaults
    BY <1>2 DEF ChainInv, vars, MemoryType, memory, CallType, orphanJob, search
  <2>3. CallInv'
    BY <1>2 DEF ChainInv, CallInv, vars, database, index, chain, InMainChain, ReorgAllowed, search
  <2> QED
    BY <1>2, <2>1, <2>2, <2>3 DEF ChainInv
<1> QED
  BY <1>1, <1>2

-----------------------------------------------------------------------------
(* The theorems                                                            *)

\* ChainInv is an invariant: it holds after process_genesis, and every
\* transaction, failure and restart keeps it.
THEOREM ChainInvariant == Spec => []ChainInv
<1>1. Init => ChainInv
  BY InitKeeps
<1>2. ChainInv /\ [Next]_vars => ChainInv'
  BY NextKeeps
<1> QED
  BY <1>1, <1>2, PTL DEF Spec

\* The types of the database, of the memory and of the call in progress.
THEOREM TypeCorrect == Spec => []TypeOK
<1>1. ChainInv => TypeOK
  BY DEF ChainInv, DatabaseInv, TypeOK
<1> QED
  BY <1>1, ChainInvariant, PTL

\* At every commit the block ids by height are the ancestry of the best block
\* (reorganize, disconnect_until).
THEOREM MainChainIsLinked == Spec => []MainChainLinked
<1>1. ChainInv => MainChainLinked
  BY DEF ChainInv, DatabaseInv
<1> QED
  BY <1>1, ChainInvariant, PTL

\* At every commit the main chain consists of stored, fully valid blocks
\* (connect_tip, invalidate_stale_block, reset_block_failure_flags).
THEOREM MainChainIsFullyValid == Spec => []MainChainFullyValid
<1>1. ChainInv => MainChainFullyValid
  BY DEF ChainInv, DatabaseInv
<1> QED
  BY <1>1, ChainInvariant, PTL

\* No block that breaks a rule enters the main chain (check_block, connect_tip).
THEOREM MainChainIsSound == Spec => []MainChainSound
<1>1. ChainInv => MainChainSound
  <2> SUFFICES ASSUME ChainInv, NEW h \in 1 .. Height[best]
               PROVE  byHeight[h] \notin BadHeader \cup BadBody \cup BadTx
    BY DEF MainChainSound
  <2>1. byHeight[h] \in indexed /\ byHeight[h] \in blockMap /\ IsFullyValid(byHeight[h])
    BY DEF ChainInv, DatabaseInv, MainChainFullyValid
  <2>2. byHeight[h] \in Block /\ byHeight[h] # Genesis
    BY <2>1, TreeAssumption DEF ChainInv, DatabaseInv, DatabaseType
  <2>3. stage[byHeight[h]] = FullyChecked
    BY <2>1, <2>2 DEF IsFullyValid, LastValidStage
  <2> QED
    BY <2>1, <2>2, <2>3 DEF ChainInv, DatabaseInv, StoredBlocksChecked
<1> QED
  BY <1>1, ChainInvariant, PTL

\* The main chain up to the limit of reorgs is final, and the limit never goes
\* down (check_block_height_vs_max_reorg_depth, invalidate_block,
\* BestChainCandidates).
THEOREM PrefixIsFinal == Spec => FinalizedPrefixKept
<1>1. ChainInv /\ [Next]_vars => [PrefixStep]_vars
  BY NextKeeps
<1> QED
  BY <1>1, ChainInvariant, PTL DEF Spec, FinalizedPrefixKept


-----------------------------------------------------------------------------
(* Without failures                                                        *)

\* No failures, and resets only where the parent is ok.
Undisturbed == Faults = {} /\ "reset_any" \notin Commands

-----------------------------------------------------------------------------
\* The parent of a block in the index is as good as the block.
IndexTree ==
    /\ \A b \in indexed : Parent[b] \in indexed \cup {Genesis}
    /\ \A b \in persisted : Parent[b] \in persisted \cup {Genesis}
    /\ \A b \in indexed : LastValidStage(Parent[b]) \geq stage[b]
    /\ \A b \in indexed : fails[b] = {} => IsOk(Parent[b])

\* Blocks that are ok but not stored.
Unstored == {b \in indexed \ persisted : fails[b] = {}}

\* The chain of b breaks a rule.
BreaksRule(b) == \E h \in 1 .. Height[b] : Ancestor[b][h] \in BadHeader \cup BadBody \cup BadTx

\* What the steps of a call rely on, beyond CallInv.
CallFacts ==
    /\ Unstored \subseteq (IF pc = "blame" THEN {cur} ELSE {})
    /\ pc \in {"mark_failed", "save_index", "blame"} =>
          cur \in Block /\ Parent[cur] \in indexed \cup {Genesis}
    /\ pc = "mark_failed" =>
          BreaksRule(cur) \/ ~IsOk(Parent[cur]) \/ ~ReorgAllowed(Parent[cur])
    /\ pc \in {"save_index", "blame"} =>
          IsOk(Parent[cur]) /\ culprit \in BadTx /\ IsAncestorOrSelf(culprit, cur)
    /\ pc = "blame" => cur \in indexed
    /\ pc = "mark_branch" => culprit \in indexed
    /\ pc = "activate" =>
          /\ minTrust = ChainTrust[best] + 1
          /\ \A c \in cands : c \in indexed /\ ChainTrust[c] \geq minTrust

\* An orphan whose parent is stored will be attempted in this call.
OrphanFacts ==
    /\ \A o \in orphans : /\ Parent[o] # Genesis
                          /\ Parent[o] \in persisted => Parent[o] \in pending
    /\ batch \subseteq pending
    /\ pc \in {"attempt", "mark_failed", "save_index", "blame"} =>
          IF first THEN pending = {} ELSE cur \in pending
    /\ pc = "orphans" => ~first
    /\ pc \in {"idle", "mark_branch", "collect", "activate"} => pending = {}

\* A stored chain that would be better than the main chain.
IsBetter(b) ==
    /\ b \in persisted /\ ChainIsOk(b) /\ ReorgAllowed(b)
    /\ ChainTrust[b] > ChainTrust[best]

\* There is none, but while a block is being invalidated or reset, and then a
\* candidate extends it.
BestFacts ==
    /\ pc \notin {"mark_branch", "collect", "activate"} => \A b \in persisted : ~IsBetter(b)
    /\ pc = "activate" =>
          \A b \in persisted : IsBetter(b) => \E c \in cands : IsAncestorOrSelf(b, c)
    /\ \E n \in Nat : \A b \in indexed : Height[b] \leq n

\* The inductive invariant.
CallsInv ==
    /\ ChainInv /\ IndexTree /\ CallFacts /\ OrphanFacts /\ BestFacts /\ GoodBlockNotBlamed

-----------------------------------------------------------------------------
(* The block tree                                                          *)

\* Every set of naturals has a least element.
LEMMA LeastNatural ==
    ASSUME NEW S, S \subseteq Nat, S # {}
    PROVE  \E m \in S : \A n \in S : m \leq n
<1> DEFINE R == OpToRel(<, Nat)
<1>1. IsWellFoundedOn(R, Nat)
  BY NatLessThanWellFounded
<1>2. \A x, y \in Nat : x < y => <<x, y>> \in R
  BY DEF OpToRel
<1> HIDE DEF R
<1>3. PICK m \in S : \A n \in S : ~(<<n, m>> \in R)
  BY <1>1, WFMin
<1>4. \A n \in S : ~(n < m)
  BY <1>2, <1>3, Zenon
<1>5. m \in Nat /\ S \subseteq Nat
  OBVIOUS
<1> QED
  BY <1>4, <1>5

\* A set of blocks that has the parents of its blocks has all their ancestors.
LEMMA AncestorsIn ==
    ASSUME NEW S, \A x \in S : x \in Block /\ Parent[x] \in S \cup {Genesis},
           NEW b \in S, NEW h \in 1 .. Height[b]
    PROVE  Ancestor[b][h] \in S
<1> DEFINE H == Height[b]
           T == {k \in Nat : k < H /\ Ancestor[b][H - k] \notin S}
<1>1. b \in GenBlock /\ H \in Nat /\ Ancestor[b][H] = b
  BY HeightType, AncestorAssumption
<1> SUFFICES ASSUME Ancestor[b][h] \notin S
             PROVE  FALSE
  OBVIOUS
<1>2. H - h \in T
  BY <1>1
<1>3. PICK k \in T : \A n \in T : k \leq n
  <2>1. T \subseteq Nat /\ T # {}
    BY <1>2
  <2> HIDE DEF T
  <2> QED
    BY <2>1, LeastNatural
<1>4. k \in Nat /\ k < H /\ Ancestor[b][H - k] \notin S
  OBVIOUS
<1>5. k # 0
  BY <1>1, <1>4
<1>6. k - 1 \in Nat /\ k - 1 < H /\ ~(k \leq k - 1)
  BY <1>1, <1>4, <1>5
<1>7. Ancestor[b][H - (k - 1)] \in S
  BY <1>3, <1>6
<1> DEFINE g == H - (k - 1)
<1>8. g \in 0 .. H /\ g > 0 /\ g - 1 = H - k /\ g - 1 > 0 /\ g - 1 \in 0 .. H
  BY <1>1, <1>4, <1>5
<1>9. Parent[Ancestor[b][g]] = Ancestor[b][g - 1]
  BY <1>1, <1>8, AncestorAssumption
<1>10. Ancestor[b][g - 1] \in Block
  BY <1>1, <1>8, AncestorType
<1> HIDE DEF g
<1>11. Ancestor[b][g - 1] # Genesis
  BY <1>10, TreeAssumption
<1> QED
  BY <1>4, <1>7, <1>8, <1>9, <1>11 DEF g

\* An ancestor does not have more trust.
LEMMA TrustGrows ==
    ASSUME NEW a \in GenBlock, NEW b \in GenBlock, IsAncestorOrSelf(a, b)
    PROVE  ChainTrust[a] \leq ChainTrust[b]
<1> DEFINE H == Height[a]
           T == {k \in Nat : H + k \leq Height[b] /\ ~(ChainTrust[a] \leq ChainTrust[Ancestor[b][H + k]])}
<1>1. /\ H \in Nat /\ Height[b] \in Nat /\ H \leq Height[b]
      /\ Ancestor[b][H] = a /\ Ancestor[b][Height[b]] = b
  BY HeightType, AncestorAssumption DEF IsAncestorOrSelf
<1>2. \A x \in GenBlock : ChainTrust[x] \in Nat
  BY TrustAssumption
<1> SUFFICES ASSUME ~(ChainTrust[a] \leq ChainTrust[b])
             PROVE  FALSE
  OBVIOUS
<1>3. Height[b] - H \in T
  <2>1. Height[b] - H \in Nat /\ H + (Height[b] - H) = Height[b]
    BY <1>1
  <2> QED
    BY <1>1, <2>1
<1>4. PICK k \in T : \A n \in T : k \leq n
  <2>1. T \subseteq Nat /\ T # {}
    BY <1>3
  <2> HIDE DEF T
  <2> QED
    BY <2>1, LeastNatural
<1>5. k \in Nat /\ H + k \leq Height[b] /\ ~(ChainTrust[a] \leq ChainTrust[Ancestor[b][H + k]])
  OBVIOUS
<1>6. k # 0
  BY <1>1, <1>2, <1>5
<1>7. k - 1 \in Nat /\ H + (k - 1) \leq Height[b] /\ ~(k \leq k - 1)
  BY <1>1, <1>5, <1>6
<1>8. ChainTrust[a] \leq ChainTrust[Ancestor[b][H + (k - 1)]]
  BY <1>4, <1>7
<1> DEFINE g == H + k
<1>9. g \in 0 .. Height[b] /\ g > 0 /\ g - 1 = H + (k - 1) /\ g - 1 \in 0 .. Height[b]
  BY <1>1, <1>5, <1>6
<1>10. Parent[Ancestor[b][g]] = Ancestor[b][g - 1] /\ Ancestor[b][g] \in Block
  BY <1>9, AncestorAssumption
<1>11. Ancestor[b][g] \in GenBlock /\ Ancestor[b][g - 1] \in GenBlock
  BY <1>9, AncestorType
<1> HIDE DEF g
<1>12. ChainTrust[Ancestor[b][g - 1]] < ChainTrust[Ancestor[b][g]]
  BY <1>10, TrustAssumption
<1>13. ChainTrust[a] \leq ChainTrust[Ancestor[b][g]]
  BY <1>2, <1>8, <1>9, <1>11, <1>12
<1> QED
  BY <1>5, <1>13 DEF g

\* A block is its own ancestor, and its parent's.
LEMMA AncestorSteps ==
    ASSUME NEW r \in GenBlock, NEW d \in Block
    PROVE  /\ IsAncestorOrSelf(d, d)
           /\ Parent[d] # d
           /\ IsAncestorOrSelf(r, Parent[d]) => IsAncestorOrSelf(r, d)
           /\ IsAncestorOrSelf(r, d) /\ r # d => IsAncestorOrSelf(r, Parent[d])
<1>1. /\ d \in GenBlock /\ Parent[d] \in GenBlock /\ Height[d] \in Nat /\ Height[r] \in Nat
      /\ Height[d] = Height[Parent[d]] + 1 /\ Height[Parent[d]] \in Nat
      /\ Ancestor[d][Height[d]] = d
  BY HeightType, TreeAssumption, AncestorAssumption
<1>2. \A h \in 0 .. Height[Parent[d]] : Ancestor[Parent[d]][h] = Ancestor[d][h]
  BY AncestorOfParent
<1>3. IsAncestorOrSelf(d, d) /\ Parent[d] # d
  BY <1>1 DEF IsAncestorOrSelf
<1>4. IsAncestorOrSelf(r, Parent[d]) => IsAncestorOrSelf(r, d)
  BY <1>1, <1>2 DEF IsAncestorOrSelf
<1>5. IsAncestorOrSelf(r, d) /\ r # d => IsAncestorOrSelf(r, Parent[d])
  BY <1>1, <1>2 DEF IsAncestorOrSelf
<1> QED
  BY <1>3, <1>4, <1>5

\* Ancestors of ancestors, and ancestors of the same block.
LEMMA AncestorOrder ==
    ASSUME NEW a \in GenBlock, NEW b \in GenBlock, NEW c \in GenBlock, IsAncestorOrSelf(b, c)
    PROVE  /\ IsAncestorOrSelf(a, b) => IsAncestorOrSelf(a, c)
           /\ IsAncestorOrSelf(a, c) /\ Height[a] \leq Height[b] => IsAncestorOrSelf(a, b)
<1>1. /\ Height[a] \in Nat /\ Height[b] \in Nat /\ Height[c] \in Nat
      /\ Height[b] \leq Height[c] /\ Ancestor[c][Height[b]] = b
  BY HeightType DEF IsAncestorOrSelf
<1>2. \A k \in 0 .. Height[b] : Ancestor[b][k] = Ancestor[c][k]
  BY <1>1, AncestorOfAncestor
<1> QED
  BY <1>1, <1>2 DEF IsAncestorOrSelf

\* The ancestor at a height is an ancestor.
LEMMA AncestorIs ==
    ASSUME NEW b \in GenBlock, NEW h \in 0 .. Height[b]
    PROVE  IsAncestorOrSelf(Ancestor[b][h], b)
BY AncestorType, HeightType DEF IsAncestorOrSelf

-----------------------------------------------------------------------------
(* The index                                                               *)

\* The chains of indexed blocks are indexed, of stored blocks stored, and of ok
\* blocks ok.
LEMMA ChainsOfIndex ==
    ASSUME DatabaseType, IndexTree
    PROVE  /\ \A b \in indexed : ChainIndexed(b)
           /\ \A b \in persisted : \A h \in 1 .. Height[b] : Ancestor[b][h] \in persisted
<1>1. indexed \subseteq Block /\ persisted \subseteq Block
  BY DEF DatabaseType
<1>2. ASSUME NEW b \in indexed, NEW h \in 1 .. Height[b]
      PROVE  Ancestor[b][h] \in indexed
  BY <1>1, AncestorsIn DEF IndexTree
<1>3. ASSUME NEW b \in persisted, NEW h \in 1 .. Height[b]
      PROVE  Ancestor[b][h] \in persisted
  BY <1>1, AncestorsIn DEF IndexTree
<1> QED
  BY <1>2, <1>3 DEF ChainIndexed

\* The branch of r are the indexed descendants of r.
LEMMA BranchMeaning ==
    ASSUME DatabaseType, IndexTree, NEW r \in Block, NEW d \in Block
    PROVE  /\ d \in Branch(r) <=> d \in indexed /\ IsAncestorOrSelf(r, d)
           /\ d \in indexed /\ Parent[d] \in Branch(r) => d \in Branch(r)
           /\ d \in Branch(r) /\ d # r => Parent[d] \in Branch(r)
<1>1. Height[r] \in Nat /\ Height[r] \geq 1 /\ r \in GenBlock /\ d \in GenBlock /\ Height[d] \in Nat
  BY HeightType
<1>2. ASSUME NEW e \in indexed, IsAncestorOrSelf(r, e)
      PROVE  e \in Branch(r)
  <2>1. \A h \in 1 .. Height[e] : Ancestor[e][h] \in indexed
    BY ChainsOfIndex DEF ChainIndexed
  <2>2. Height[e] \in Nat
    BY HeightType DEF DatabaseType
  <2>3. \A h \in Height[r] .. Height[e] : h \in 1 .. Height[e]
    BY <1>1, <2>2
  <2> QED
    BY <1>2, <2>1, <2>3 DEF Branch
<1>3. \A e : e \in Branch(r) => e \in indexed /\ IsAncestorOrSelf(r, e)
  BY DEF Branch
<1>4. d \in indexed /\ Parent[d] \in Branch(r) => d \in Branch(r)
  BY <1>1, <1>2, <1>3, AncestorSteps
<1>5. ASSUME d \in Branch(r), d # r
      PROVE  Parent[d] \in Branch(r)
  <2>1. IsAncestorOrSelf(r, Parent[d])
    BY <1>1, <1>3, <1>5, AncestorSteps
  <2>2. Parent[d] # Genesis
    BY <1>1, <2>1, TreeAssumption DEF IsAncestorOrSelf
  <2>3. Parent[d] \in indexed
    BY <1>3, <1>5, <2>2 DEF IndexTree
  <2> QED
    BY <1>2, <2>1, <2>3
<1> QED
  BY <1>2, <1>3, <1>4, <1>5

\* A branch without its own root's ancestors: the root is not below itself.
LEMMA RootInBranch ==
    ASSUME DatabaseType, IndexTree, NEW r \in indexed
    PROVE  r \in Branch(r) /\ Parent[r] \notin Branch(r)
<1>1. r \in Block
  BY DEF DatabaseType
<1>2. r \in Branch(r)
  <2>1. IsAncestorOrSelf(r, r)
    BY <1>1, HeightType, AncestorSteps
  <2> QED
    BY <1>1, <2>1, BranchMeaning
<1>3. Height[r] = Height[Parent[r]] + 1 /\ Height[Parent[r]] \in Nat
  BY <1>1, TreeAssumption, HeightType
<1>4. Parent[r] \notin Branch(r)
  BY <1>3 DEF Branch, IsAncestorOrSelf
<1> QED
  BY <1>2, <1>4

\* IndexTree only depends on the index.
LEMMA TreeUnchanged ==
    ASSUME IndexTree, UNCHANGED <<indexed, stage, fails, persisted>>
    PROVE  IndexTree'
BY DEF IndexTree, LastValidStage, IsOk

\* A new block below an indexed one.
LEMMA NewBlockInTree ==
    ASSUME DatabaseType, IndexTree, NEW c \in Block, c \notin indexed,
           Parent[c] \in indexed \cup {Genesis},
           NEW s \in Unchecked .. FullyChecked, LastValidStage(Parent[c]) \geq s,
           NEW fl, fl = {} => IsOk(Parent[c]),
           indexed' = indexed \cup {c},
           stage' = [stage EXCEPT ![c] = s],
           fails' = [fails EXCEPT ![c] = fl],
           \/ persisted' = persisted
           \/ persisted' = persisted \cup {c} /\ Parent[c] \in persisted \cup {Genesis}
    PROVE  IndexTree'
<1>1. \A b \in indexed : b \in Block /\ b # c /\ Parent[b] # c
  BY TreeAssumption DEF DatabaseType, IndexTree
<1>2. Parent[c] # c /\ c # Genesis
  BY TreeAssumption
<1>3. /\ \A b \in Block : b # c => stage'[b] = stage[b] /\ fails'[b] = fails[b]
      /\ stage'[c] = s /\ fails'[c] = fl
  BY DEF DatabaseType
<1>4. \A b \in indexed : Parent[b] # Genesis => Parent[b] \in Block
  BY DEF IndexTree, DatabaseType
<1>5. Parent[c] # Genesis => Parent[c] \in Block
  BY DEF DatabaseType
<1>6. \A b \in indexed : Parent[b] \in indexed' \cup {Genesis}
  BY DEF IndexTree
<1>7. \A b \in persisted' : Parent[b] \in persisted' \cup {Genesis}
  BY DEF IndexTree
<1>8. \A b \in indexed' : LastValidStage(Parent[b])' \geq stage'[b]
  BY <1>1, <1>2, <1>3, <1>4, <1>5 DEF IndexTree, LastValidStage
<1>9. \A b \in indexed' : fails'[b] = {} => IsOk(Parent[b])'
  BY <1>1, <1>2, <1>3, <1>4, <1>5 DEF IndexTree, IsOk
<1> QED
  BY <1>6, <1>7, <1>8, <1>9 DEF IndexTree

\* Marking a branch.
LEMMA MarkedTree ==
    ASSUME DatabaseType, IndexTree, NEW r \in Block, NEW bit, MarkBranch(r, bit),
           UNCHANGED <<indexed, stage, persisted>>
    PROVE  /\ IndexTree'
           /\ \A d \in Block : d \in Branch(r) => fails'[d] # {}
           /\ \A d \in Block : fails[d] \subseteq fails'[d]
           /\ \A d \in Block : d \notin Branch(r) => fails'[d] = fails[d]
           /\ \A d \in Block : "failed" \in fails'[d] => "failed" \in fails[d] \/ (d = r /\ bit = "failed")
<1>1. fails' = [d \in Block |->
                 IF d \in Branch(r) THEN fails[d] \cup {IF d = r THEN bit ELSE "invalid_parent"}
                 ELSE fails[d]]
  BY DEF MarkBranch
<1>2. /\ \A d \in Block : d \in Branch(r) => fails'[d] # {}
      /\ \A d \in Block : fails[d] \subseteq fails'[d]
      /\ \A d \in Block : d \notin Branch(r) => fails'[d] = fails[d]
      /\ \A d \in Block : "failed" \in fails'[d] => "failed" \in fails[d] \/ (d = r /\ bit = "failed")
  BY <1>1
<1>3. ASSUME NEW b \in indexed, fails'[b] = {}
      PROVE  IsOk(Parent[b])'
  <2>1. b \in Block /\ b \notin Branch(r) /\ fails[b] = {}
    BY <1>2, <1>3 DEF DatabaseType
  <2>2. Parent[b] \notin Branch(r)
    BY <2>1, BranchMeaning
  <2>3. Parent[b] # Genesis => Parent[b] \in Block
    BY DEF IndexTree, DatabaseType
  <2> QED
    BY <1>2, <2>1, <2>2, <2>3 DEF IndexTree, IsOk
<1> QED
  BY <1>2, <1>3 DEF IndexTree, LastValidStage

\* Resetting the failures of a branch whose root has an ok parent.
LEMMA ResetTree ==
    ASSUME DatabaseType, IndexTree, NEW r \in indexed, IsOk(Parent[r]),
           indexed' = indexed \ (Branch(r) \ persisted),
           stage' = [d \in Block |-> IF d \in Branch(r) \ persisted THEN Unchecked ELSE stage[d]],
           fails' = [d \in Block |-> IF d \in Branch(r) THEN {} ELSE fails[d]],
           persisted' = persisted
    PROVE  IndexTree'
<1>1. /\ r \in Block /\ indexed \subseteq Block /\ persisted \subseteq indexed
      /\ stage \in [Block -> Unchecked .. FullyChecked]
  BY DEF DatabaseType
<1>2. ASSUME NEW b \in indexed'
      PROVE  Parent[b] \in indexed' \cup {Genesis}
  <2>1. b \in indexed /\ (b \in Branch(r) => b \in persisted) /\ b \in Block
    BY <1>1
  <2>2. Parent[b] \in indexed \cup {Genesis}
    BY <2>1 DEF IndexTree
  <2>3. ASSUME Parent[b] \in Branch(r)
        PROVE  Parent[b] \in persisted \cup {Genesis}
    BY <1>1, <2>1, <2>3, BranchMeaning DEF IndexTree
  <2> QED
    BY <2>2, <2>3
<1>3. ASSUME NEW b \in indexed'
      PROVE  LastValidStage(Parent[b])' \geq stage'[b]
  <2>1. b \in indexed /\ b \in Block /\ stage'[b] = stage[b]
    BY <1>1
  <2>2. CASE Parent[b] = Genesis
    BY <1>1, <2>1, <2>2 DEF LastValidStage, FullyChecked, Unchecked
  <2>3. CASE Parent[b] # Genesis
    <3>1. Parent[b] \in indexed' /\ Parent[b] \in Block
      BY <1>1, <1>2, <2>3
    <3>2. stage'[Parent[b]] = stage[Parent[b]]
      BY <3>1
    <3> QED
      BY <2>1, <2>3, <3>2 DEF IndexTree, LastValidStage
  <2> QED
    BY <2>2, <2>3
<1>4. ASSUME NEW b \in indexed', fails'[b] = {}
      PROVE  IsOk(Parent[b])'
  <2>1. b \in indexed /\ b \in Block
    BY <1>1
  <2>2. Parent[b] # Genesis => Parent[b] \in Block
    BY <1>1, <2>1 DEF IndexTree
  <2>3. \A d \in Block : fails[d] = {} => fails'[d] = {}
    OBVIOUS
  <2>4. IsOk(Parent[b]) => IsOk(Parent[b])'
    BY <2>2, <2>3 DEF IsOk
  <2>5. CASE b = r
    BY <2>4, <2>5
  <2>6. CASE b \in Branch(r) /\ b # r
    BY <1>1, <2>1, <2>2, <2>6, BranchMeaning DEF IsOk
  <2>7. CASE b \notin Branch(r)
    <3>1. fails[b] = {}
      BY <1>4, <2>1, <2>7
    <3> QED
      BY <2>1, <2>4, <3>1 DEF IndexTree
  <2> QED
    BY <2>5, <2>6, <2>7
<1> QED
  BY <1>2, <1>3, <1>4 DEF IndexTree

\* Connecting the chain of b keeps parents at least as valid as their children.
LEMMA ConnectedValid ==
    ASSUME DatabaseInv, NEW b \in Block, NEW f, IsForkHeight(b, f),
           NEW s \in [Block -> Unchecked .. FullyChecked],
           \A a \in indexed : s[a] = stage[a],
           NEW x \in Block,
           Parent[x] # Genesis => s[Parent[x]] \geq s[x]
    PROVE  Parent[x] # Genesis => Connected(s, b, f)[Parent[x]] \geq Connected(s, b, f)[x]
<1> SUFFICES ASSUME Parent[x] # Genesis
             PROVE  Connected(s, b, f)[Parent[x]] \geq Connected(s, b, f)[x]
  OBVIOUS
<1> DEFINE Con == Connected(s, b, f)
           New(a) == \E h \in (f + 1) .. Height[b] : a = Ancestor[b][h]
<1>1. /\ Parent[x] \in Block
      /\ \A a \in Block : Con[a] = IF New(a) THEN FullyChecked ELSE s[a]
  BY TreeAssumption DEF Connected, GenBlock
<1>2. /\ f \in Nat /\ f \leq Height[b] /\ Height[b] \in Nat /\ b \in GenBlock
      /\ Ancestor[b][f] = byHeight[f] /\ f \leq Height[best] /\ Height[best] \in Nat
  BY ForkAgrees, HeightType DEF DatabaseInv, DatabaseType
<1>3. CASE ~New(x)
  BY <1>1, <1>3 DEF Unchecked, FullyChecked
<1>4. CASE New(x)
  <2>1. PICK h \in (f + 1) .. Height[b] : x = Ancestor[b][h]
    BY <1>4
  <2>2. Parent[x] = Ancestor[b][h - 1] /\ h - 1 \in f .. Height[b]
    BY <1>2, <2>1, AncestorAssumption
  <2>3. CASE h - 1 = f
    <3>1. f # 0
      BY <1>2, <2>2, <2>3, AncestorAssumption
    <3>2. Parent[x] = byHeight[f] /\ f \in 1 .. Height[best]
      BY <1>2, <2>2, <2>3, <3>1
    <3>3. byHeight[f] \in indexed /\ IsFullyValid(byHeight[f])
      BY <3>2 DEF DatabaseInv, MainChainFullyValid
    <3>4. s[Parent[x]] = FullyChecked
      BY <1>1, <3>2, <3>3 DEF IsFullyValid, LastValidStage
    <3> QED
      BY <1>1, <1>4, <3>4 DEF FullyChecked
  <2>4. CASE h - 1 # f
    <3>1. New(Parent[x])
      BY <1>2, <2>1, <2>2, <2>4
    <3> QED
      BY <1>1, <1>4, <3>1 DEF FullyChecked
  <2> QED
    BY <2>3, <2>4
<1> QED
  BY <1>3, <1>4
-----------------------------------------------------------------------------
(* What later steps cannot undo                                            *)

\* The limit of reorgs and the main chain below it only grow: a chain that is not
\* admitted now will not be admitted later.
LEMMA ReorgAllowedBack ==
    ASSUME DatabaseInv, DatabaseInv', PrefixStep, NEW p \in GenBlock, ReorgAllowed(p)'
    PROVE  ReorgAllowed(p)
<1>1. PICK h \in 0 .. Height[p] :
        h \geq minReorg' /\ h \leq Height[best'] /\ Ancestor[p][h] = Ancestor[best'][h]
  BY DEF ReorgAllowed
<1>2. /\ best \in GenBlock /\ best' \in GenBlock /\ Height[best] \in Nat /\ Height[best'] \in Nat
      /\ Height[p] \in Nat /\ minReorg \in Nat /\ minReorg' \in Nat
      /\ minReorg \leq Height[best] /\ minReorg \leq minReorg'
  BY HeightType DEF DatabaseInv, DatabaseType, ReorgLimitBelowTip, PrefixStep
<1>3. /\ minReorg \in 0 .. h /\ minReorg \in 0 .. Height[p] /\ minReorg \in 0 .. Height[best]
      /\ h \in 0 .. Height[best'] /\ minReorg \in 0 .. Height[best']
  BY <1>1, <1>2
<1>4. Ancestor[p][minReorg] = Ancestor[best'][minReorg]
  <2>1. Ancestor[Ancestor[p][h]][minReorg] = Ancestor[p][minReorg]
    BY <1>3, AncestorOfAncestor
  <2>2. Ancestor[Ancestor[best'][h]][minReorg] = Ancestor[best'][minReorg]
    BY <1>2, <1>3, AncestorOfAncestor
  <2> QED
    BY <1>1, <2>1, <2>2
<1>5. byHeight'[minReorg] = Ancestor[best'][minReorg]
  BY <1>3 DEF DatabaseInv, MainChainLinked
<1>6. byHeight[minReorg] = Ancestor[best][minReorg]
  BY <1>3 DEF DatabaseInv, MainChainLinked
<1>7. byHeight'[minReorg] = byHeight[minReorg]
  BY <1>2 DEF PrefixStep
<1> QED
  BY <1>2, <1>3, <1>4, <1>5, <1>6, <1>7 DEF ReorgAllowed

\* No block becomes blamed for nothing, and the excuse of the others stays.
LEMMA GoodKeeps ==
    ASSUME DatabaseInv, DatabaseInv', PrefixStep, GoodBlockNotBlamed,
           \A b \in indexed' : "failed" \in fails'[b] =>
               \/ BreaksRule(b)
               \/ /\ b \in indexed /\ "failed" \in fails[b]
                  /\ b \in persisted' => b \in persisted
                  /\ IsOk(Parent[b])' => IsOk(Parent[b])
               \/ b \notin persisted' /\ (~IsOk(Parent[b])' \/ ~ReorgAllowed(Parent[b]))
    PROVE  GoodBlockNotBlamed'
<1> SUFFICES ASSUME NEW b \in indexed', "failed" \in fails'[b], ~BreaksRule(b)
             PROVE  b \notin persisted' /\ (~IsOk(Parent[b])' \/ ~ReorgAllowed(Parent[b])')
  BY DEF GoodBlockNotBlamed, BreaksRule
<1>1. b \in Block /\ Parent[b] \in GenBlock
  BY TreeAssumption DEF DatabaseInv, DatabaseType
<1>2. ReorgAllowed(Parent[b])' => ReorgAllowed(Parent[b])
  BY <1>1, ReorgAllowedBack
<1>3. CASE b \notin persisted' /\ (~IsOk(Parent[b])' \/ ~ReorgAllowed(Parent[b]))
  BY <1>2, <1>3
<1>4. CASE /\ b \in indexed /\ "failed" \in fails[b]
           /\ b \in persisted' => b \in persisted
           /\ IsOk(Parent[b])' => IsOk(Parent[b])
  <2>1. b \notin persisted /\ (~IsOk(Parent[b]) \/ ~ReorgAllowed(Parent[b]))
    BY <1>4 DEF GoodBlockNotBlamed, BreaksRule
  <2> QED
    BY <1>2, <1>4, <2>1
<1> QED
  BY <1>3, <1>4

\* What was not better than the main chain does not become better, as long as
\* failures are not reset and the tip does not lose trust.
LEMMA BetterBack ==
    ASSUME DatabaseInv, DatabaseInv', PrefixStep, IndexTree,
           ChainTrust[best] \leq ChainTrust[best'],
           \A a \in persisted : fails'[a] = {} => fails[a] = {},
           NEW b \in persisted, IsBetter(b)'
    PROVE  IsBetter(b)
<1>1. b \in Block /\ b \in GenBlock /\ best \in GenBlock /\ best' \in GenBlock
  BY HeightType DEF DatabaseInv, DatabaseType
<1>2. ReorgAllowed(b)
  BY <1>1, ReorgAllowedBack DEF IsBetter
<1>3. ChainTrust[b] > ChainTrust[best]
  BY <1>1, TrustAssumption DEF IsBetter
<1>4. \A h \in 1 .. Height[b] : Ancestor[b][h] \in persisted
  BY ChainsOfIndex DEF DatabaseInv
<1>5. ChainIsOk(b)
  BY <1>4 DEF IsBetter, ChainIsOk, IsOk
<1> QED
  BY <1>2, <1>3, <1>5 DEF IsBetter

\* Between the steps that choose a chain nothing becomes better.
LEMMA BestKeeps ==
    ASSUME DatabaseInv, DatabaseInv', PrefixStep, IndexTree, BestFacts,
           pc \notin {"mark_branch", "collect", "activate"},
           pc' \notin {"mark_branch", "collect", "activate"},
           ChainTrust[best] \leq ChainTrust[best'],
           \A a \in persisted : fails'[a] = {} => fails[a] = {},
           \A b \in persisted' : b \in persisted \/ ChainTrust[b] \leq ChainTrust[best'],
           NEW x \in Block, indexed' \subseteq indexed \cup {x}
    PROVE  BestFacts'
<1>1. \A b \in persisted' : ~IsBetter(b)'
  <2> SUFFICES ASSUME NEW b \in persisted', IsBetter(b)'
               PROVE  FALSE
    OBVIOUS
  <2>1. b \in Block /\ b \in GenBlock /\ best' \in GenBlock
    BY HeightType DEF DatabaseInv, DatabaseType
  <2>2. b \in persisted
    BY <2>1, TrustAssumption DEF IsBetter
  <2>3. IsBetter(b)
    BY <2>2, BetterBack
  <2> QED
    BY <2>2, <2>3 DEF BestFacts
<1>2. \E n \in Nat : \A b \in indexed' : Height[b] \leq n
  <2>1. PICK n \in Nat : \A b \in indexed : Height[b] \leq n
    BY DEF BestFacts
  <2>2. Height[x] \in Nat /\ \A b \in indexed : Height[b] \in Nat
    BY HeightType DEF DatabaseInv, DatabaseType
  <2>3. n + Height[x] \in Nat /\ \A b \in indexed' : Height[b] \leq n + Height[x]
    BY <2>1, <2>2
  <2> QED
    BY <2>3
<1> QED
  BY <1>1, <1>2 DEF BestFacts

\* A step that leaves the database alone.
LEMMA DatabaseSame ==
    ASSUME IndexTree, GoodBlockNotBlamed, UNCHANGED database
    PROVE  /\ IndexTree' /\ GoodBlockNotBlamed' /\ Unstored' = Unstored
           /\ \A b : IsBetter(b)' <=> IsBetter(b)
           /\ \A b : IsOk(b)' <=> IsOk(b)
           /\ \A b : ReorgAllowed(b)' <=> ReorgAllowed(b)
           /\ UNCHANGED <<indexed, stage, fails, persisted, blockMap, best, byHeight, minReorg>>
<1>1. UNCHANGED <<indexed, stage, fails, persisted, blockMap, best, byHeight, minReorg>>
  BY DEF database, index, status, chain
<1>2. /\ \A b : IsOk(b)' <=> IsOk(b)
      /\ \A b : ReorgAllowed(b)' <=> ReorgAllowed(b)
  BY <1>1 DEF IsOk, ReorgAllowed
<1>3. \A b : IsBetter(b)' <=> IsBetter(b)
  BY <1>1, <1>2 DEF IsBetter, ChainIsOk
<1>4. IndexTree'
  BY <1>1, TreeUnchanged
<1>5. GoodBlockNotBlamed'
  BY <1>1, <1>2 DEF GoodBlockNotBlamed
<1>6. Unstored' = Unstored
  BY <1>1 DEF Unstored
<1> QED
  BY <1>1, <1>2, <1>3, <1>4, <1>5, <1>6

\* Such a step, when no chain is being chosen.
LEMMA BestSame ==
    ASSUME IndexTree, GoodBlockNotBlamed, UNCHANGED database, BestFacts,
           pc \notin {"mark_branch", "collect", "activate"},
           pc' \notin {"mark_branch", "collect", "activate"}
    PROVE  BestFacts'
BY DatabaseSame DEF BestFacts

-----------------------------------------------------------------------------
(* The control state                                                       *)

\* Between attempts and calls, and before the candidates are collected.
LEMMA SettledCall ==
    ASSUME Unstored' = {}, pc' \in {"idle", "orphans", "collect", "attempt"}
    PROVE  CallFacts'
BY DEF CallFacts

\* An attempt fails.
LEMMA FailedAttempt ==
    ASSUME OrphanFacts, pc \in {"attempt", "mark_failed", "save_index", "blame"},
           AttemptFails, persisted' = persisted,
           \A o \in orphans' : o \in orphans \/ (Parent[o] # Genesis /\ Parent[o] \notin persisted)
    PROVE  OrphanFacts' /\ pc' \in {"idle", "orphans"}
<1>1. CASE first /\ Idle
  BY <1>1 DEF OrphanFacts, Idle
<1>2. CASE ~first /\ ~(first /\ Idle)
  BY <1>2 DEF OrphanFacts, AttemptFails, orphanJob
<1> QED
  BY <1>1, <1>2 DEF AttemptFails

\* An attempt succeeds: the block has been stored.
LEMMA SucceededAttempt ==
    ASSUME OrphanFacts, pc = "attempt", NEW r, AttemptSucceeds(r),
           persisted' = persisted \cup {cur}, orphans' = orphans
    PROVE  OrphanFacts' /\ pc' = "orphans"
<1>1. CASE first
  BY <1>1 DEF OrphanFacts, AttemptSucceeds
<1>2. CASE ~first
  BY <1>2 DEF OrphanFacts, AttemptSucceeds
<1> QED
  BY <1>1, <1>2

\* A step of an invalidation or of a reset.
LEMMA InvalidationOrphans ==
    ASSUME OrphanFacts, pc \in {"idle", "mark_branch", "collect", "activate"},
           pc' \in {"idle", "mark_branch", "collect", "activate"},
           Idle \/ UNCHANGED orphanJob,
           persisted' = persisted, orphans' \subseteq orphans
    PROVE  OrphanFacts'
<1>1. pending = {} /\ batch = {}
  BY DEF OrphanFacts
<1>2. pending' = {} /\ batch' = {}
  BY <1>1 DEF Idle, orphanJob
<1> QED
  BY <1>1, <1>2 DEF OrphanFacts

-----------------------------------------------------------------------------
(* The steps of process_block                                              *)

\* The parent of a block that is integrated is indexed, and stored if it is ok.
LEMMA ParentIndexed ==
    ASSUME CallsInv, Integrating
    PROVE  /\ cur \in Block /\ cur \notin indexed
           /\ Parent[cur] \in GenBlock /\ Parent[cur] # cur
           /\ Parent[cur] \in indexed \cup {Genesis}
           /\ IsOk(Parent[cur]) => Parent[cur] \in persisted \cup {Genesis}
           /\ Unstored = {}
<1>1. cur \in Block /\ cur \notin indexed /\ pc = "attempt"
  BY DEF CallsInv, ChainInv, CallInv, Integrating
<1>2. /\ Parent[cur] \in GenBlock /\ Height[Parent[cur]] \in Nat
      /\ Parent[cur] # Genesis => Height[Parent[cur]] \geq 1
      /\ Ancestor[Parent[cur]][Height[Parent[cur]]] = Parent[cur]
      /\ Height[cur] = Height[Parent[cur]] + 1
  BY <1>1, TreeAssumption, HeightType, AncestorAssumption DEF GenBlock
<1>3. Parent[cur] \in indexed \cup {Genesis}
  BY <1>2 DEF Integrating, ChainIndexed
<1>4. Unstored = {}
  BY <1>1 DEF CallsInv, CallFacts
<1>5. IsOk(Parent[cur]) => Parent[cur] \in persisted \cup {Genesis}
  BY <1>3, <1>4 DEF IsOk, Unstored
<1> QED
  BY <1>1, <1>2, <1>3, <1>4, <1>5

\* A block that check_block blames breaks a rule, or its parent is not ok or is
\* out of reach.
LEMMA BlamedForReason ==
    ASSUME NEW b \in Block, NEW early, CheckBlames(b, early)
    PROVE  BreaksRule(b) \/ ~IsOk(Parent[b]) \/ ~ReorgAllowed(Parent[b])
<1>1. /\ Height[b] \in Nat /\ Height[b] \geq 1 /\ Ancestor[b][Height[b]] = b
      /\ Height[Parent[b]] \in Nat /\ Height[b] = Height[Parent[b]] + 1
  BY HeightType, TreeAssumption, AncestorAssumption
<1>2. b \in BadHeader \cup BadBody => BreaksRule(b)
  BY <1>1 DEF BreaksRule
<1>3. ASSUME InMemoryReorgBad(b)
      PROVE  BreaksRule(b)
  <2>1. PICK f \in 0 .. Height[Parent[b]] :
          \E h \in (f + 1) .. Height[Parent[b]] : Ancestor[b][h] \in BadTx
    BY <1>3 DEF InMemoryReorgBad
  <2>2. PICK h \in (f + 1) .. Height[Parent[b]] : Ancestor[b][h] \in BadTx
    BY <2>1
  <2>3. h \in 1 .. Height[b]
    BY <1>1
  <2> QED
    BY <2>2, <2>3 DEF BreaksRule
<1> QED
  BY <1>2, <1>3 DEF CheckBlames

\* The attempts that do not change the database.
LEMMA AttemptWithoutCommit ==
    ASSUME CallsInv, AttemptOrphan \/ AttemptRejected \/ IntegrateCheckFails \/ IntegrateConnectFails
    PROVE  IndexTree' /\ CallFacts' /\ OrphanFacts' /\ BestFacts' /\ GoodBlockNotBlamed'
<1>1. UNCHANGED database /\ pc = "attempt"
  BY DEF AttemptOrphan, AttemptRejected, IntegrateCheckFails, IntegrateConnectFails, Integrating
<1>2. IndexTree /\ GoodBlockNotBlamed /\ BestFacts /\ CallFacts /\ OrphanFacts
  BY DEF CallsInv
<1>3. IndexTree' /\ GoodBlockNotBlamed' /\ Unstored' = Unstored /\ persisted' = persisted /\ Unstored = {}
  BY <1>1, <1>2, DatabaseSame DEF CallFacts
<1>4. ASSUME AttemptFails,
             \A o \in orphans' : o \in orphans \/ (Parent[o] # Genesis /\ Parent[o] \notin persisted)
      PROVE  CallFacts' /\ OrphanFacts' /\ BestFacts'
  <2>1. OrphanFacts' /\ pc' \in {"idle", "orphans"}
    BY <1>1, <1>2, <1>3, <1>4, FailedAttempt
  <2>2. CallFacts'
    BY <1>3, <2>1, SettledCall
  <2>3. BestFacts'
    BY <1>1, <1>2, <2>1, BestSame
  <2> QED
    BY <2>1, <2>2, <2>3
<1>5. ASSUME pc' \in {"mark_failed", "save_index"}, UNCHANGED <<orphans, first, cur, orphanJob>>
      PROVE  OrphanFacts' /\ BestFacts'
  <2>1. OrphanFacts'
    BY <1>1, <1>2, <1>3, <1>5 DEF OrphanFacts, orphanJob
  <2>2. BestFacts'
    BY <1>1, <1>2, <1>5, BestSame
  <2> QED
    BY <2>1, <2>2
<1>6. CASE AttemptOrphan
  <2>1. Parent[cur] # Genesis /\ Parent[cur] \notin persisted
    BY <1>6 DEF AttemptOrphan, IsIndexed, CallsInv, ChainInv, DatabaseInv, DatabaseType
  <2>2. \A o \in orphans' : o \in orphans \/ o = cur
    BY <1>6 DEF AttemptOrphan, AddOrphan
  <2> QED
    BY <1>3, <1>4, <1>6, <2>1, <2>2 DEF AttemptOrphan
<1>7. CASE AttemptRejected
  BY <1>3, <1>4, <1>7 DEF AttemptRejected, memory
<1>8. CASE IntegrateCheckFails
  <2>1. PICK early \in BOOLEAN :
          /\ Integrating
          /\ IF CheckBlames(cur, early)
             THEN /\ pc' = "mark_failed"
                  /\ UNCHANGED <<first, source, cur, culprit, orphanJob, search>>
             ELSE AttemptFails
          /\ orphans' = orphans
    BY <1>8 DEF IntegrateCheckFails, memory
  <2>2. CASE CheckBlames(cur, early)
    <3>1. cur \in Block /\ Parent[cur] \in indexed \cup {Genesis}
      BY <2>1, ParentIndexed
    <3>2. BreaksRule(cur) \/ ~IsOk(Parent[cur]) \/ ~ReorgAllowed(Parent[cur])
      BY <2>2, <3>1, BlamedForReason
    <3>3. BreaksRule(cur) \/ ~IsOk(Parent[cur])' \/ ~ReorgAllowed(Parent[cur])'
      BY <1>1, <1>2, <2>1, <2>2, <3>2, DatabaseSame
    <3>4. pc' = "mark_failed" /\ cur' = cur /\ indexed' = indexed
      BY <1>1, <1>2, <2>1, <2>2, DatabaseSame
    <3>5. CallFacts'
      BY <1>3, <3>1, <3>3, <3>4 DEF CallFacts, BreaksRule, IsOk, ReorgAllowed
    <3> QED
      BY <1>3, <1>5, <2>1, <2>2, <3>5
  <2>3. CASE ~CheckBlames(cur, early)
    BY <1>3, <1>4, <2>1, <2>3
  <2> QED
    BY <2>2, <2>3
<1>9. CASE IntegrateConnectFails
  <2>1. /\ Integrating /\ CheckPasses(cur, FALSE) /\ orphans' = orphans
        /\ \E h \in 1 .. Height[cur] :
             IF ConnectsBadly(Ancestor[cur][h], cur)
             THEN /\ pc' = "save_index" /\ culprit' = Ancestor[cur][h]
                  /\ UNCHANGED <<first, source, cur, orphanJob, search>>
             ELSE AttemptFails
    BY <1>9 DEF IntegrateConnectFails, memory
  <2>2. PICK h \in 1 .. Height[cur] :
             IF ConnectsBadly(Ancestor[cur][h], cur)
             THEN /\ pc' = "save_index" /\ culprit' = Ancestor[cur][h]
                  /\ UNCHANGED <<first, source, cur, orphanJob, search>>
             ELSE AttemptFails
    BY <2>1
  <2>3. CASE ConnectsBadly(Ancestor[cur][h], cur)
    <3>1. cur \in Block /\ Parent[cur] \in indexed \cup {Genesis} /\ IsOk(Parent[cur])
      BY <2>1, ParentIndexed DEF CheckPasses
    <3>2. h \in 0 .. Height[cur] /\ cur \in GenBlock
      BY <3>1, HeightType
    <3>3. Ancestor[cur][h] \in BadTx /\ IsAncestorOrSelf(Ancestor[cur][h], cur)
      BY <2>3, <3>2, AncestorIs DEF ConnectsBadly
    <3>4. /\ pc' = "save_index" /\ culprit' = Ancestor[cur][h] /\ cur' = cur
          /\ indexed' = indexed /\ fails' = fails
      BY <1>1, <1>2, <2>2, <2>3, DatabaseSame
    <3>5. CallFacts'
      BY <1>3, <3>1, <3>3, <3>4 DEF CallFacts, IsOk
    <3> QED
      BY <1>3, <1>5, <2>1, <2>2, <2>3, <3>5
  <2>4. CASE ~ConnectsBadly(Ancestor[cur][h], cur)
    BY <1>3, <1>4, <2>1, <2>2, <2>4
  <2> QED
    BY <2>3, <2>4
<1> QED
  BY <1>6, <1>7, <1>8, <1>9

\* Orphans are taken and attempted, and the call ends.
LEMMA OrphanSteps ==
    ASSUME CallsInv, TakeOrphans \/ AttemptNextOrphan \/ FinishProcessBlock
    PROVE  IndexTree' /\ CallFacts' /\ OrphanFacts' /\ BestFacts' /\ GoodBlockNotBlamed'
<1>1. UNCHANGED database /\ pc = "orphans" /\ pc' \in {"orphans", "attempt", "idle"}
  BY DEF TakeOrphans, AttemptNextOrphan, FinishProcessBlock, Idle
<1>2. IndexTree /\ GoodBlockNotBlamed /\ BestFacts /\ CallFacts /\ OrphanFacts
  BY DEF CallsInv
<1>3. IndexTree' /\ GoodBlockNotBlamed' /\ Unstored' = {} /\ persisted' = persisted
  BY <1>1, <1>2, DatabaseSame DEF CallFacts
<1>4. BestFacts' /\ CallFacts'
  BY <1>1, <1>2, <1>3, BestSame, SettledCall
<1>5. CASE TakeOrphans
  <2>1. PICK p \in pending :
          /\ batch' = OrphanChildren(p)
          /\ orphans' = orphans \ OrphanChildren(p)
          /\ pending' = (pending \ {p}) \cup OrphanChildren(p)
    BY <1>5 DEF TakeOrphans
  <2>2. pc' = "orphans" /\ first' = first /\ ~first
    BY <1>2, <1>5 DEF TakeOrphans, OrphanFacts
  <2>3. \A o \in orphans' : o \in orphans /\ Parent[o] # p
    BY <2>1 DEF OrphanChildren
  <2> QED
    BY <1>2, <1>3, <1>4, <2>1, <2>2, <2>3 DEF OrphanFacts
<1>6. CASE AttemptNextOrphan
  BY <1>2, <1>3, <1>4, <1>6 DEF AttemptNextOrphan, OrphanFacts, memory
<1>7. CASE FinishProcessBlock
  BY <1>2, <1>3, <1>4, <1>7 DEF FinishProcessBlock, OrphanFacts, Idle
<1> QED
  BY <1>5, <1>6, <1>7

\* A block has been checked and stored, and may have become the tip.
LEMMA SavedBlock ==
    ASSUME CallsInv, ChainInv', PrefixStep, Integrating, IsOk(Parent[cur]),
           SaveCheckedBlock(cur), NEW r, AttemptSucceeds(r), orphans' = orphans,
           ChainTrust[best] \leq ChainTrust[best'], ChainTrust[cur] \leq ChainTrust[best'],
           \A b \in indexed' : LastValidStage(Parent[b])' \geq stage'[b]
    PROVE  IndexTree' /\ CallFacts' /\ OrphanFacts' /\ BestFacts' /\ GoodBlockNotBlamed'
<1>1. /\ IndexTree /\ GoodBlockNotBlamed /\ BestFacts /\ OrphanFacts /\ pc = "attempt"
      /\ DatabaseInv /\ DatabaseInv' /\ indexed \subseteq Block /\ fails \in [Block -> SUBSET FailBit]
      /\ persisted \subseteq indexed
  BY DEF CallsInv, ChainInv, DatabaseInv, DatabaseType, Integrating
<1>2. /\ cur \in Block /\ cur \notin indexed /\ Parent[cur] # cur /\ cur # Genesis
      /\ Parent[cur] \in indexed \cup {Genesis} /\ Parent[cur] \in persisted \cup {Genesis}
      /\ Unstored = {}
  BY ParentIndexed, TreeAssumption
<1>3. /\ indexed' = indexed \cup {cur} /\ persisted' = persisted \cup {cur}
      /\ fails'[cur] = {} /\ \A b \in Block : b # cur => fails'[b] = fails[b]
  BY <1>1, <1>2 DEF SaveCheckedBlock
<1>4. \A b \in indexed : Parent[b] \in indexed \cup {Genesis} /\ Parent[b] # cur
  BY <1>1, <1>2 DEF IndexTree
<1>5. \A b \in indexed' : IsOk(Parent[b])' <=> IsOk(Parent[b])
  BY <1>1, <1>2, <1>3, <1>4 DEF IsOk
<1>6. IndexTree'
  <2>1. \A b \in indexed' : Parent[b] \in indexed' \cup {Genesis}
    BY <1>2, <1>3, <1>4
  <2>2. \A b \in persisted' : Parent[b] \in persisted' \cup {Genesis}
    BY <1>1, <1>2, <1>3 DEF IndexTree
  <2>3. \A b \in indexed' : fails'[b] = {} => IsOk(Parent[b])'
    BY <1>1, <1>2, <1>3, <1>5 DEF IndexTree
  <2> QED
    BY <2>1, <2>2, <2>3 DEF IndexTree
<1>7. Unstored' = {}
  BY <1>1, <1>2, <1>3 DEF Unstored
<1>8. OrphanFacts' /\ pc' = "orphans"
  BY <1>1, <1>3, SucceededAttempt
<1>9. CallFacts'
  BY <1>7, <1>8, SettledCall
<1>10. BestFacts'
  <2>1. \A a \in persisted : fails'[a] = {} => fails[a] = {}
    BY <1>1, <1>2, <1>3
  <2>2. \A b \in persisted' : b \in persisted \/ ChainTrust[b] \leq ChainTrust[best']
    BY <1>3
  <2> QED
    BY <1>1, <1>2, <1>3, <1>8, <2>1, <2>2, BestKeeps
<1>11. GoodBlockNotBlamed'
  <2>1. \A b \in indexed' : "failed" \in fails'[b] =>
           /\ b \in indexed /\ "failed" \in fails[b]
           /\ b \in persisted' => b \in persisted
           /\ IsOk(Parent[b])' => IsOk(Parent[b])
    BY <1>1, <1>3, <1>5
  <2> QED
    BY <1>1, <2>1, GoodKeeps
<1> QED
  BY <1>6, <1>8, <1>9, <1>10, <1>11

\* The two ways to store a block.
LEMMA IntegrateSteps ==
    ASSUME CallsInv, ChainInv', PrefixStep, IntegrateStale \/ IntegrateReorg
    PROVE  IndexTree' /\ CallFacts' /\ OrphanFacts' /\ BestFacts' /\ GoodBlockNotBlamed'
<1>1. /\ Integrating /\ IsOk(Parent[cur]) /\ SaveCheckedBlock(cur) /\ orphans' = orphans
      /\ AttemptSucceeds(FALSE) \/ AttemptSucceeds(TRUE)
  BY DEF IntegrateStale, IntegrateReorg, CheckPasses, memory
<1>2. /\ cur \in Block /\ cur \notin indexed /\ Parent[cur] # cur /\ Parent[cur] \in GenBlock
      /\ Parent[cur] \in indexed \cup {Genesis} /\ Parent[cur] \in persisted \cup {Genesis}
  BY <1>1, ParentIndexed
<1>3. /\ IndexTree /\ DatabaseInv /\ indexed \subseteq Block /\ indexed' = indexed \cup {cur}
      /\ persisted \subseteq indexed
      /\ stage \in [Block -> Unchecked .. FullyChecked] /\ best \in GenBlock /\ cur \in GenBlock
      /\ \A b \in persisted : stage[b] \geq CheckBlockOk
  BY <1>1, <1>2, HeightType DEF CallsInv, ChainInv, DatabaseInv, DatabaseType, SaveCheckedBlock,
                                StoredBlocksChecked
<1> DEFINE s == [stage EXCEPT ![cur] = CheckBlockOk]
<1>4. /\ s \in [Block -> Unchecked .. FullyChecked] /\ s[cur] = CheckBlockOk
      /\ \A a \in Block : a # cur => s[a] = stage[a]
  BY <1>2, <1>3 DEF Unchecked, CheckBlockOk, FullyChecked
<1> HIDE DEF s
<1>5. \A b \in indexed' : Parent[b] # Genesis => Parent[b] \in indexed /\ s[Parent[b]] \geq s[b]
  <2> SUFFICES ASSUME NEW b \in indexed', Parent[b] # Genesis
               PROVE  Parent[b] \in indexed /\ s[Parent[b]] \geq s[b]
    OBVIOUS
  <2>1. CASE b = cur
    <3>1. Parent[cur] \in persisted /\ Parent[cur] \in Block
      BY <1>2, <1>3, <2>1
    <3>2. s[Parent[cur]] = stage[Parent[cur]] /\ stage[Parent[cur]] \geq CheckBlockOk
      BY <1>2, <1>3, <1>4, <3>1
    <3> QED
      BY <1>2, <1>3, <1>4, <2>1, <3>1, <3>2
  <2>2. CASE b # cur
    <3>1. b \in indexed /\ Parent[b] \in indexed /\ stage[Parent[b]] \geq stage[b]
      BY <1>3, <2>2 DEF IndexTree, LastValidStage
    <3> QED
      BY <1>2, <1>3, <1>4, <3>1
  <2> QED
    BY <2>1, <2>2
<1>6. CASE IntegrateStale
  <2>1. stage' = s /\ best' = best /\ ChainTrust[cur] \leq ChainTrust[best]
    BY <1>6 DEF IntegrateStale, chain, s
  <2>2. \A b \in indexed' : LastValidStage(Parent[b])' \geq stage'[b]
    BY <1>2, <1>3, <1>4, <1>5, <2>1 DEF LastValidStage, FullyChecked, Unchecked
  <2>3. ChainTrust[best] \leq ChainTrust[best'] /\ ChainTrust[cur] \leq ChainTrust[best']
    BY <1>3, <2>1, TrustAssumption
  <2> QED
    BY <1>1, <2>2, <2>3, SavedBlock
<1>7. CASE IntegrateReorg
  <2>1. PICK f \in 0 .. Height[cur] : IsForkHeight(cur, f) /\ stage' = Connected(s, cur, f)
    BY <1>7 DEF IntegrateReorg, s
  <2>2. best' = cur /\ ChainTrust[cur] > ChainTrust[best]
    BY <1>7 DEF IntegrateReorg, Reorganize
  <2>3. \A b \in indexed' : LastValidStage(Parent[b])' \geq stage'[b]
    <3> SUFFICES ASSUME NEW b \in indexed'
                 PROVE  LastValidStage(Parent[b])' \geq stage'[b]
      OBVIOUS
    <3>1. b \in Block /\ stage' \in [Block -> Unchecked .. FullyChecked]
      BY <1>2, <1>3 DEF ChainInv, DatabaseInv, DatabaseType
    <3>2. CASE Parent[b] = Genesis
      BY <3>1, <3>2 DEF LastValidStage, FullyChecked, Unchecked
    <3>3. CASE Parent[b] # Genesis
      <4>1. s[Parent[b]] \geq s[b]
        BY <1>5, <3>3
      <4>2. \A a \in indexed : s[a] = stage[a]
        BY <1>2, <1>3, <1>4
      <4>3. Connected(s, cur, f)[Parent[b]] \geq Connected(s, cur, f)[b]
        BY <1>2, <1>3, <1>4, <2>1, <3>1, <3>3, <4>1, <4>2, ConnectedValid
      <4> QED
        BY <2>1, <3>3, <4>3 DEF LastValidStage
    <3> QED
      BY <3>2, <3>3
  <2>4. ChainTrust[best] \leq ChainTrust[best'] /\ ChainTrust[cur] \leq ChainTrust[best']
    BY <1>3, <2>2, TrustAssumption
  <2> QED
    BY <1>1, <2>3, <2>4, SavedBlock
<1> QED
  BY <1>6, <1>7

\* A block that was not stored gets an index: a failed one, or an ok one that the
\* next step marks.
LEMMA NewIndexSteps ==
    ASSUME CallsInv, ChainInv', PrefixStep, MarkNewBlockFailed \/ SaveNewBlockIndex
    PROVE  IndexTree' /\ CallFacts' /\ OrphanFacts' /\ BestFacts' /\ GoodBlockNotBlamed'
<1>1. /\ IndexTree /\ GoodBlockNotBlamed /\ BestFacts /\ OrphanFacts /\ CallFacts
      /\ DatabaseInv /\ DatabaseInv' /\ DatabaseType
      /\ indexed \subseteq Block /\ fails \in [Block -> SUBSET FailBit]
      /\ persisted \subseteq indexed /\ best \in GenBlock
      /\ pc \in {"mark_failed", "save_index"}
  BY DEF CallsInv, ChainInv, DatabaseInv, DatabaseType, MarkNewBlockFailed, SaveNewBlockIndex
<1>2. /\ cur \in Block /\ cur \notin indexed /\ Parent[cur] \in indexed \cup {Genesis}
      /\ Unstored = {} /\ Parent[cur] # cur /\ cur # Genesis
  BY <1>1, TreeAssumption DEF CallsInv, ChainInv, CallInv, CallFacts
<1>3. PICK fl \in {{}, {"failed"}} :
        /\ indexed' = indexed \cup {cur} /\ persisted' = persisted /\ best' = best
        /\ fails' = [fails EXCEPT ![cur] = fl]
        /\ orphans' = orphans
        /\ stage' = [stage EXCEPT ![cur] = IF fl = {} THEN CheckBlockOk ELSE Unchecked]
        /\ IF fl = {}
           THEN pc = "save_index" /\ pc' = "blame" /\ UNCHANGED <<first, cur, culprit, orphanJob>>
           ELSE pc = "mark_failed" /\ AttemptFails
  <2>1. {"failed"} # {}
    OBVIOUS
  <2>2. CASE MarkNewBlockFailed
    BY <2>1, <2>2 DEF MarkNewBlockFailed, chain, memory
  <2>3. CASE SaveNewBlockIndex
    BY <2>3 DEF SaveNewBlockIndex, chain, memory
  <2> QED
    BY <2>2, <2>3
<1>4. fails'[cur] = fl /\ \A b \in Block : b # cur => fails'[b] = fails[b]
  BY <1>1, <1>2, <1>3
<1>5. \A b \in indexed : Parent[b] \in indexed \cup {Genesis} /\ Parent[b] # cur
  BY <1>1, <1>2 DEF IndexTree
<1>6. \A b \in indexed' : IsOk(Parent[b])' <=> IsOk(Parent[b])
  BY <1>1, <1>2, <1>3, <1>4, <1>5 DEF IsOk
<1>7. IndexTree'
  <2> DEFINE s == IF fl = {} THEN CheckBlockOk ELSE Unchecked
  <2>1. fl = {} => IsOk(Parent[cur])
    BY <1>1, <1>3 DEF CallFacts
  <2>2. s \in Unchecked .. FullyChecked
    BY DEF Unchecked, CheckBlockOk, FullyChecked
  <2>3. Parent[cur] # Genesis =>
           /\ stage[Parent[cur]] \in Unchecked .. FullyChecked
           /\ fails[Parent[cur]] = {} => stage[Parent[cur]] \geq CheckBlockOk
    BY <1>1, <1>2 DEF DatabaseInv, DatabaseType, StoredBlocksChecked
  <2>4. LastValidStage(Parent[cur]) \geq s
    BY <2>1, <2>3 DEF LastValidStage, IsOk, Unchecked, CheckBlockOk, FullyChecked
  <2>5. stage' = [stage EXCEPT ![cur] = s]
    BY <1>3
  <2> HIDE DEF s
  <2> QED
    BY <1>1, <1>2, <1>3, <2>1, <2>2, <2>4, <2>5, NewBlockInTree
<1>8. Unstored' \subseteq {cur} /\ (fl # {} => Unstored' = {})
  BY <1>1, <1>2, <1>3, <1>4 DEF Unstored
<1>9. CallFacts' /\ OrphanFacts' /\ pc' \in {"idle", "orphans", "blame"}
  <2>1. CASE fl = {}
    <3>1. IsOk(Parent[cur])' /\ culprit \in BadTx /\ IsAncestorOrSelf(culprit, cur)
      BY <1>1, <1>3, <1>6, <2>1 DEF CallFacts
    <3>2. CallFacts'
      BY <1>2, <1>3, <1>8, <2>1, <3>1 DEF CallFacts, IsOk
    <3>3. OrphanFacts'
      BY <1>1, <1>3, <2>1 DEF OrphanFacts, orphanJob
    <3> QED
      BY <1>3, <2>1, <3>2, <3>3
  <2>2. CASE fl # {}
    <3>1. OrphanFacts' /\ pc' \in {"idle", "orphans"}
      BY <1>1, <1>3, <2>2, FailedAttempt
    <3> QED
      BY <1>8, <2>2, <3>1, SettledCall
  <2> QED
    BY <2>1, <2>2
<1>10. BestFacts'
  <2>1. \A a \in persisted : fails'[a] = {} => fails[a] = {}
    BY <1>1, <1>2, <1>4
  <2>2. ChainTrust[best] \leq ChainTrust[best']
    BY <1>1, <1>3, TrustAssumption
  <2> QED
    BY <1>1, <1>2, <1>3, <1>9, <2>1, <2>2, BestKeeps
<1>11. GoodBlockNotBlamed'
  <2>1. ASSUME NEW b \in indexed', "failed" \in fails'[b]
        PROVE  \/ BreaksRule(b)
               \/ /\ b \in indexed /\ "failed" \in fails[b]
                  /\ b \in persisted' => b \in persisted
                  /\ IsOk(Parent[b])' => IsOk(Parent[b])
               \/ b \notin persisted' /\ (~IsOk(Parent[b])' \/ ~ReorgAllowed(Parent[b]))
    <3>1. CASE b = cur
      <4>1. pc = "mark_failed"
        BY <1>3, <1>4, <2>1, <3>1
      <4>2. BreaksRule(cur) \/ ~IsOk(Parent[cur]) \/ ~ReorgAllowed(Parent[cur])
        BY <1>1, <4>1 DEF CallFacts
      <4> QED
        BY <1>1, <1>2, <1>3, <1>6, <3>1, <4>2
    <3>2. CASE b # cur
      BY <1>1, <1>3, <1>4, <1>6, <2>1, <3>2
    <3> QED
      BY <3>1, <3>2
  <2> QED
    BY <1>1, <2>1, GoodKeeps
<1> QED
  BY <1>7, <1>9, <1>10, <1>11

\* A branch is marked: as failed only if its root is bad.
LEMMA BranchMarked ==
    ASSUME CallsInv, DatabaseInv', PrefixStep, NEW r \in indexed, NEW bit, MarkBranch(r, bit),
           UNCHANGED <<indexed, stage, persisted>>, bit = "failed" => r \in BadTx
    PROVE  /\ IndexTree' /\ GoodBlockNotBlamed'
           /\ Unstored' \subseteq Unstored \ Branch(r)
           /\ \A a \in Block : fails[a] \subseteq fails'[a]
           /\ fails'[r] # {}
<1>1. /\ IndexTree /\ GoodBlockNotBlamed /\ DatabaseInv /\ DatabaseType
      /\ indexed \subseteq Block /\ r \in Block
  BY DEF CallsInv, ChainInv, DatabaseInv, DatabaseType
<1>2. /\ IndexTree'
      /\ \A d \in Block : d \in Branch(r) => fails'[d] # {}
      /\ \A d \in Block : fails[d] \subseteq fails'[d]
      /\ \A d \in Block : "failed" \in fails'[d] => "failed" \in fails[d] \/ (d = r /\ bit = "failed")
  BY <1>1, MarkedTree
<1>3. r \in Branch(r)
  BY <1>1, RootInBranch
<1>4. r \in BadTx => BreaksRule(r)
  BY <1>1, HeightType, AncestorAssumption DEF BreaksRule
<1>5. Unstored' \subseteq Unstored \ Branch(r)
  BY <1>1, <1>2 DEF Unstored
<1>6. \A b \in indexed' : IsOk(Parent[b])' => IsOk(Parent[b])
  <2>1. \A b \in indexed : Parent[b] # Genesis => Parent[b] \in Block
    BY <1>1 DEF IndexTree
  <2> QED
    BY <1>2, <2>1 DEF IsOk
<1>7. \A b \in indexed' : "failed" \in fails'[b] =>
         \/ BreaksRule(b)
         \/ /\ b \in indexed /\ "failed" \in fails[b]
            /\ b \in persisted' => b \in persisted
            /\ IsOk(Parent[b])' => IsOk(Parent[b])
  BY <1>1, <1>2, <1>4, <1>6
<1>8. GoodBlockNotBlamed'
  BY <1>1, <1>7, GoodKeeps
<1> QED
  BY <1>1, <1>2, <1>3, <1>5, <1>8

\* The culprit is marked: it is an ancestor of the block whose index has just
\* been saved.
LEMMA BlameStep ==
    ASSUME CallsInv, ChainInv', PrefixStep, BlameCulprit
    PROVE  IndexTree' /\ CallFacts' /\ OrphanFacts' /\ BestFacts' /\ GoodBlockNotBlamed'
<1>1. /\ IndexTree /\ BestFacts /\ OrphanFacts /\ CallFacts /\ pc = "blame"
      /\ DatabaseInv /\ DatabaseInv' /\ DatabaseType /\ indexed \subseteq Block
      /\ persisted \subseteq indexed /\ best \in GenBlock
  BY DEF CallsInv, ChainInv, DatabaseInv, DatabaseType, BlameCulprit
<1>2. /\ cur \in indexed /\ cur \in Block /\ culprit \in BadTx /\ culprit \in Block
      /\ IsAncestorOrSelf(culprit, cur) /\ Unstored \subseteq {cur}
  BY <1>1, ChainstateAssumption DEF CallFacts
<1>3. culprit \in indexed
  <2>1. Height[culprit] \in 1 .. Height[cur] /\ Ancestor[cur][Height[culprit]] = culprit
    BY <1>2, HeightType DEF IsAncestorOrSelf
  <2> QED
    BY <1>1, <1>2, <2>1, ChainsOfIndex DEF ChainIndexed
<1>4. cur \in Branch(culprit)
  BY <1>1, <1>2, BranchMeaning
<1>5. /\ MarkBranch(culprit, "failed") /\ orphans' \subseteq orphans /\ AttemptFails
      /\ UNCHANGED <<indexed, stage, persisted>> /\ best' = best
  BY <1>3 DEF BlameCulprit, RemoveOrphansOf, chain
<1>6. /\ IndexTree' /\ GoodBlockNotBlamed'
      /\ Unstored' \subseteq Unstored \ Branch(culprit)
      /\ \A a \in Block : fails[a] \subseteq fails'[a]
  BY <1>1, <1>2, <1>3, <1>5, BranchMarked
<1>7. Unstored' = {}
  BY <1>2, <1>4, <1>6
<1>8. OrphanFacts' /\ pc' \in {"idle", "orphans"}
  BY <1>1, <1>5, FailedAttempt
<1>9. CallFacts'
  BY <1>7, <1>8, SettledCall
<1>10. BestFacts'
  <2>1. \A a \in persisted : fails'[a] = {} => fails[a] = {}
    BY <1>1, <1>6
  <2>2. ChainTrust[best] \leq ChainTrust[best']
    BY <1>1, <1>5, TrustAssumption
  <2>3. \A b \in persisted' : b \in persisted
    BY <1>5
  <2>4. indexed' \subseteq indexed \cup {cur}
    BY <1>5
  <2> QED
    BY <1>1, <1>2, <1>8, <2>1, <2>2, <2>3, <2>4, BestKeeps
<1> QED
  BY <1>6, <1>8, <1>9, <1>10

-----------------------------------------------------------------------------
(* The calls, invalidation and reset                                       *)

\* The first step of a call.
LEMMA CallSteps ==
    ASSUME CallsInv, ChainInv', PrefixStep, Undisturbed, Call
    PROVE  IndexTree' /\ CallFacts' /\ OrphanFacts' /\ BestFacts' /\ GoodBlockNotBlamed'
<1>1. /\ IndexTree /\ GoodBlockNotBlamed /\ BestFacts /\ OrphanFacts /\ CallFacts
      /\ DatabaseInv /\ DatabaseInv' /\ DatabaseType /\ indexed \subseteq Block
      /\ persisted \subseteq indexed /\ best \in GenBlock
  BY DEF CallsInv, ChainInv, DatabaseInv, DatabaseType
<1>2. PICK b \in Block :
        \/ \E src \in {"local", "peer"} : ProcessBlock(b, src)
        \/ InvalidateStaleBlock(b)
        \/ InvalidateMainChainBlock(b)
        \/ ResetBlockFailureFlags(b)
  BY DEF Call
<1>3. pc = "idle" /\ Unstored = {}
  <2>1. pc = "idle"
    BY <1>2 DEF ProcessBlock, InvalidateStaleBlock, InvalidateMainChainBlock, ResetBlockFailureFlags
  <2> QED
    BY <1>1, <2>1 DEF CallFacts
<1>4. CASE \E src \in {"local", "peer"} : ProcessBlock(b, src)
  <2>1. /\ UNCHANGED database /\ pc' = "attempt" /\ first' = TRUE
        /\ UNCHANGED <<orphans, pending, batch>>
    BY <1>4 DEF ProcessBlock, memory, orphanJob
  <2>2. IndexTree' /\ GoodBlockNotBlamed' /\ Unstored' = {} /\ persisted' = persisted
    BY <1>1, <1>3, <2>1, DatabaseSame
  <2>3. BestFacts'
    BY <1>1, <1>3, <2>1, BestSame
  <2>4. CallFacts'
    BY <2>1, <2>2, SettledCall
  <2>5. OrphanFacts'
    BY <1>1, <1>3, <2>1, <2>2 DEF OrphanFacts
  <2> QED
    BY <2>2, <2>3, <2>4, <2>5
<1>5. CASE InvalidateStaleBlock(b)
  <2>1. /\ MarkBranch(b, "explicit") /\ orphans' \subseteq orphans /\ b \in indexed
        /\ UNCHANGED <<indexed, stage, persisted>> /\ best' = best
        /\ pc' = "idle" /\ UNCHANGED orphanJob
    BY <1>5 DEF InvalidateStaleBlock, RemoveOrphansOf, chain
  <2>2. /\ IndexTree' /\ GoodBlockNotBlamed'
        /\ Unstored' \subseteq Unstored \ Branch(b)
        /\ \A a \in Block : fails[a] \subseteq fails'[a]
    BY <1>1, <2>1, BranchMarked
  <2>3. Unstored' = {}
    BY <1>3, <2>2
  <2>4. CallFacts'
    BY <2>1, <2>3, SettledCall
  <2>5. OrphanFacts'
    BY <1>1, <1>3, <2>1, InvalidationOrphans
  <2>6. BestFacts'
    <3>1. \A a \in persisted : fails'[a] = {} => fails[a] = {}
      BY <1>1, <2>2
    <3>2. ChainTrust[best] \leq ChainTrust[best']
      BY <1>1, <2>1, TrustAssumption
    <3>3. \A d \in persisted' : d \in persisted
      BY <2>1
    <3>4. indexed' \subseteq indexed \cup {b}
      BY <2>1
    <3> QED
      BY <1>1, <1>3, <2>1, <3>1, <3>2, <3>3, <3>4, BestKeeps
  <2> QED
    BY <2>2, <2>4, <2>5, <2>6
<1>6. CASE InvalidateMainChainBlock(b)
  <2>1. /\ b \in indexed /\ UNCHANGED <<indexed, stage, fails, persisted, orphans>>
        /\ pc' = "mark_branch" /\ culprit' = b /\ UNCHANGED orphanJob
    BY <1>6 DEF InvalidateMainChainBlock, index, status, memory
  <2>2. IndexTree' /\ Unstored' = {}
    BY <1>1, <1>3, <2>1, TreeUnchanged DEF Unstored
  <2>3. CallFacts'
    BY <2>1, <2>2 DEF CallFacts
  <2>4. OrphanFacts'
    BY <1>1, <1>3, <2>1, InvalidationOrphans
  <2>5. BestFacts'
    BY <1>1, <2>1 DEF BestFacts
  <2>6. GoodBlockNotBlamed'
    <3>1. \A d \in indexed' : "failed" \in fails'[d] =>
             /\ d \in indexed /\ "failed" \in fails[d]
             /\ d \in persisted' => d \in persisted
             /\ IsOk(Parent[d])' => IsOk(Parent[d])
      BY <2>1 DEF IsOk
    <3> QED
      BY <1>1, <3>1, GoodKeeps
  <2> QED
    BY <2>2, <2>3, <2>4, <2>5, <2>6
<1>7. CASE ResetBlockFailureFlags(b)
  <2>1. /\ b \in indexed /\ IsOk(Parent[b])
        /\ indexed' = indexed \ (Branch(b) \ persisted)
        /\ stage' = [d \in Block |-> IF d \in Branch(b) \ persisted THEN Unchecked ELSE stage[d]]
        /\ fails' = [d \in Block |-> IF d \in Branch(b) THEN {} ELSE fails[d]]
        /\ persisted' = persisted /\ orphans' = orphans /\ pc' = "collect" /\ UNCHANGED orphanJob
    BY <1>7 DEF ResetBlockFailureFlags, Undisturbed, memory
  <2>2. IndexTree'
    BY <1>1, <2>1, ResetTree
  <2>3. Unstored' = {}
    <3>1. \A d \in indexed' \ persisted : d \in indexed /\ d \in Block /\ d \notin Branch(b)
      BY <1>1, <2>1
    <3> QED
      BY <1>3, <2>1, <3>1 DEF Unstored
  <2>4. CallFacts'
    BY <2>1, <2>3, SettledCall
  <2>5. OrphanFacts'
    BY <1>1, <1>3, <2>1, InvalidationOrphans
  <2>6. BestFacts'
    BY <1>1, <2>1 DEF BestFacts
  <2>7. GoodBlockNotBlamed'
    <3>1. ASSUME NEW d \in indexed', "failed" \in fails'[d]
          PROVE  /\ d \in indexed /\ "failed" \in fails[d]
                 /\ d \in persisted' => d \in persisted
                 /\ IsOk(Parent[d])' => IsOk(Parent[d])
      <4>1. d \in indexed /\ d \in Block
        BY <1>1, <2>1
      <4>2. d \notin Branch(b) /\ fails'[d] = fails[d]
        BY <2>1, <3>1, <4>1
      <4>3. Parent[d] \notin Branch(b)
        BY <1>1, <4>1, <4>2, BranchMeaning
      <4>4. Parent[d] # Genesis => Parent[d] \in Block
        BY <1>1, <4>1 DEF IndexTree
      <4> QED
        BY <2>1, <3>1, <4>1, <4>2, <4>3, <4>4 DEF IsOk
    <3> QED
      BY <1>1, <3>1, GoodKeeps
  <2> QED
    BY <2>2, <2>4, <2>5, <2>6, <2>7
<1> QED
  BY <1>2, <1>4, <1>5, <1>6, <1>7

\* A better chain has a candidate above it.
LEMMA BetterHasCandidate ==
    ASSUME CallsInv, NEW b \in persisted, IsBetter(b)
    PROVE  \E c \in BestChainCandidates(ChainTrust[best] + 1) : IsAncestorOrSelf(b, c)
<1> DEFINE min == ChainTrust[best] + 1
           Eligible(e) == IsOk(e) /\ ChainTrust[e] \geq min /\ Height[e] \geq minReorg
<1>1. /\ IndexTree /\ DatabaseType /\ indexed \subseteq Block /\ persisted \subseteq indexed
      /\ best \in GenBlock /\ minReorg \in Nat /\ b \in indexed /\ b \in Block /\ b \in GenBlock
      /\ Height[b] \in Nat /\ Height[b] \geq 1 /\ Ancestor[b][Height[b]] = b
      /\ ChainTrust[best] \in Nat /\ ChainTrust[b] \in Nat
  BY HeightType, AncestorAssumption, TrustAssumption DEF CallsInv, ChainInv, DatabaseInv, DatabaseType
<1>2. PICK n \in Nat : \A e \in indexed : Height[e] \leq n
  BY DEF CallsInv, BestFacts
<1>3. PICK h \in 0 .. Height[b] :
        h \geq minReorg /\ h \leq Height[best] /\ Ancestor[b][h] = Ancestor[best][h]
  BY DEF IsBetter, ReorgAllowed
<1>4. Eligible(b) /\ IsAncestorOrSelf(b, b)
  <2>1. IsOk(b)
    BY <1>1 DEF IsBetter, ChainIsOk
  <2>2. ChainTrust[b] \geq min
    BY <1>1 DEF IsBetter
  <2>3. Height[b] \geq minReorg
    BY <1>1, <1>3
  <2>4. IsAncestorOrSelf(b, b)
    BY <1>1, AncestorSteps
  <2> QED
    BY <2>1, <2>2, <2>3, <2>4
<1> HIDE DEF Eligible, min
<1> DEFINE T == {k \in Nat : \E e \in indexed : /\ Eligible(e) /\ IsAncestorOrSelf(b, e)
                                                /\ k = n - Height[e]}
<1>5. \A e \in indexed : e \in Block /\ Height[e] \in Nat /\ n - Height[e] \in Nat
  BY <1>1, <1>2, HeightType
<1>6. PICK m \in T : \A k \in T : m \leq k
  <2>1. n - Height[b] \in T
    BY <1>1, <1>4, <1>5
  <2>2. T \subseteq Nat /\ T # {}
    BY <2>1
  <2> HIDE DEF T
  <2> QED
    BY <2>2, LeastNatural
<1>7. PICK e \in indexed : Eligible(e) /\ IsAncestorOrSelf(b, e) /\ m = n - Height[e]
  OBVIOUS
<1>8. ASSUME NEW c \in indexed, Eligible(c), Parent[c] = e
      PROVE  FALSE
  <2>1. IsAncestorOrSelf(b, c)
    BY <1>1, <1>5, <1>7, <1>8, AncestorSteps
  <2>2. n - Height[c] \in T
    BY <1>5, <1>8, <2>1
  <2>3. Height[c] = Height[e] + 1
    BY <1>5, <1>8, TreeAssumption
  <2>4. m \leq n - Height[c]
    BY <1>6, <2>2
  <2> QED
    BY <1>5, <1>7, <2>3, <2>4
<1>9. e \in OkTips(min)
  BY <1>7, <1>8 DEF OkTips, Eligible
<1>10. ReorgAllowed(e)
  <2>1. e \in GenBlock /\ Height[e] \in Nat /\ Height[b] \leq Height[e] /\ Ancestor[e][Height[b]] = b
    BY <1>5, <1>7, HeightType DEF IsAncestorOrSelf
  <2>2. Ancestor[b][h] = Ancestor[e][h] /\ h \in 0 .. Height[e]
    <3>1. Height[b] \in 0 .. Height[e] /\ h \in 0 .. Height[e]
      BY <1>1, <2>1
    <3>2. Ancestor[Ancestor[e][Height[b]]][h] = Ancestor[e][h]
      BY <2>1, <3>1, AncestorOfAncestor
    <3> QED
      BY <2>1, <3>1, <3>2
  <2> QED
    BY <1>3, <2>2 DEF ReorgAllowed
<1> QED
  BY <1>7, <1>9, <1>10 DEF BestChainCandidates, min

\* The invalidated branch is marked and the candidates are collected; when none
\* is left the call ends.
LEMMA CollectSteps ==
    ASSUME CallsInv, ChainInv', PrefixStep,
           MarkInvalidatedBranch \/ CollectCandidates \/ CollectFails \/ NoCandidateLeft
    PROVE  IndexTree' /\ CallFacts' /\ OrphanFacts' /\ BestFacts' /\ GoodBlockNotBlamed'
<1>1. /\ IndexTree /\ GoodBlockNotBlamed /\ BestFacts /\ OrphanFacts /\ CallFacts
      /\ DatabaseInv /\ DatabaseInv' /\ DatabaseType /\ indexed \subseteq Block
      /\ persisted \subseteq indexed /\ best \in GenBlock
      /\ pc \in {"mark_branch", "collect", "activate"} /\ Unstored = {}
  BY DEF CallsInv, ChainInv, DatabaseInv, DatabaseType, MarkInvalidatedBranch, CollectCandidates,
         CollectFails, NoCandidateLeft, CallFacts
<1>2. CASE MarkInvalidatedBranch
  <2>1. /\ MarkBranch(culprit, "explicit") /\ orphans' \subseteq orphans /\ culprit \in indexed
        /\ UNCHANGED <<indexed, stage, persisted>>
        /\ pc' = "collect" /\ UNCHANGED orphanJob
    BY <1>1, <1>2 DEF MarkInvalidatedBranch, RemoveOrphansOf, CallFacts
  <2>2. IndexTree' /\ GoodBlockNotBlamed' /\ Unstored' \subseteq Unstored \ Branch(culprit)
    BY <1>1, <2>1, BranchMarked
  <2>3. CallFacts'
    BY <1>1, <2>1, <2>2, SettledCall
  <2>4. OrphanFacts'
    BY <1>1, <2>1, InvalidationOrphans
  <2>5. BestFacts'
    BY <1>1, <2>1 DEF BestFacts
  <2> QED
    BY <2>2, <2>3, <2>4, <2>5
<1>3. CASE CollectCandidates
  <2>1. /\ UNCHANGED database /\ pc' = "activate" /\ orphans' = orphans /\ UNCHANGED orphanJob
        /\ minTrust' = ChainTrust[best] + 1
        /\ cands' = BestChainCandidates(ChainTrust[best] + 1)
    BY <1>3 DEF CollectCandidates, memory
  <2>2. /\ IndexTree' /\ GoodBlockNotBlamed' /\ Unstored' = {}
        /\ persisted' = persisted /\ indexed' = indexed /\ best' = best
        /\ \A b : IsBetter(b)' <=> IsBetter(b)
    BY <1>1, <2>1, DatabaseSame
  <2>3. OrphanFacts'
    BY <1>1, <2>1, <2>2, InvalidationOrphans
  <2>4. \A c \in cands' : c \in indexed /\ ChainTrust[c] \geq ChainTrust[best] + 1
    BY <2>1 DEF BestChainCandidates, OkTips
  <2>5. CallFacts'
    BY <2>1, <2>2, <2>4 DEF CallFacts
  <2>6. \A b \in persisted : IsBetter(b) => \E c \in cands' : IsAncestorOrSelf(b, c)
    BY <2>1, BetterHasCandidate
  <2>7. BestFacts'
    BY <1>1, <2>1, <2>2, <2>6 DEF BestFacts
  <2> QED
    BY <2>2, <2>3, <2>5, <2>7
<1>4. CASE CollectFails
  <2>1. \A b \in indexed : ChainIndexed(b)
    BY <1>1, ChainsOfIndex
  <2> QED
    BY <1>4, <2>1 DEF CollectFails, OkTips
<1>5. CASE NoCandidateLeft
  <2>1. UNCHANGED database /\ Idle /\ pc' = "idle" /\ orphans' = orphans /\ cands = {} /\ pc = "activate"
    BY <1>5 DEF NoCandidateLeft, memory, Idle
  <2>2. /\ IndexTree' /\ GoodBlockNotBlamed' /\ Unstored' = {}
        /\ persisted' = persisted /\ indexed' = indexed
        /\ \A b : IsBetter(b)' <=> IsBetter(b)
    BY <1>1, <2>1, DatabaseSame
  <2>3. OrphanFacts'
    BY <1>1, <2>1, <2>2, InvalidationOrphans
  <2>4. CallFacts'
    BY <2>1, <2>2, SettledCall
  <2>5. BestFacts'
    BY <1>1, <2>1, <2>2 DEF BestFacts
  <2> QED
    BY <2>2, <2>3, <2>4, <2>5
<1> QED
  BY <1>2, <1>3, <1>4, <1>5

\* The best candidate becomes the tip: no other chain is better.
LEMMA ActivateStep ==
    ASSUME CallsInv, ChainInv', PrefixStep, ActivateCandidate
    PROVE  IndexTree' /\ CallFacts' /\ OrphanFacts' /\ BestFacts' /\ GoodBlockNotBlamed'
<1>1. /\ IndexTree /\ GoodBlockNotBlamed /\ BestFacts /\ OrphanFacts /\ CallFacts
      /\ DatabaseInv /\ DatabaseInv' /\ DatabaseType /\ indexed \subseteq Block
      /\ persisted \subseteq indexed /\ best \in GenBlock
      /\ stage \in [Block -> Unchecked .. FullyChecked]
      /\ stage' \in [Block -> Unchecked .. FullyChecked]
      /\ pc = "activate" /\ Unstored = {} /\ cands \subseteq indexed
      /\ minTrust = ChainTrust[best] + 1 /\ \A c \in cands : ChainTrust[c] \geq minTrust
  BY DEF CallsInv, ChainInv, DatabaseInv, DatabaseType, ActivateCandidate, CallFacts
<1>2. PICK c \in cands : \E f \in 0 .. Height[c] :
        IsBestCandidate(c) /\ IsForkHeight(c, f) /\ Reorganize(c, f) /\ stage' = Connected(stage, c, f)
  BY DEF ActivateCandidate
<1>3. PICK f \in 0 .. Height[c] :
        IsBestCandidate(c) /\ IsForkHeight(c, f) /\ Reorganize(c, f) /\ stage' = Connected(stage, c, f)
  BY <1>2
<1>4. /\ UNCHANGED <<indexed, fails, persisted, orphans>> /\ Idle /\ pc' = "idle" /\ best' = c
  BY <1>3 DEF ActivateCandidate, memory, Idle, Reorganize
<1>5. c \in Block /\ c \in GenBlock /\ ChainTrust[best] \leq ChainTrust[best']
  BY <1>1, <1>4, HeightType, TrustAssumption
<1>6. IndexTree'
  <2>1. \A b \in indexed : LastValidStage(Parent[b])' \geq stage'[b]
    <3> SUFFICES ASSUME NEW b \in indexed
                 PROVE  LastValidStage(Parent[b])' \geq stage'[b]
      OBVIOUS
    <3>1. CASE Parent[b] = Genesis
      BY <1>1, <3>1 DEF LastValidStage, FullyChecked, Unchecked
    <3>2. CASE Parent[b] # Genesis
      <4>1. b \in Block /\ stage[Parent[b]] \geq stage[b]
        BY <1>1, <3>2 DEF IndexTree, LastValidStage
      <4>2. Connected(stage, c, f)[Parent[b]] \geq Connected(stage, c, f)[b]
        BY <1>1, <1>3, <1>5, <3>2, <4>1, ConnectedValid
      <4> QED
        BY <1>3, <3>2, <4>2 DEF LastValidStage
    <3> QED
      BY <3>1, <3>2
  <2> QED
    BY <1>1, <1>4, <2>1 DEF IndexTree, IsOk
<1>7. Unstored' = {}
  BY <1>1, <1>4 DEF Unstored
<1>8. CallFacts'
  BY <1>4, <1>7, SettledCall
<1>9. OrphanFacts'
  BY <1>1, <1>4, InvalidationOrphans
<1>10. GoodBlockNotBlamed'
  <2>1. \A d \in indexed' : "failed" \in fails'[d] =>
           /\ d \in indexed /\ "failed" \in fails[d]
           /\ d \in persisted' => d \in persisted
           /\ IsOk(Parent[d])' => IsOk(Parent[d])
    BY <1>4 DEF IsOk
  <2> QED
    BY <1>1, <2>1, GoodKeeps
<1>11. \A b \in persisted' : ~IsBetter(b)'
  <2> SUFFICES ASSUME NEW b \in persisted, IsBetter(b)'
               PROVE  FALSE
    BY <1>4
  <2>1. IsBetter(b)
    BY <1>1, <1>4, <1>5, BetterBack
  <2>2. PICK d \in cands : IsAncestorOrSelf(b, d)
    BY <1>1, <2>1 DEF BestFacts
  <2>3. b \in GenBlock /\ d \in GenBlock
    BY <1>1, HeightType
  <2>4. ChainTrust[b] \leq ChainTrust[d] /\ ChainTrust[d] \leq ChainTrust[c]
    BY <1>3, <2>2, <2>3, TrustGrows DEF IsBestCandidate
  <2>5. ChainTrust[b] > ChainTrust[c]
    BY <1>4 DEF IsBetter
  <2> QED
    BY <1>5, <2>3, <2>4, <2>5, TrustAssumption
<1>12. BestFacts'
  BY <1>1, <1>4, <1>11 DEF BestFacts
<1> QED
  BY <1>6, <1>8, <1>9, <1>10, <1>12

\* A candidate fails: a better chain that the failed block is not part of has
\* another candidate above it, or the parent of the failed block.
LEMMA CandidateFailsStep ==
    ASSUME CallsInv, ChainInv', PrefixStep, CandidateFails
    PROVE  IndexTree' /\ CallFacts' /\ OrphanFacts' /\ BestFacts' /\ GoodBlockNotBlamed'
<1>1. /\ IndexTree /\ GoodBlockNotBlamed /\ BestFacts /\ OrphanFacts /\ CallFacts
      /\ DatabaseInv /\ DatabaseInv' /\ DatabaseType /\ indexed \subseteq Block
      /\ persisted \subseteq indexed /\ best \in GenBlock /\ persisted = blockMap
      /\ pc = "activate" /\ Unstored = {} /\ cands \subseteq indexed
      /\ minTrust = ChainTrust[best] + 1 /\ \A c \in cands : ChainTrust[c] \geq minTrust
  BY DEF CallsInv, ChainInv, DatabaseInv, DatabaseType, CandidateFails, CallFacts,
         StoredBlocksChecked
<1>2. PICK c \in cands : \E f \in 0 .. Height[c] : \E h \in 1 .. Height[c] :
        /\ FirstFailure(c, f, h, NoBlock) /\ RemoveTreeAddParent(Ancestor[c][h])
        /\ IF ConnectsBadly(Ancestor[c][h], NoBlock)
           THEN MarkBranch(Ancestor[c][h], "failed") /\ RemoveOrphansOf(Ancestor[c][h])
           ELSE UNCHANGED <<fails, orphans>>
  BY DEF CandidateFails
<1>3. PICK f \in 0 .. Height[c] : \E h \in 1 .. Height[c] :
        /\ FirstFailure(c, f, h, NoBlock) /\ RemoveTreeAddParent(Ancestor[c][h])
        /\ IF ConnectsBadly(Ancestor[c][h], NoBlock)
           THEN MarkBranch(Ancestor[c][h], "failed") /\ RemoveOrphansOf(Ancestor[c][h])
           ELSE UNCHANGED <<fails, orphans>>
  BY <1>2
<1>4. PICK h \in 1 .. Height[c] :
        /\ FirstFailure(c, f, h, NoBlock) /\ RemoveTreeAddParent(Ancestor[c][h])
        /\ IF ConnectsBadly(Ancestor[c][h], NoBlock)
           THEN MarkBranch(Ancestor[c][h], "failed") /\ RemoveOrphansOf(Ancestor[c][h])
           ELSE UNCHANGED <<fails, orphans>>
  BY <1>3
<1> DEFINE a == Ancestor[c][h]
<1>5. /\ UNCHANGED <<indexed, stage, persisted>> /\ UNCHANGED orphanJob /\ UNCHANGED minTrust
      /\ UNCHANGED <<best, byHeight, minReorg, blockMap>> /\ pc' = "activate"
  BY DEF CandidateFails, chain
<1>6. /\ a \in indexed /\ a \in Block /\ a # NoBlock /\ ~Connects(a, NoBlock)
      /\ ConnectsBadly(a, NoBlock) => a \in BadTx
  <2>1. a \in indexed
    BY <1>1, ChainsOfIndex DEF ChainIndexed
  <2>2. ~Connects(a, NoBlock)
    BY <1>4 DEF FirstFailure
  <2> QED
    BY <1>1, <2>1, <2>2, ChainstateAssumption DEF GenBlock, ConnectsBadly
<1>7. /\ cands' = (cands \ Branch(a)) \cup {p \in {Parent[a]} : p # Genesis /\ ChainTrust[p] \geq minTrust}
      /\ IF ConnectsBadly(a, NoBlock)
         THEN MarkBranch(a, "failed") /\ RemoveOrphansOf(a)
         ELSE UNCHANGED <<fails, orphans>>
  BY <1>4 DEF RemoveTreeAddParent
<1> HIDE DEF a
<1>8. /\ IndexTree' /\ GoodBlockNotBlamed' /\ Unstored' = {} /\ orphans' \subseteq orphans
      /\ \A d \in Block : fails'[d] = {} => fails[d] = {}
      /\ ConnectsBadly(a, NoBlock) => fails'[a] # {}
  <2>1. CASE ConnectsBadly(a, NoBlock)
    <3>1. MarkBranch(a, "failed") /\ RemoveOrphansOf(a) /\ a \in BadTx
      BY <1>6, <1>7, <2>1
    <3>2. /\ IndexTree' /\ GoodBlockNotBlamed'
          /\ Unstored' \subseteq Unstored \ Branch(a)
          /\ \A d \in Block : fails[d] \subseteq fails'[d]
          /\ fails'[a] # {}
      BY <1>1, <1>5, <1>6, <3>1, BranchMarked
    <3> QED
      BY <1>1, <3>1, <3>2 DEF RemoveOrphansOf
  <2>2. CASE ~ConnectsBadly(a, NoBlock)
    <3>1. UNCHANGED database /\ orphans' = orphans
      BY <1>5, <1>7, <2>2 DEF database, index, status, chain
    <3> QED
      BY <1>1, <2>2, <3>1, DatabaseSame
  <2> QED
    BY <2>1, <2>2
<1>9. OrphanFacts'
  BY <1>1, <1>5, <1>8, InvalidationOrphans
<1>10. Parent[a] \in indexed \cup {Genesis}
  BY <1>1, <1>6 DEF IndexTree
<1>11. CallFacts'
  <2>1. \A d \in cands' : d \in indexed /\ ChainTrust[d] \geq minTrust
    BY <1>1, <1>7, <1>10
  <2> QED
    BY <1>1, <1>5, <1>8, <2>1 DEF CallFacts
<1>12. ASSUME NEW b \in persisted, IsBetter(b)'
       PROVE  \E d \in cands' : IsAncestorOrSelf(b, d)
  <2>1. IsBetter(b)
    <3>1. ChainTrust[best] \leq ChainTrust[best']
      BY <1>1, <1>5, TrustAssumption
    <3>2. \A d \in persisted : fails'[d] = {} => fails[d] = {}
      BY <1>1, <1>8
    <3> QED
      BY <1>1, <1>12, <3>1, <3>2, BetterBack
  <2>2. PICK d \in cands : IsAncestorOrSelf(b, d)
    BY <1>1, <2>1 DEF BestFacts
  <2>3. /\ b \in Block /\ b \in GenBlock /\ d \in GenBlock /\ d \in Block /\ a \in GenBlock
        /\ Height[a] \in Nat /\ Height[b] \in Nat /\ Height[a] \geq 1 /\ Height[b] \geq 1
    BY <1>1, <1>6, HeightType
  <2>4. CASE d \notin Branch(a)
    BY <1>7, <2>2, <2>4
  <2>5. CASE d \in Branch(a)
    <3>1. IsAncestorOrSelf(a, d)
      BY <2>5 DEF Branch
    <3>2. CASE Height[a] \leq Height[b]
      <4>1. IsAncestorOrSelf(a, b)
        BY <2>2, <2>3, <3>1, <3>2, AncestorOrder
      <4>2. Height[a] \in 1 .. Height[b] /\ Ancestor[b][Height[a]] = a
        BY <2>3, <3>2, <4>1 DEF IsAncestorOrSelf
      <4>3. a \in persisted
        BY <1>1, <4>2, ChainsOfIndex
      <4>4. fails'[a] = {} /\ fails[a] = {}
        <5>1. IsOk(a)'
          BY <1>12, <4>2 DEF IsBetter, ChainIsOk
        <5> QED
          BY <1>6, <1>8, <5>1, TreeAssumption DEF IsOk
      <4>5. ConnectsBadly(a, NoBlock)
        BY <1>1, <1>6, <4>3, <4>4 DEF Connects, ConnectsBadly
      <4> QED
        BY <1>8, <4>4, <4>5
    <3>3. CASE ~(Height[a] \leq Height[b])
      <4>1. IsAncestorOrSelf(b, a)
        BY <2>2, <2>3, <3>1, <3>3, AncestorOrder
      <4>2. IsAncestorOrSelf(b, Parent[a]) /\ Parent[a] \in GenBlock
        BY <1>6, <2>3, <3>3, <4>1, AncestorSteps, TreeAssumption
      <4>3. Parent[a] # Genesis
        BY <2>3, <4>2, TreeAssumption DEF IsAncestorOrSelf
      <4>4. ChainTrust[b] \leq ChainTrust[Parent[a]]
        BY <2>3, <4>2, TrustGrows
      <4>5. ChainTrust[Parent[a]] \geq minTrust
        BY <1>1, <2>1, <2>3, <4>2, <4>4, TrustAssumption DEF IsBetter
      <4> QED
        BY <1>7, <4>2, <4>3, <4>5
    <3> QED
      BY <3>2, <3>3
  <2> QED
    BY <2>4, <2>5
<1>13. BestFacts'
  BY <1>1, <1>5, <1>12 DEF BestFacts
<1> QED
  BY <1>8, <1>9, <1>11, <1>13

-----------------------------------------------------------------------------
(* The theorems                                                            *)

\* The calls begin with nothing but genesis.
LEMMA InitCalls ==
    ASSUME Init
    PROVE  CallsInv
<1>1. ChainInv
  BY InitKeeps
<1>2. IndexTree /\ CallFacts /\ OrphanFacts /\ GoodBlockNotBlamed
  BY DEF Init, IndexTree, CallFacts, OrphanFacts, GoodBlockNotBlamed, Unstored
<1>3. BestFacts
  BY DEF Init, BestFacts
<1> QED
  BY <1>1, <1>2, <1>3 DEF CallsInv

\* Every step keeps CallsInv.
LEMMA NextCalls ==
    ASSUME CallsInv, Undisturbed, [Next]_vars
    PROVE  CallsInv'
<1>1. ChainInv' /\ [PrefixStep]_vars
  BY NextKeeps DEF CallsInv
<1>2. CASE Next /\ ~UNCHANGED vars
  <2>1. PrefixStep
    BY <1>1, <1>2
  <2>2. CASE Call
    BY <1>1, <2>1, <2>2, CallSteps DEF CallsInv
  <2>3. CASE ProcessStep
    <3>1. CASE AttemptOrphan \/ AttemptRejected \/ IntegrateCheckFails \/ IntegrateConnectFails
      BY <1>1, <3>1, AttemptWithoutCommit DEF CallsInv
    <3>2. CASE IntegrateStale \/ IntegrateReorg
      BY <1>1, <2>1, <3>2, IntegrateSteps DEF CallsInv
    <3>3. CASE MarkNewBlockFailed \/ SaveNewBlockIndex
      BY <1>1, <2>1, <3>3, NewIndexSteps DEF CallsInv
    <3>4. CASE BlameCulprit
      BY <1>1, <2>1, <3>4, BlameStep DEF CallsInv
    <3>5. CASE TakeOrphans \/ AttemptNextOrphan \/ FinishProcessBlock
      BY <1>1, <3>5, OrphanSteps DEF CallsInv
    <3>6. ~AttemptPanics
      <4>1. IndexTree /\ DatabaseType
        BY DEF CallsInv, ChainInv, DatabaseInv
      <4>2. Parent[cur] = Genesis => ChainIndexed(Parent[cur])
        BY TreeAssumption DEF ChainIndexed
      <4> QED
        BY <4>1, <4>2, ChainsOfIndex DEF AttemptPanics, IsIndexed
    <3> QED
      BY <2>3, <3>1, <3>2, <3>3, <3>4, <3>5, <3>6 DEF ProcessStep
  <2>4. CASE InvalidationStep
    <3>1. CASE MarkInvalidatedBranch \/ CollectCandidates \/ CollectFails \/ NoCandidateLeft
      BY <1>1, <2>1, <3>1, CollectSteps DEF CallsInv
    <3>2. CASE ActivateCandidate
      BY <1>1, <2>1, <3>2, ActivateStep DEF CallsInv
    <3>3. CASE CandidateFails
      BY <1>1, <2>1, <3>3, CandidateFailsStep DEF CallsInv
    <3> QED
      BY <2>4, <3>1, <3>2, <3>3 DEF InvalidationStep
  <2>5. CASE DbFailure \/ Crash
    BY <2>5 DEF DbFailure, Crash, Undisturbed
  <2> QED
    BY <1>2, <2>2, <2>3, <2>4, <2>5 DEF Next, Step
<1>3. CASE UNCHANGED vars
  <2>1. UNCHANGED database
    BY <1>3 DEF vars
  <2>2. UNCHANGED <<orphans, pc, first, cur, culprit, pending, batch, cands, minTrust>>
    BY <1>3 DEF vars, memory, orphanJob, search
  <2>3. IndexTree /\ GoodBlockNotBlamed /\ CallFacts /\ OrphanFacts /\ BestFacts
    BY DEF CallsInv
  <2>4. /\ IndexTree' /\ GoodBlockNotBlamed' /\ Unstored' = Unstored
        /\ \A b : IsBetter(b)' <=> IsBetter(b)
        /\ \A b : IsOk(b)' <=> IsOk(b)
        /\ \A b : ReorgAllowed(b)' <=> ReorgAllowed(b)
        /\ UNCHANGED <<indexed, stage, fails, persisted, blockMap, best, byHeight, minReorg>>
    BY <2>1, <2>3, DatabaseSame
  <2>5. CallFacts'
    BY <2>2, <2>3, <2>4 DEF CallFacts, IsOk, ReorgAllowed
  <2>6. OrphanFacts'
    BY <2>2, <2>3, <2>4 DEF OrphanFacts
  <2>7. BestFacts'
    BY <2>2, <2>3, <2>4 DEF BestFacts
  <2> QED
    BY <1>1, <2>4, <2>5, <2>6, <2>7 DEF CallsInv
<1> QED
  BY <1>2, <1>3

\* CallsInv is an invariant of an undisturbed node.
LEMMA CallsInvariant ==
    ASSUME Undisturbed
    PROVE  Spec => []CallsInv
<1>1. Init => CallsInv
  BY InitCalls
<1>2. CallsInv /\ [Next]_vars => CallsInv'
  BY NextCalls
<1> QED
  BY <1>1, <1>2, PTL DEF Spec

\* Without failures the block index is at every commit what the consistency
\* checker of the code asserts, and the assertions within the calls hold
\* (check_block_index_consistency, set_new_block_index, invalidate_block,
\* find_and_activate_best_chain).
THEOREM IndexIsConsistent ==
    ASSUME Undisturbed
    PROVE  Spec => []IndexConsistent
<1>1. CallsInv => IndexConsistent
  <2> SUFFICES ASSUME CallsInv
               PROVE  IndexConsistent
    OBVIOUS
  <2>1. /\ IndexTree /\ CallFacts /\ CallInv /\ persisted = blockMap /\ indexed \subseteq Block
        /\ best \in GenBlock
    BY DEF CallsInv, ChainInv, DatabaseInv, DatabaseType, StoredBlocksChecked
  <2>2. \A b \in indexed : b # Genesis
    BY <2>1, TreeAssumption
  <2>3. NonPersistedNotOk
    BY <2>1, <2>2 DEF NonPersistedNotOk, CallFacts, Unstored, IsOk
  <2>4. OkParentOfOk
    BY <2>1, <2>2 DEF OkParentOfOk, IndexTree, IsOk
  <2>5. ParentAtLeastAsValid
    BY <2>1 DEF ParentAtLeastAsValid, IndexTree, IsIndexed
  <2>6. AssertionsHold
    <3>1. pc = "activate" => \A c \in cands : /\ c \in indexed /\ ChainTrust[c] \geq minTrust
                                              /\ ChainTrust[c] > ChainTrust[best]
      BY <2>1, TrustAssumption DEF CallFacts, GenBlock
    <3> QED
      BY <2>1, <3>1 DEF AssertionsHold, CallFacts, CallInv
  <2> QED
    BY <2>3, <2>4, <2>5, <2>6 DEF IndexConsistent
<1> QED
  BY <1>1, CallsInvariant, PTL

\* Without failures no block is left behind as failed that could be accepted
\* (integrate_block, check_block, invalidate_stale_block).
THEOREM NoGoodBlockBlamed ==
    ASSUME Undisturbed
    PROVE  Spec => []GoodBlockNotBlamed
<1>1. CallsInv => GoodBlockNotBlamed
  BY DEF CallsInv
<1> QED
  BY <1>1, CallsInvariant, PTL

\* Without failures no call leaves an orphan behind whose parent has been
\* accepted (process_orphans_of).
THEOREM OrphansAreProcessed ==
    ASSUME Undisturbed
    PROVE  Spec => []NoOrphanLeftBehind
<1>1. CallsInv => NoOrphanLeftBehind
  <2> SUFFICES ASSUME CallsInv, pc = "idle", NEW o \in orphans, IsIndexed(Parent[o]), IsOk(Parent[o])
               PROVE  FALSE
    BY DEF NoOrphanLeftBehind
  <2>1. Parent[o] # Genesis /\ (Parent[o] \in persisted => Parent[o] \in pending) /\ pending = {}
    BY DEF CallsInv, OrphanFacts
  <2>2. Unstored = {}
    BY DEF CallsInv, CallFacts
  <2>3. Parent[o] \in indexed /\ fails[Parent[o]] = {}
    BY <2>1 DEF IsIndexed, IsOk
  <2> QED
    BY <2>1, <2>2, <2>3 DEF Unstored
<1> QED
  BY <1>1, CallsInvariant, PTL

\* Without failures every call ends with the best chain active (process_block,
\* find_and_activate_best_chain).
THEOREM BestChainIsActive ==
    ASSUME Undisturbed
    PROVE  Spec => []BestChainActive
<1>1. CallsInv => BestChainActive
  <2> SUFFICES ASSUME CallsInv, pc = "idle", NEW b \in persisted, ChainIsOk(b), ReorgAllowed(b)
               PROVE  ChainTrust[b] \leq ChainTrust[best]
    BY DEF BestChainActive
  <2>1. ~IsBetter(b)
    BY DEF CallsInv, BestFacts
  <2>2. b \in GenBlock /\ best \in GenBlock
    BY DEF CallsInv, ChainInv, DatabaseInv, DatabaseType, GenBlock
  <2> QED
    BY <2>1, <2>2, TrustAssumption DEF IsBetter
<1> QED
  BY <1>1, CallsInvariant, PTL
=============================================================================
