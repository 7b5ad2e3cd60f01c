------------------------------ MODULE RpcNode ------------------------------
(***************************************************************************)
(* A node as a client that follows its chain sees it: the calls            *)
(* chainstate_info, get_last_common_ancestor and get_mainchain_blocks of   *)
(* its RPC interface, and a tip that can be another one at each call.      *)
(***************************************************************************)
EXTENDS BlockTree

CONSTANT NodeMoves    \* bound on the changes of the tip

ASSUME NodeAssumption == NodeMoves \in Nat

VARIABLES
  tip, stored,        \* the best block, the blocks the node has
  moves

node == <<tip, stored, moves>>

Chain(b) == {Ancestor[b][h] : h \in 1 .. Height[b]}

NodeInit(b) == tip = b /\ stored = GenBlock /\ moves = 0

----------------------------------------------------------------------------
LastCommonAncestor(a, b) ==
  LET common == {h \in 0 .. Height[a] : h <= Height[b] /\ Ancestor[a][h] = Ancestor[b][h]}
  IN Ancestor[a][CHOOSE h \in common : \A k \in common : k <= h]

\* get_common_block_info: if the node does not know the client's block, everything
\* is fetched again.
CommonBlock(clientBlock, nodeBlock) ==
  IF {clientBlock, nodeBlock} \subseteq stored THEN LastCommonAncestor(clientBlock, nodeBlock)
  ELSE Genesis

\* get_mainchain_blocks
MainchainBlocks(from, count) ==
  LET last == IF from + count - 1 < Height[tip] THEN from + count - 1 ELSE Height[tip]
  IN [i \in 1 .. last + 1 - from |-> Ancestor[tip][from + i - 1]]

----------------------------------------------------------------------------
NewTip(reorgs) ==
  /\ moves < NodeMoves
  /\ \E b \in Block :
       /\ b # tip
       /\ reorgs \/ IsAncestorOrSelf(tip, b)
       /\ tip' = b /\ stored' = stored \cup Chain(b)
  /\ moves' = moves + 1

\* The node starts to download the chain again.
EmptyNode ==
  /\ moves < NodeMoves
  /\ tip' = Genesis /\ stored' = {Genesis}
  /\ moves' = moves + 1
============================================================================
