----------------------------- MODULE BlockTree -----------------------------
(***************************************************************************)
(* The tree of all blocks that could ever be offered to a node: the data   *)
(* of chainstate/types/src/block_index.rs that is a function of the block  *)
(* and of its ancestors, and the ancestor queries of                       *)
(* chainstate/src/detail/chainstateref/mod.rs.  A block is an abstract     *)
(* value; its parent, height and chain trust never change.                 *)
(***************************************************************************)
EXTENDS Integers

CONSTANTS
    Block,       \* the blocks, genesis excluded (Id<Block>)
    Genesis,     \* the genesis block
    Parent,      \* Parent[b]: prev_block_id of b
    Height,      \* Height[b]: block_height of b
    Ancestor,    \* Ancestor[b][h]: what get_ancestor(b, h) returns
    ChainTrust   \* ChainTrust[b]: sum of the block proofs from genesis to b

\* Id<GenBlock>: a block or genesis.
GenBlock == Block \cup {Genesis}

ASSUME TreeAssumption ==
    /\ Genesis \notin Block
    /\ Parent \in [Block -> GenBlock]
    /\ Height \in [GenBlock -> Nat]
    /\ Height[Genesis] = 0
    /\ \A b \in Block : Height[b] = Height[Parent[b]] + 1

\* Ancestor is the function that Parent determines.
ASSUME AncestorAssumption ==
    \A b \in GenBlock :
        /\ Ancestor[b] \in [0 .. Height[b] -> GenBlock]
        /\ Ancestor[b][0] = Genesis
        /\ Ancestor[b][Height[b]] = b
        /\ \A h \in 0 .. Height[b] :
              /\ Height[Ancestor[b][h]] = h
              /\ h > 0 => /\ Ancestor[b][h] \in Block
                          /\ Parent[Ancestor[b][h]] = Ancestor[b][h - 1]
              /\ \A k \in 0 .. h : Ancestor[Ancestor[b][h]][k] = Ancestor[b][k]

\* Every block adds a positive proof to the trust of its parent, but two
\* blocks of one height may carry different proofs: in proof of stake the
\* proof depends on the time between a block and its parent.
ASSUME TrustAssumption ==
    /\ ChainTrust \in [GenBlock -> Nat]
    /\ \A b \in Block : ChainTrust[Parent[b]] < ChainTrust[b]

\* a is b or one of its ancestors.
IsAncestorOrSelf(a, b) == Height[a] \leq Height[b] /\ Ancestor[b][Height[a]] = a

=============================================================================
