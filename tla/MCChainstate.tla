---------------------------- MODULE MCChainstate ----------------------------
(***************************************************************************)
(* Chainstate over small block trees.                                      *)
(***************************************************************************)
EXTENDS Chainstate, MCTrees

-----------------------------------------------------------------------------
(* With failures                                                           *)

\* The blocks that the node has, or is told of.
Known == indexed \cup orphans \cup {cur}

\* The longest branch and the competing one do not come together: one is there to be
\* extended where a block below is missing, the other for reorgs from genesis.
FailuresNext == Next /\ ~({a4, c1} \subseteq Known')

FailuresSpec == Init /\ [][FailuresNext]_vars
=============================================================================
