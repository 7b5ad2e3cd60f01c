------------------------------ MODULE OrphanSet ------------------------------
(***************************************************************************)
(* The pool of orphan blocks as the chainstate sees it: a set of bounded   *)
(* size, which gives up a block that no other orphan depends on when it is *)
(* full.                                                                   *)
(***************************************************************************)
EXTENDS BlockTree, FiniteSets

CONSTANT MaxOrphans     \* chainstate_config.max_orphan_blocks

ASSUME OrphanAssumption == MaxOrphans \in Nat \ {0}

VARIABLE orphans

\* take_all_children_of
OrphanChildren(p) == {o \in orphans : Parent[o] = p}

\* add_block.  A full pool first drops a block without children in the pool,
\* even when b turns out to be there already.
AddOrphan(b) ==
    \/ /\ Cardinality(orphans) < MaxOrphans
       /\ orphans' = orphans \cup {b}
    \/ /\ Cardinality(orphans) \geq MaxOrphans
       /\ \E o \in orphans :
             /\ OrphanChildren(o) = {}
             /\ orphans' = (orphans \ {o}) \cup {b}

TakeOrphanChildren(p) == orphans' = orphans \ OrphanChildren(p)

OrphanInit == orphans = {}

OrphanNext ==
    \/ \E b \in Block : AddOrphan(b)
    \/ \E p \in GenBlock : TakeOrphanChildren(p)

OrphanSpec == OrphanInit /\ [][OrphanNext]_orphans

=============================================================================
