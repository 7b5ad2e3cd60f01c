------------------------------- MODULE MCTrees -------------------------------
(***************************************************************************)
(* Small block trees.                                                      *)
(***************************************************************************)
EXTENDS Integers, TLC

CONSTANTS G, None, a1, a2, a3, a4, b2, b3, c1

\* Heights, ancestors and trust of the tree given by the parent function p and
\* the block proofs w.
HeightOf(p) ==
    LET h[b \in DOMAIN p \cup {G}] == IF b = G THEN 0 ELSE h[p[b]] + 1 IN h

AncestorOf(p) ==
    LET anc[b \in DOMAIN p \cup {G}] ==
          IF b = G THEN [h \in {0} |-> G]
          ELSE [h \in 0 .. HeightOf(p)[b] |-> IF h = HeightOf(p)[b] THEN b ELSE anc[p[b]][h]]
    IN  anc

TrustOf(p, w) ==
    LET t[b \in DOMAIN p \cup {G}] == IF b = G THEN 0 ELSE t[p[b]] + w[b] IN t

\* Branches that fork at height 1:    G - a1 - a2 - a3
\*                                          \- b2 - b3
ForkBlock == {a1, a2, a3, b2, b3}
ForkParent == a1 :> G @@ a2 :> a1 @@ a3 :> a2 @@ b2 :> a1 @@ b3 :> b2
ForkHeight == HeightOf(ForkParent)
ForkAncestor == AncestorOf(ForkParent)

\* Every block has the same proof.
ForkEvenTrust == TrustOf(ForkParent, [b \in ForkBlock |-> 1])

\* The same with a third branch, c1, of height 1.
BushBlock == ForkBlock \cup {c1}
BushParent == ForkParent @@ c1 :> G
BushHeight == HeightOf(BushParent)
BushAncestor == AncestorOf(BushParent)
BushTrust == TrustOf(BushParent, [b \in BushBlock |-> 1])

\* Short forks that are worth more:   G - a1 - a2 - a3 - a4
\*                                      |     \- b2
\*                                      \- c1
ShortBlock == {a1, a2, a3, a4, b2, c1}
ShortParent == a1 :> G @@ a2 :> a1 @@ a3 :> a2 @@ a4 :> a3 @@ b2 :> a1 @@ c1 :> G
ShortHeight == HeightOf(ShortParent)
ShortAncestor == AncestorOf(ShortParent)
ShortTrust ==
    TrustOf(ShortParent, [b \in ShortBlock |-> CASE b = b2 -> 3 [] b = c1 -> 5 [] OTHER -> 1])

NoBlocks == {}
OnlyA2 == {a2}
OnlyA3 == {a3}
OnlyB2 == {b2}
OnlyB3 == {b3}
OnlyC1 == {c1}
=============================================================================
