--------------------------- MODULE MCMempoolReorg ---------------------------
(***************************************************************************)
(* Small instances of MempoolReorg: two branches, a1 - a2 and b2 - b3.     *)
(*                                                                         *)
(*   p spends a coin and is in a1;  c and d spend the output of p, c is in *)
(*   a2;  q spends the output of c and another coin, and is in no block;   *)
(*   r spends that other coin and is in b2.                                *)
(***************************************************************************)
EXTENDS MempoolReorg, MCTrees

CONSTANTS p, c, d, q, r, k1, k2

TreeBlock == {a1, a2, b2, b3}
TreeParent == a1 :> G @@ a2 :> a1 @@ b2 :> G @@ b3 :> b2
TreeHeight == HeightOf(TreeParent)
TreeAncestor == AncestorOf(TreeParent)
TreeTrust == TrustOf(TreeParent, [b \in TreeBlock |-> 1])

TreeTxs == {p, c, d, q, r}
TreeCoins == {k1, k2}
TreeSpends == p :> {k1} @@ c :> {p} @@ d :> {p} @@ q :> {c, k2} @@ r :> {k2}
TreeBlockTxs == a1 :> <<p>> @@ a2 :> <<c>> @@ b2 :> <<r>> @@ b3 :> <<>>
=============================================================================
