----------------------------- MODULE MCBlockSync -----------------------------
(***************************************************************************)
(* Small networks for BlockSync.                                           *)
(***************************************************************************)
EXTENDS BlockSync, MCTrees

CONSTANTS n1, n2, n3

\* A chain with a fork that is worth more for a while:
\*     G - a1 - a2 - a3
\*            \- b2
SwayBlock == {a1, a2, a3, b2}
SwayParent == a1 :> G @@ a2 :> a1 @@ a3 :> a2 @@ b2 :> a1
SwayHeight == HeightOf(SwayParent)
SwayAncestor == AncestorOf(SwayParent)
SwayTrust == TrustOf(SwayParent, a1 :> 2 @@ a2 :> 2 @@ a3 :> 2 @@ b2 :> 3)

From(source) == [n \in Node |-> IF n \in DOMAIN source THEN source[n] ELSE {}]

\* Two nodes, each of which gets one of the branches.
Branches ==
  [links |-> {{n1, n2}}, source |-> From(n1 :> {a1, a2} @@ n2 :> {a1, b2}),
   inIbd |-> {}, headerLimit |-> 2, blockLimit |-> 1, maxDisconnects |-> 0]

\* A node gets its first blocks, over a connection that may be lost, from one whose
\* tip goes back and forth.
Download ==
  [links |-> {{n1, n2}}, source |-> From(n1 :> Block),
   inIbd |-> {n2}, headerLimit |-> 3, blockLimit |-> 2, maxDisconnects |-> 1]

\* A node in initial block download also gets blocks that its peer does not have,
\* before and after it answers the peer with an empty list.
OwnBlocks ==
  [links |-> {{n1, n2}}, source |-> From(n1 :> {a1} @@ n2 :> {a1, a2}),
   inIbd |-> {n2}, headerLimit |-> 2, blockLimit |-> 1, maxDisconnects |-> 1]

\* What the first node gets reaches the last one through the second.
Line ==
  [links |-> {{n1, n2}, {n2, n3}}, source |-> From(n1 :> {a1, a2}),
   inIbd |-> {}, headerLimit |-> 2, blockLimit |-> 1, maxDisconnects |-> 0]

AllNetworks == {Branches, Download, OwnBlocks, Line}
=============================================================================
