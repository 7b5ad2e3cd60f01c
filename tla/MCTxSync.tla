------------------------------ MODULE MCTxSync ------------------------------
(***************************************************************************)
(* Small networks for TxSync: a transaction and its child.                 *)
(***************************************************************************)
EXTENDS TxSync

CONSTANTS n1, n2, n3, t1, t2

Three == {n1, n2, n3}

BothWays(pairs) == pairs \cup {<<p[2], p[1]>> : p \in pairs}

ChildOf == [t \in {t1, t2} |-> IF t = t2 THEN t1 ELSE NoTx]

\* Each node of a triangle hears of a transaction twice.
Triangle ==
  [links |-> BothWays({<<n1, n2>>, <<n2, n3>>, <<n1, n3>>}), maxAnnouncements |-> 2,
   downloading |-> {}, purgeLimit |-> 0, leaveLimit |-> 0]

\* A line, a limit on requests, a request that is purged and a transaction that
\* leaves a mempool.
Line ==
  [links |-> BothWays({<<n1, n2>>, <<n2, n3>>}), maxAnnouncements |-> 1,
   downloading |-> {n2}, purgeLimit |-> 1, leaveLimit |-> 1]

AllNetworks == {Triangle, Line}
==============================================================================
