----------------------------- MODULE MCTxOrphans -----------------------------
(***************************************************************************)
(* Transaction 3 spends a confirmed output, 2 continues an account where 3 *)
(* leaves it, and 1 spends an output of 2 and another account's state in   *)
(* the chain, as does 4, so that 1 and 4 conflict.                         *)
(* The ids are such that children are picked before their parents.         *)
(***************************************************************************)
EXTENDS TxOrphans, TLC

CONSTANTS p1, p2, c3, o2, acc3, acc4

MCTxs      == 1..4
MCRequires == <<{o2, acc4}, {acc3}, {c3}, {acc4}>>
MCOutputs  == <<{}, {o2}, {}, {}>>
MCAccounts == <<{}, {}, {acc3}, {}>>

\* No peer is named by anything but its own calls.
MCSymmetry == Permutations({p1, p2})
=============================================================================
