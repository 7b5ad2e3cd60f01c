------------------------------ MODULE MCCalls ------------------------------
(***************************************************************************)
(* The calls of the chainstate, and on its own the pool that keeps orphan  *)
(* blocks for it, which Chainstate has as a set: one of them rests.        *)
(***************************************************************************)
EXTENDS MCChainstate, OrphanPool

CallsInit == Init /\ PoolInit

CallsNext ==
    \/ PoolInit /\ Next /\ UNCHANGED poolVars
    \/ Init /\ PoolNext /\ UNCHANGED vars

CallsSpec == CallsInit /\ [][CallsNext]_<<vars, poolVars>> /\ WF_vars(Step)
=============================================================================
