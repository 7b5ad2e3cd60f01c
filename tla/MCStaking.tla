------------------------------ MODULE MCStaking ------------------------------
(***************************************************************************)
(* The accounting of stake, and its seal.  The seal only sees the deltas   *)
(* of blocks, not what they are about, so the two are looked at one at a   *)
(* time.                                                                   *)
(***************************************************************************)
EXTENDS PosAccounting, EpochSeal

CONSTANTS p1, p2, d1, d2, v1

TwoPools == {p1, p2}
TwoDelegations == {d1, d2}
MCValues == {v1}

----------------------------------------------------------------------------
StakingInit == Init /\ SealInit

StakingNext ==
  \/ SealInit /\ Next /\ UNCHANGED sealVars
  \/ Init /\ SealNext /\ UNCHANGED vars

StakingSpec == StakingInit /\ [][StakingNext]_<<vars, sealVars>>
=============================================================================
