------------------------------- MODULE MCTasks -------------------------------
(***************************************************************************)
(* The tasks of the subsystems and those of block production.  Block       *)
(* production is a subsystem whose calls are served one after the other,   *)
(* and its jobs need no more of the others than the tip; so the two are    *)
(* looked at one at a time.                                                *)
(***************************************************************************)
EXTENDS Subsystems, BlockProduction, TLC

CONSTANTS k1, x1, x2, x3

OneKey == {k1}
ThreeTips == {x1, x2, x3}

\* x2 comes after x1, x3 is a competitor of x2.
TimeOf == x1 :> 1 @@ x2 :> 2 @@ x3 :> 2

----------------------------------------------------------------------------
TasksInit == Init /\ ProductionInit

\* One of the initial states of block production is enough to look at the others.
AtRest == ProductionInit /\ tip = x1 /\ ~endless

TasksNext ==
  \/ AtRest /\ Next /\ UNCHANGED productionVars
  \/ Init /\ ProductionNext /\ UNCHANGED vars

\* Block production rests in its initial states, the subsystems do not: they start.
TasksFairness == WF_vars(AtRest /\ Progress) /\ ProductionFairness

TasksSpec == TasksInit /\ [][TasksNext]_<<vars, productionVars>> /\ TasksFairness
=============================================================================
