------------------------------ MODULE PosLedger ------------------------------
(***************************************************************************)
(* What the accounting of stake pools and delegations promises: a plain    *)
(* ledger of what each staker and each delegator owns, without deltas,     *)
(* shares, pool balances or undos.  Disconnecting a block brings back the  *)
(* ledger as it was before the block.                                      *)
(***************************************************************************)
EXTENDS Integers, Sequences, SequencesExt

CONSTANTS Pools, Delegations, Amounts, Rewards, NoData

VARIABLES
  stakers,       \* what the staker of each pool owns, NoData without the pool
  delegators,    \* [pool, balance] for each delegation, NoData without it
  past           \* the ledgers after each block, from the one at genesis

ledgerVars == <<stakers, delegators, past>>

Ledger == <<stakers, delegators>>

Init ==
  /\ stakers = [p \in Pools |-> NoData]
  /\ delegators = [d \in Delegations |-> NoData]
  /\ past = <<Ledger>>

Create(p, pledge) ==
  /\ stakers[p] = NoData
  /\ stakers' = [stakers EXCEPT ![p] = pledge]
  /\ UNCHANGED <<delegators, past>>

\* The staker takes everything out; the delegators keep what they own.
Decommission(p) ==
  /\ stakers[p] # NoData
  /\ stakers' = [stakers EXCEPT ![p] = NoData]
  /\ UNCHANGED <<delegators, past>>

Open(d, p) ==
  /\ stakers[p] # NoData /\ delegators[d] = NoData
  /\ delegators' = [delegators EXCEPT ![d] = [pool |-> p, balance |-> 0]]
  /\ UNCHANGED <<stakers, past>>

Close(d) ==
  /\ delegators[d] # NoData
  /\ delegators[d].balance = 0 /\ stakers[delegators[d].pool] = NoData
  /\ delegators' = [delegators EXCEPT ![d] = NoData]
  /\ UNCHANGED <<stakers, past>>

Deposit(d, amount) ==
  /\ delegators[d] # NoData
  /\ delegators' = [delegators EXCEPT ![d].balance = @ + amount]
  /\ UNCHANGED <<stakers, past>>

Withdraw(d, amount) ==
  /\ delegators[d] # NoData
  /\ delegators[d].balance >= amount
  /\ delegators' = [delegators EXCEPT ![d].balance = @ - amount]
  /\ UNCHANGED <<stakers, past>>

EndBlock == past' = Append(past, Ledger')

Block == EndBlock /\ UNCHANGED <<stakers, delegators>>

DelegatorsOf(p) ==
  {d \in Delegations : delegators[d] # NoData /\ delegators[d].pool = p}

\* The whole reward is shared out among the staker and the pool's delegators;
\* no delegator gets less than one who owns less.
Reward(p, total) ==
  /\ stakers[p] # NoData
  /\ \E gain \in [Delegations -> 0..total] :
       /\ \A d \in Delegations \ DelegatorsOf(p) : gain[d] = 0
       /\ \A d, e \in DelegatorsOf(p) :
            delegators[d].balance <= delegators[e].balance => gain[d] <= gain[e]
       /\ SumFunction(gain) <= total
       /\ stakers' = [stakers EXCEPT ![p] = @ + (total - SumFunction(gain))]
       /\ delegators' = [d \in Delegations |->
            IF d \in DelegatorsOf(p) THEN [delegators[d] EXCEPT !.balance = @ + gain[d]]
            ELSE delegators[d]]
  /\ EndBlock

\* An invalid block has no effect.
Abandon ==
  /\ <<stakers', delegators'>> = Last(past)
  /\ UNCHANGED past

Disconnect ==
  /\ Len(past) > 1
  /\ Ledger = Last(past)
  /\ past' = Front(past)
  /\ <<stakers', delegators'>> = Last(past')

Next ==
  \/ \E p \in Pools, a \in Amounts : Create(p, a)
  \/ \E p \in Pools : Decommission(p)
  \/ \E d \in Delegations, p \in Pools : Open(d, p)
  \/ \E d \in Delegations : Close(d)
  \/ \E d \in Delegations, a \in Amounts : Deposit(d, a) \/ Withdraw(d, a)
  \/ Block
  \/ \E p \in Pools, r \in Rewards : Reward(p, r)
  \/ Abandon
  \/ Disconnect

Spec == Init /\ [][Next]_ledgerVars
==============================================================================
