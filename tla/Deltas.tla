-------------------------------- MODULE Deltas --------------------------------
(***************************************************************************)
(* The accounting crate: differences between accounting states, how they  *)
(* are merged with one another, applied to a stored state, and inverted.   *)
(*                                                                         *)
(* An accounting state is a record [data, amounts]: `data' gives every     *)
(* account its data, NoData if there is none, and `amounts' gives every    *)
(* balance an amount.  A balance of zero is never stored, so an absent     *)
(* balance and a zero one are the same.  A delta is a record of the same   *)
(* form: `data' is defined for the accounts the delta touches, and gives   *)
(* the old and the new data; `amounts' is what is added to each balance    *)
(* (a difference of zero is never stored either).                          *)
(*                                                                         *)
(* In the code a delta has one collection per kind of account and balance; *)
(* here the keys of the different kinds are disjoint and share one         *)
(* function.  Amounts are unbounded: the code reports an error beyond      *)
(* 2^127, which the total supply of coins does not reach.                  *)
(***************************************************************************)
EXTENDS Integers

CONSTANT NoData      \* Option::None

----------------------------------------------------------------------------
(***************************************************************************)
(* One account                                                             *)
(***************************************************************************)
DataDelta(old, new) == [old |-> old, new |-> new]

Invert(d) == DataDelta(d.new, d.old)

\* combine_data_with_delta reports an error unless the delta starts from the
\* data it is applied to, whether there is any or not.
DataMatches(data, d) == data = d.old

\* combine_delta_data reports an error unless the second delta starts where
\* the first one ends.
Combinable(lhs, rhs) == lhs.new = rhs.old

CombineDeltaData(lhs, rhs) == DataDelta(lhs.old, rhs.new)

----------------------------------------------------------------------------
(***************************************************************************)
(* Collections                                                             *)
(***************************************************************************)
NoChange(AmountKeys) == [data |-> [k \in {} |-> NoData], amounts |-> [k \in AmountKeys |-> 0]]

\* A delta that touches the data of one account only.
DataOf(k, d) == [x \in {k} |-> d]

\* Adding the amount to each of the keys of K.
AmountOf(AmountKeys, K, amount) == [k \in AmountKeys |-> IF k \in K THEN amount ELSE 0]

\* merge_delta_data: deltas of accounts that both touch must fit together.
Mergeable(d, other) ==
  \A k \in (DOMAIN d.data) \cap (DOMAIN other.data) : Combinable(d.data[k], other.data[k])

MergeData(c, other) ==
  [k \in (DOMAIN c) \cup (DOMAIN other) |->
     IF k \notin DOMAIN other THEN c[k]
     ELSE IF k \notin DOMAIN c THEN other[k]
     ELSE CombineDeltaData(c[k], other[k])]

MergeAmounts(a, other) == [k \in DOMAIN a |-> a[k] + other[k]]

\* merge_with_delta on a delta
Merge(d, other) == [data |-> MergeData(d.data, other.data),
                    amounts |-> MergeAmounts(d.amounts, other.amounts)]

\* What undoes a merge: the data deltas inverted, the amounts negated.
InvertAll(d) == [data |-> [k \in DOMAIN d.data |-> Invert(d.data[k])],
                 amounts |-> [k \in DOMAIN d.amounts |-> -d.amounts[k]]]

----------------------------------------------------------------------------
(***************************************************************************)
(* A delta on top of a stored state                                        *)
(***************************************************************************)
\* merge_with_delta on a database succeeds: every data delta starts from the
\* stored data, and no balance becomes negative.
Applies(state, d) ==
  /\ \A k \in DOMAIN d.data : DataMatches(state.data[k], d.data[k])
  /\ \A k \in DOMAIN state.amounts : state.amounts[k] + d.amounts[k] >= 0

\* The state a database reaches, and what a view reads through the delta: the
\* new data of the accounts the delta touches, the parent's data of others.
Apply(state, d) ==
  [data |-> [k \in DOMAIN state.data |->
               IF k \in DOMAIN d.data THEN d.data[k].new ELSE state.data[k]],
   amounts |-> MergeAmounts(state.amounts, d.amounts)]
==============================================================================
