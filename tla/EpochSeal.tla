------------------------------ MODULE EpochSeal ------------------------------
(***************************************************************************)
(* The sealed accounting state and the data of epochs, as the chainstate   *)
(* maintains them when blocks are connected to the tip and disconnected.   *)
(*                                                                         *)
(* The consensus rules do not use the stake at the tip but the sealed one, *)
(* some epochs behind, so that nobody can choose it at the last moment.    *)
(* Every block's accounting delta is merged into the delta of its epoch,   *)
(* that of a disconnected block too, which is the inverse of what the      *)
(* block did.  With the last block of an epoch, the delta of an earlier    *)
(* epoch is merged into the sealed state, and what undoes this is stored;  *)
(* disconnecting such a block undoes it.  The last block of an epoch also  *)
(* determines the epoch's randomness, out of its own proof and of the      *)
(* randomness of a sealed epoch.                                           *)
(*                                                                         *)
(* A block is what it changes: accounting data of one account or an amount *)
(* of one balance, and the seed of its proof.  That the verifier's deltas  *)
(* describe what a block changes, and those of a disconnection the         *)
(* opposite, is the subject of PosAccounting.  All blocks are proof of     *)
(* stake blocks.                                                           *)
(***************************************************************************)
EXTENDS Deltas, Sequences, SequencesExt

CONSTANTS
  Values,            \* data of an account
  MaxAmount,         \* bound on the balance
  Seeds,             \* seeds of the proofs of blocks
  DefaultSeed,       \* the seed of blocks whose proof is never looked at
  EpochLength,       \* ChainConfig::epoch_length
  Distance,          \* ChainConfig::sealed_epoch_distance_from_tip
  MaxHeight          \* bound on the height of the tip

\* A pool, and its balance.
AccountKeys == {"pool"}
BalanceKeys == {"balance"}

\* Changes of the data and of the balance
SealDeltas ==
  LET data == [old : Values \cup {NoData}, new : Values \cup {NoData}]
  IN [data : UNION {[K -> data] : K \in SUBSET AccountKeys}, amounts : [BalanceKeys -> Int]]

ASSUME EpochAssumption ==
  /\ NoData \notin Values \cup SealDeltas
  /\ EpochLength \in Nat \ {0} /\ Distance \in Nat \ {0}
  /\ DefaultSeed \in Seeds
  /\ MaxAmount \in Nat /\ MaxHeight \in Nat

VARIABLES
  blocks,        \* the main chain above genesis: [delta, seed], delta NoData
                 \* for a block without accounting operations
  tip,           \* the accounting state at the tip
  sealed,        \* the sealed accounting state
  epochDelta,    \* the stored deltas of epochs, NoData if there is none
  epochUndo,     \* what undoes a seal, NoData if there is nothing to undo
  epochData,     \* the randomness of epochs, NoData if it is not known
  failed         \* a merge reported an error

sealVars == <<blocks, tip, sealed, epochDelta, epochUndo, epochData, failed>>

State(data, amount) == [data |-> [k \in AccountKeys |-> data], amounts |-> [k \in BalanceKeys |-> amount]]

Genesis == State(NoData, 0)

----------------------------------------------------------------------------
(***************************************************************************)
(* Epochs                                                                  *)
(***************************************************************************)
EpochIndexFromHeight(height) == height \div EpochLength

IsLastBlockInEpoch(height) == (height + 1) % EpochLength = 0

IsDueForEpochSeal(height) ==
  IsLastBlockInEpoch(height) /\ EpochIndexFromHeight(height) >= Distance

\* The last sealed epoch when the tip is at the height, negative if there is none
SealedEpochIndex(height) ==
  EpochIndexFromHeight(height) - Distance - (IF IsLastBlockInEpoch(height) THEN 0 ELSE 1)

Epochs == 0..EpochIndexFromHeight(MaxHeight)

Height == Len(blocks)

----------------------------------------------------------------------------
(***************************************************************************)
(* apply_accounting_delta: a block's delta, or the inverse of it, is merged *)
(* into the delta of the block's epoch.                                    *)
(***************************************************************************)
OrNoChange(delta) == IF delta = NoData THEN NoChange(BalanceKeys) ELSE delta

Merged(height, delta) ==
  LET e == EpochIndexFromHeight(height)
  IN IF delta = NoData THEN epochDelta
     ELSE [epochDelta EXCEPT ![e] = Merge(OrNoChange(@), delta)]

MergeFails(height, delta) ==
  /\ delta # NoData
  /\ \/ ~Applies(tip, delta)
     \/ ~Mergeable(OrNoChange(epochDelta[EpochIndexFromHeight(height)]), delta)

----------------------------------------------------------------------------
(***************************************************************************)
(* Connecting a block                                                      *)
(***************************************************************************)
\* advance_epoch_seal: an epoch without accounting data has no delta.
AdvanceEpochSeal(height, deltas) ==
  LET e == EpochIndexFromHeight(height) - Distance
      d == deltas[e]
  IN IF IsDueForEpochSeal(height) /\ d # NoData
     THEN /\ sealed' = Apply(sealed, d)
          /\ epochUndo' = [epochUndo EXCEPT ![e] = InvertAll(d)]
          /\ failed' = (failed \/ MergeFails(height, Last(blocks').delta) \/ ~Applies(sealed, d))
     ELSE /\ UNCHANGED <<sealed, epochUndo>>
          /\ failed' = (failed \/ MergeFails(height, Last(blocks').delta))

\* create_randomness_from_block: out of the seed and the sealed randomness
RandomnessAt(height, seed, data) ==
  LET e == SealedEpochIndex(height)
  IN [seed |-> seed, from |-> IF e < 0 THEN NoData ELSE data[e]]

\* update_epoch_data on Connect
ConnectEpochData(height, seed) ==
  IF IsLastBlockInEpoch(height)
  THEN [epochData EXCEPT ![EpochIndexFromHeight(height)] = RandomnessAt(height, seed, epochData)]
  ELSE epochData

\* A block changes the data of the account, also to what it was, or the balance:
\* the two are merged independently of each other.
DataBlock(data) ==
  [data |-> [k \in AccountKeys |-> DataDelta(tip.data[k], data)],
   amounts |-> [k \in BalanceKeys |-> 0]]

BalanceBlock(amount) ==
  [data |-> [k \in {} |-> NoData],
   amounts |-> [k \in BalanceKeys |-> amount - tip.amounts[k]]]

\* connect_tip and post_connect_tip
Connect(delta, seed) ==
  LET height == Height + 1
  IN /\ Height < MaxHeight
     /\ blocks' = Append(blocks, [delta |-> delta, seed |-> seed])
     /\ tip' = Apply(tip, OrNoChange(delta))
     /\ epochDelta' = Merged(height, delta)
     /\ AdvanceEpochSeal(height, epochDelta')
     /\ epochData' = ConnectEpochData(height, seed)

ConnectBlockWithData(data, seed) == Connect(DataBlock(data), seed)
ConnectBlockWithBalance(amount, seed) == Connect(BalanceBlock(amount), seed)
ConnectBlockWithoutAccounting(seed) == Connect(NoData, seed)

----------------------------------------------------------------------------
(***************************************************************************)
(* Disconnecting the tip                                                   *)
(***************************************************************************)
\* As UnsealedEpoch, but the height of the new tip is looked at.
UnsealedEpochBelow(height) ==
  IF IsDueForEpochSeal(height - 1) THEN EpochIndexFromHeight(height - 1) - Distance ELSE -1

\* The epoch that was sealed with the block at the height, -1 if none was
UnsealedEpoch(height) ==
  IF IsDueForEpochSeal(height) THEN EpochIndexFromHeight(height) - Distance ELSE -1

\* rollback_epoch_seal
RollbackEpochSeal(height, inverse) ==
  LET e == UnsealedEpoch(height)
  IN IF e >= 0 /\ epochUndo[e] # NoData
     THEN /\ sealed' = Apply(sealed, epochUndo[e])
          /\ epochUndo' = [epochUndo EXCEPT ![e] = NoData]
          /\ failed' = (failed \/ MergeFails(height, inverse) \/ ~Applies(sealed, epochUndo[e]))
     ELSE /\ UNCHANGED <<sealed, epochUndo>>
          /\ failed' = (failed \/ MergeFails(height, inverse))

\* When the first block of an epoch is disconnected, what is stored for the
\* epoch is deleted (the delta in post_disconnect_tip, the data in
\* update_epoch_data).
Forgotten(height, stored) ==
  IF IsLastBlockInEpoch(height - 1)
  THEN [stored EXCEPT ![EpochIndexFromHeight(height)] = NoData]
  ELSE stored

\* disconnect_tip and post_disconnect_tip
Disconnect ==
  LET delta   == Last(blocks).delta
      inverse == IF delta = NoData THEN NoData ELSE InvertAll(delta)
  IN /\ blocks # <<>>
     /\ blocks' = Front(blocks)
     /\ tip' = Apply(tip, OrNoChange(inverse))
     /\ epochDelta' = Forgotten(Height, Merged(Height, inverse))
     /\ RollbackEpochSeal(Height, inverse)
     /\ epochData' = Forgotten(Height, epochData)

----------------------------------------------------------------------------
SealInit ==
  /\ blocks = <<>>
  /\ tip = Genesis /\ sealed = Genesis
  /\ epochDelta = [e \in Epochs |-> NoData]
  /\ epochUndo = [e \in Epochs |-> NoData]
  /\ epochData = [e \in Epochs |-> NoData]
  /\ failed = FALSE

\* Only the proof of the last block of an epoch has an effect.
NextSeeds == IF IsLastBlockInEpoch(Height + 1) THEN Seeds ELSE {DefaultSeed}

SealNext ==
  \/ \E data \in Values \cup {NoData}, seed \in NextSeeds : ConnectBlockWithData(data, seed)
  \/ \E amount \in 0..MaxAmount, seed \in NextSeeds : ConnectBlockWithBalance(amount, seed)
  \/ \E seed \in NextSeeds : ConnectBlockWithoutAccounting(seed)
  \/ Disconnect

SealSpec == SealInit /\ [][SealNext]_sealVars

----------------------------------------------------------------------------
(***************************************************************************)
(* Properties                                                              *)
(***************************************************************************)
\* The accounting state after the first h blocks of a chain, and of the main chain
ReplayOf(bs, h) ==
  LET after[i \in 0 .. Len(bs)] ==
        IF i = 0 THEN Genesis ELSE Apply(after[i - 1], OrNoChange(bs[i].delta))
  IN after[h]

Replay(h) == ReplayOf(blocks, h)

FirstHeight(e) == e * EpochLength
LastHeight(e) == (e + 1) * EpochLength - 1

Smaller(a, b) == IF a < b THEN a ELSE b
Larger(a, b) == IF a < b THEN b ELSE a

SealStates == [data : [AccountKeys -> Values \cup {NoData}], amounts : [BalanceKeys -> 0..MaxAmount]]

\* The stored states are accounting states, and nothing is stored for epochs
\* out of range.
SealTypeOK ==
  /\ Len(blocks) <= MaxHeight
  /\ tip \in SealStates /\ sealed \in SealStates
  /\ DOMAIN epochDelta = Epochs /\ DOMAIN epochUndo = Epochs /\ DOMAIN epochData = Epochs
  /\ failed \in BOOLEAN

\* The sealed state is the accounting state at the end of the epoch that
\* ChainConfig::sealed_epoch_index names, on whatever branch the tip is and
\* however it got there; at genesis it is the genesis state.
SealedIsPastState ==
  sealed = Replay(Larger(LastHeight(SealedEpochIndex(Height)), 0))

\* The delta stored for an epoch leads from the state before the epoch to the
\* state after it (or at the tip), also if blocks of the epoch came and went,
\* and no later epoch has left anything behind ("its traces can mess up with
\* connection of future blocks").
EpochDeltasAreCurrent ==
  \A e \in Epochs :
    IF e > EpochIndexFromHeight(Height) THEN epochDelta[e] = NoData
    ELSE LET before == Replay(Larger(FirstHeight(e) - 1, 0))
         IN /\ Applies(before, OrNoChange(epochDelta[e]))
            /\ Apply(before, OrNoChange(epochDelta[e])) = Replay(Smaller(LastHeight(e), Height))

\* Exactly the sealed epochs can be unsealed, and only if they had a delta.
UndosAreOfSealedEpochs ==
  \A e \in Epochs : epochUndo[e] # NoData <=>
    e <= SealedEpochIndex(Height) /\ epochDelta[e] # NoData

\* No delta fails to merge: neither into an epoch's delta nor into the sealed
\* state, and no seal fails to be undone.
SealsNeverFail == ~failed

\* The randomness of an epoch, out of the blocks of a chain
RandomnessOf(bs, epoch) ==
  LET Expected[e \in Epochs] ==
        LET s == SealedEpochIndex(LastHeight(e))
        IN IF LastHeight(e) = 0 THEN NoData
           ELSE [seed |-> bs[LastHeight(e)].seed,
                 from |-> IF s < 0 THEN NoData ELSE Expected[s]]
  IN Expected[epoch]

\* The randomness that the consensus rules use for the next block, that of the
\* epoch sealed_epoch_index names at its height, stems from blocks of the main
\* chain alone, although the data of an epoch is kept when its last blocks are
\* disconnected.
RandomnessIsOfMainChain ==
  LET used == SealedEpochIndex(Height + 1)
  IN used >= 0 /\ LastHeight(used) <= Height => epochData[used] = RandomnessOf(blocks, used)

\* What the code keeps besides the accounting state at the tip is what the main
\* chain alone determines, whatever was connected and disconnected on the way.
SealInv ==
  /\ SealedIsPastState /\ EpochDeltasAreCurrent /\ UndosAreOfSealedEpochs
  /\ SealTypeOK /\ SealsNeverFail
  /\ RandomnessIsOfMainChain
==============================================================================
