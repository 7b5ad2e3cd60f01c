----------------------------- MODULE WalletSync -----------------------------
(***************************************************************************)
(* A wallet that follows the chain of its node                             *)
(* (wallet/wallet-controller/src/sync/mod.rs), with several accounts and   *)
(* the next, unused one, which becomes an account when it is first paid.   *)
(*                                                                         *)
(* The node is asked several times in one synchronization, and its tip can *)
(* be another one each time.  Every account is saved by a database         *)
(* transaction of its own, so that a wallet that is stopped in between     *)
(* has accounts at different blocks.  An account is reduced to its best    *)
(* block and to the blocks it has found payments in.                       *)
(***************************************************************************)
EXTENDS RpcNode, Sequences, FiniteSets, SequencesExt

CONSTANTS
  MaxAccounts,        \* bound on the accounts
  Pays,               \* the accounts that a block pays
  MaxFetch,           \* MAX_FETCH_BLOCK_COUNT
  Scenarios           \* what a behaviour starts with, and what can happen in it

Accounts == 0 .. MaxAccounts     \* one of them is the unused one
Unused == MaxAccounts + 1        \* AccountType::UnusedAccount, whichever it is

ASSUME WalletAssumption ==
  /\ MaxAccounts \in Nat \ {0} /\ MaxFetch \in Nat \ {0}
  /\ Pays \in [Block -> SUBSET (0 .. MaxAccounts - 1)]
  /\ \A sc \in Scenarios :
       /\ sc.tip \in GenBlock /\ sc.best \in [Accounts -> GenBlock]
       /\ sc.used \in 1 .. MaxAccounts
       /\ {sc.reorgs,            \* can the node leave its chain,
           sc.resets,            \* or start from nothing?
           sc.locks}             \* can the wallet be locked?
          \subseteq BOOLEAN
       /\ {sc.restarts, sc.rescans} \subseteq Nat   \* how often is it stopped, or scans again?

\* Accounts are used one after the other: a user can only create an account
\* when the last one has been paid.
ASSUME NoGapsAssumption ==
  \A b \in Block : \A i \in Pays[b] \ {0} : \E c \in Chain(b) : i - 1 \in Pays[c]

VARIABLES
  scenario,
  best, seen,         \* the accounts: best block, blocks with payments
  used,               \* the number of used accounts, and the index of the unused one
  locked,             \* is the wallet locked?
  pc,                 \* what sync_once does next
  target,             \* the node's best block when it was asked
  groups,             \* the groups of accounts, from highest to lowest
  fetched, todo,      \* the blocks to scan, and the accounts that have not yet
  outcome,            \* how the last sync_once failed
  restarts, rescans,
  gaps,               \* history: the accounts that were not scanned from where they are,
  held                \* and the unused ones that were paid and not made used ones

wallet == <<best, seen, used, locked>>
sync == <<pc, target, groups, fetched, todo, outcome>>
history == <<gaps, held>>
vars == <<node, wallet, sync, restarts, rescans, history, scenario>>

Init ==
  /\ scenario \in Scenarios
  /\ NodeInit(scenario.tip)
  /\ best = scenario.best /\ used = scenario.used /\ locked = FALSE
  /\ seen = [i \in Accounts |-> {b \in Chain(best[i]) : i \in Pays[b]}]
  /\ pc = "idle" /\ target = Genesis /\ groups = <<>> /\ fetched = <<>> /\ todo = <<>>
  /\ outcome = "none"
  /\ restarts = 0 /\ rescans = 0 /\ gaps = {} /\ held = {}

----------------------------------------------------------------------------
(***************************************************************************)
(* The node                                                                *)
(***************************************************************************)
MoveTip == NewTip(scenario.reorgs) /\ UNCHANGED <<wallet, sync, restarts, rescans, history>>

Reset == scenario.resets /\ EmptyNode /\ UNCHANGED <<wallet, sync, restarts, rescans, history>>

----------------------------------------------------------------------------
(***************************************************************************)
(* The wallet                                                              *)
(***************************************************************************)
Index(a) == IF a = Unused THEN used ELSE a
Known == 0 .. used               \* the accounts that are followed

\* As Kept, but what was found in blocks that are not common any more is kept.
KeptAll(i, height) == seen[i]

\* reset_to_height
Kept(i, height) ==
  IF Height[best[i]] > height THEN {b \in seen[i] : Height[b] <= height} ELSE seen[i]

Found(i, blocks) == {b \in ToSet(blocks) : i \in Pays[b]}

\* Account::scan_new_blocks
ScanNewBlocks(i, height, blocks) ==
  /\ best' = [best EXCEPT ![i] = Last(blocks)]
  /\ seen' = [seen EXCEPT ![i] = Kept(i, height) \cup Found(i, blocks)]

CanCreate == ~locked /\ seen[used - 1] # {} /\ used < MaxAccounts

\* create_next_account: the unused account becomes a used one, and the next one
\* goes on from where it is.
NextAccount ==
  /\ used' = used + 1
  /\ best' = [best EXCEPT ![used + 1] = best[used]]
  /\ seen' = [seen EXCEPT ![used + 1] = {}]

CreateAccount ==
  /\ pc = "idle"
  /\ CanCreate
  /\ NextAccount
  /\ UNCHANGED <<node, locked, sync, restarts, rescans, history>>

Lock ==
  /\ pc = "idle" /\ scenario.locks
  /\ locked' = ~locked
  /\ UNCHANGED <<node, best, seen, used, sync, restarts, rescans, history>>

\* reset_wallet_to_genesis
Rescan ==
  /\ pc = "idle" /\ rescans < scenario.rescans
  /\ best' = [i \in Accounts |-> Genesis]
  /\ seen' = [i \in Accounts |-> {}]
  /\ rescans' = rescans + 1
  /\ gaps' = {} /\ held' = {}
  /\ UNCHANGED <<node, used, locked, sync, restarts>>

From(i) == {j \in Accounts : j >= i}

\* Between the database transactions of the loop of scan_new_blocks_unused_account,
\* an account has been scanned and is not a used one yet, or it is one now and the
\* next has not been scanned.
Unscanned ==
  IF pc = "promote" THEN From(used + 1)
  ELSE IF pc = "scan" /\ todo # <<>> /\ Head(todo) = Unused /\ best[used] = Last(fetched)
       THEN From(used) ELSE {}

\* The wallet is stopped and started again: what was scanned is in the database.
Restart ==
  /\ pc # "idle"
  /\ restarts' = restarts + (IF pc = "panicked" THEN 0 ELSE 1)
  /\ restarts' <= scenario.restarts
  /\ pc' = "idle" /\ groups' = <<>> /\ fetched' = <<>> /\ todo' = <<>>
  /\ outcome' = "none"
  /\ gaps' = gaps \cup Unscanned
  /\ held' = held \cup (IF pc = "promote" THEN {used} ELSE {})
  /\ UNCHANGED <<node, wallet, target, rescans>>

----------------------------------------------------------------------------
(***************************************************************************)
(* sync_once                                                               *)
(***************************************************************************)
InSync == \A i \in Known : best[i] = tip

\* As NodeOutOfSync, but the wallet also waits for a node at its own height.
NodeNotAhead == \E i \in Known : Height[tip] <= Height[best[i]]

NodeOutOfSync == \E i \in Known : Height[tip] < Height[best[i]]

Start ==
  /\ pc = "idle"
  /\ ~InSync /\ ~NodeOutOfSync
  /\ pc' = "group" /\ target' = tip /\ outcome' = "none"
  /\ UNCHANGED <<node, wallet, groups, fetched, todo, restarts, rescans, history>>

\* The accounts, the unused one last
AccountTypes == 0 .. used - 1 \cup {Unused}

\* group_accounts_by_mainchain_blocks: accounts with the same best block are a
\* group; groups are ordered from high to low by the height of the last block
\* they have in common with the node.
Groups ==
  LET group(b) == [common |-> CommonBlock(b, target),
                   accounts |-> SetToSortSeq({a \in AccountTypes : best[Index(a)] = b}, <)]
      starts == {best[i] : i \in Known}
      order == SetToSortSeq(starts, LAMBDA b, c :
                 Height[CommonBlock(b, target)] > Height[CommonBlock(c, target)])
  IN [n \in DOMAIN order |-> group(order[n])]

\* Two assertions of get_common_block_info
GroupAccounts ==
  /\ pc = "group"
  /\ IF \A i \in Known : best[i] # target /\ Height[best[i]] <= Height[target]
     THEN pc' = "fetch" /\ groups' = Groups
     ELSE pc' = "panicked" /\ UNCHANGED groups
  /\ UNCHANGED <<node, wallet, target, fetched, todo, outcome, restarts, rescans, history>>

Current == Last(groups)
NextGroup == groups[Len(groups) - 1]

BlocksToFetch ==
  IF Len(groups) > 1 THEN Height[NextGroup.common] - Height[Current.common] ELSE MaxFetch

Fail(error) == pc' = "idle" /\ outcome' = error /\ groups' = <<>> /\ UNCHANGED <<fetched, todo>>

\* fetch_next_blocks
Fetch ==
  /\ pc = "fetch"
  /\ LET blocks == MainchainBlocks(Height[Current.common] + 1, BlocksToFetch)
     IN IF blocks = <<>> THEN Fail("NoNewBlocksFound")
        ELSE IF Parent[Head(blocks)] # Current.common THEN Fail("InvalidPrevBlockId")
        ELSE /\ pc' = "scan" /\ fetched' = blocks /\ todo' = Current.accounts
             /\ UNCHANGED <<groups, outcome>>
  /\ UNCHANGED <<node, wallet, target, restarts, rescans, history>>

CommonHeight == Height[Current.common]

\* Only the unused account is looked at again: it may be another one now.
AfterScan(a) ==
  IF a = Unused /\ Found(used, fetched) # {} THEN pc' = "promote" /\ UNCHANGED todo
  ELSE UNCHANGED pc /\ todo' = Tail(todo)

\* scan_new_blocks, scan_new_blocks_unused_account
Scan ==
  /\ pc = "scan" /\ todo # <<>>
  /\ IF CommonHeight <= Height[best[Index(Head(todo))]]
     THEN ScanNewBlocks(Index(Head(todo)), CommonHeight, fetched) /\ AfterScan(Head(todo))
     ELSE pc' = "panicked" /\ UNCHANGED <<best, seen, todo>>
  /\ gaps' = gaps \cup (IF IsAncestorOrSelf(Current.common, best[Index(Head(todo))]) THEN {}
                        ELSE IF Head(todo) = Unused THEN From(used) ELSE {Head(todo)})
  /\ UNCHANGED <<node, used, locked, target, groups, fetched, outcome, restarts, rescans, held>>

\* create_next_account needs an unlocked wallet; what has been scanned stays.
Promote ==
  /\ pc = "promote"
  /\ IF CanCreate
     THEN /\ NextAccount
          /\ pc' = "scan"
          /\ UNCHANGED <<groups, fetched, todo, outcome>>
     ELSE Fail("CannotCreate") /\ UNCHANGED <<best, seen, used>>
  /\ IF ~CanCreate /\ (locked \/ best[used - 1] # best[used])
     THEN held' = held \cup {used} /\ gaps' = gaps \cup From(used + 1)
     ELSE UNCHANGED history
  /\ UNCHANGED <<node, locked, target, restarts, rescans>>

\* fetch_and_sync_to_next_group: the groups are one from now on.
Merge ==
  /\ pc = "scan" /\ todo = <<>>
  /\ IF Len(groups) > 1
     THEN /\ pc' = "fetch"
          /\ groups' = Append(SubSeq(groups, 1, Len(groups) - 2),
                         [NextGroup EXCEPT !.accounts = @ \o Current.accounts])
     ELSE pc' = "idle" /\ groups' = <<>>
  /\ fetched' = <<>>
  /\ UNCHANGED <<node, wallet, target, todo, outcome, restarts, rescans, history>>

SyncStep == Start \/ GroupAccounts \/ Fetch \/ Scan \/ Promote \/ Merge

Next ==
  /\ SyncStep \/ MoveTip \/ Reset \/ CreateAccount \/ Lock \/ Rescan \/ Restart
  /\ UNCHANGED scenario

\* The wallet keeps synchronizing.
Spec == Init /\ [][Next]_vars /\ WF_vars(SyncStep /\ UNCHANGED scenario)

----------------------------------------------------------------------------
(***************************************************************************)
(* Properties                                                              *)
(***************************************************************************)
\* Type correctness; no more blocks are fetched than allowed.
TypeOK ==
  /\ tip \in stored /\ stored \subseteq GenBlock
  /\ best \in [Accounts -> GenBlock] /\ seen \in [Accounts -> SUBSET Block]
  /\ used \in 1 .. MaxAccounts /\ locked \in BOOLEAN
  /\ pc \in {"idle", "group", "fetch", "scan", "promote", "panicked"}
  /\ target \in GenBlock
  /\ groups \in Seq([common : GenBlock, accounts : Seq(Accounts \cup {Unused})])
  /\ fetched \in Seq(Block) /\ todo \in Seq(Accounts \cup {Unused})
  /\ Len(groups) = 1 => Len(fetched) <= MaxFetch
  /\ gaps \cup held \subseteq Accounts

\* An account holds the payments of the chain to its best block, all of them and
\* no others, wherever the node's tip moved between the calls of
\* synchronizations, whether the account was followed from the start or was the
\* unused one.  The exception: when the loop of scan_new_blocks_unused_account was
\* cut short at an account, because the wallet was locked or was stopped, the
\* accounts after it start from its best block and are not scanned to there, until
\* the wallet is scanned from the start again.
ScannedChain ==
  \A i \in Known :
     /\ pc # "panicked" /\ ~(i = used /\ pc = "scan")
     /\ i \notin gaps
     => seen[i] = {b \in Chain(best[i]) : i \in Pays[b]}

\* "If a new transaction is recognized for the unused account, it is transferred
\* to the used accounts and a new unused account is created"
\* (wallet/src/wallet/mod.rs:2510).  The transfer is a database transaction of its
\* own that needs an unlocked wallet: an account whose transfer failed for that, or
\* was not reached before the wallet was stopped, stays the unused one although it
\* has payments.  There is no other way to get there.
UnusedHasNoPayments == pc = "idle" /\ used \notin held => seen[used] = {}

\* What the wallet knows of its accounts is what the chain says.
AccountsFollowChain == TypeOK /\ ScannedChain /\ UnusedHasNoPayments

\* When the node comes to rest, all accounts come to its tip, unless the wallet is
\* stopped in between, or the node has fewer blocks than the wallet, which waits
\* for it then.
CatchesUp == <>[](restarts > 0 \/ InSync \/ \E i \in Known : Height[tip] < Height[best[i]])
=============================================================================
