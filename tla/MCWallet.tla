------------------------------ MODULE MCWallet ------------------------------
(***************************************************************************)
(* The two sides of a wallet: the blocks it scans, and the transactions of *)
(* an account.  They share no state, so it is enough to look at the        *)
(* behaviours in which one of them rests.                                  *)
(***************************************************************************)
EXTENDS WalletSync, WalletTxs, MCTrees

\* A new wallet; one with accounts at different blocks of a growing chain; and one
\* that is locked and unlocked, and stopped, while its unused accounts are paid for
\* the first time, with reorgs or a scan from the start.
FromGenesis ==
  [tip |-> G, best |-> [i \in Accounts |-> G], used |-> 1,
   reorgs |-> TRUE, resets |-> TRUE, locks |-> FALSE, restarts |-> 0, rescans |-> 1]
Scattered ==
  [tip |-> a2, best |-> [i \in Accounts |-> IF i = 1 THEN G ELSE a1], used |-> 2,
   reorgs |-> FALSE, resets |-> FALSE, locks |-> TRUE, restarts |-> 2, rescans |-> 0]
Interrupted ==
  [tip |-> a1, best |-> [i \in Accounts |-> G], used |-> 1,
   reorgs |-> TRUE, resets |-> FALSE, locks |-> TRUE, restarts |-> 1, rescans |-> 0]
Rescanned ==
  [tip |-> a1, best |-> [i \in Accounts |-> G], used |-> 1,
   reorgs |-> FALSE, resets |-> FALSE, locks |-> TRUE, restarts |-> 1, rescans |-> 1]
AllScenarios == {FromGenesis, Scattered, Interrupted, Rescanned}

\* The first account is paid on both branches, the others on one.
PaysAll == [b \in ForkBlock |->
              CASE b \in {a1, a2} -> {0}
                [] b = b2 -> {0, 1, 2}
                [] b = b3 -> {1}
                [] OTHER -> {}]

\* m0 and m1 are commands that follow each other, f freezes the token instead, and
\* p is a payment from its change.
CONSTANTS m0, m1, f, p

Commands == {m0, m1, f}
AllTxs == {m0, m1, f, p}
Ids == <<m0, f, p, m1>>
Nonces == m0 :> 0 @@ m1 :> 1 @@ f :> 0 @@ p :> NoNonce

\* The outputs: <<transaction, index>>, or coins from before.
AllOuts == (Txs \cup {NoTx}) \X {1, 2}
Sources == [o \in AllOuts |-> o[1]]
Change == m0 :> {<<NoTx, 1>>} @@ m1 :> {<<m0, 1>>} @@ f :> {<<NoTx, 2>>} @@ p :> {<<f, 1>>}

----------------------------------------------------------------------------
WalletInit == Init /\ TxsInit

WalletNext ==
  \/ TxsInit /\ Next /\ UNCHANGED txsVars
  \/ Init /\ InSync /\ TxsNext /\ UNCHANGED vars

WalletSpec == WalletInit /\ [][WalletNext]_<<vars, txsVars>> /\ WF_vars(SyncStep /\ UNCHANGED scenario)
=============================================================================
