----------------------------- MODULE MCVerifier ------------------------------
(***************************************************************************)
(* What a transaction verifier caches: the utxos, and the accounting of    *)
(* tokens and orders.  Neither cache sees the other, so the two are looked *)
(* at one at a time.                                                       *)
(*                                                                         *)
(* Transaction t1 and block reward r spend the same genesis output, a      *)
(* spends an account only, and t2 spends an output of t1 and one of a.     *)
(* There is one token, and an order that sells it for coins or buys it.    *)
(***************************************************************************)
EXTENDS UtxosCache, TokensOrders

CONSTANTS t1, t2, r, a, g, x, k, w, burn, s1, b0, b1,
          tok1, o1, a1

MCTxs    == {t1, t2, r, a}
MCPoints == {g, x, k, w, burn}
MCSource ==
    [o \in MCPoints |-> CASE o = g -> Genesis
                          [] o \in {x, burn} -> t1
                          [] o = k -> r
                          [] o = w -> a]
MCInputs ==
    [t \in MCTxs |-> CASE t \in {t1, r} -> {g}
                       [] t = t2 -> {x, w}
                       [] t = a -> {}]

OneToken == {tok1}
OneOrder == {o1}
OneAuthority == {a1}

LockableOrFixed == {[kind |-> "Lockable", limit |-> 0], [kind |-> "Fixed", limit |-> 4]}

Sale     == [ask |-> 3, give |-> 4, askCurrency |-> Coin, giveCurrency |-> tok1]
Purchase == [ask |-> 3, give |-> 4, askCurrency |-> tok1, giveCurrency |-> Coin]

SalesAndPurchases == {Sale, Purchase}

-----------------------------------------------------------------------------
VerifierInit == Init /\ TokensInit

VerifierNext ==
    \/ TokensInit /\ Next /\ UNCHANGED tokensVars
    \/ Init /\ TokensNext /\ UNCHANGED vars

VerifierSpec == VerifierInit /\ [][VerifierNext]_<<vars, tokensVars>>
=============================================================================
