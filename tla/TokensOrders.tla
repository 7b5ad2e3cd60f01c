---------------------------- MODULE TokensOrders ----------------------------
(***************************************************************************)
(* The accounting of fungible tokens (tokens-accounting) and of orders     *)
(* (orders-accounting), as the transaction verifier drives it when blocks  *)
(* are connected and disconnected, with what the constraints value         *)
(* accumulator lets a transaction take out of an order and put into one.   *)
(*                                                                         *)
(* The database holds the state at the tip; a verifier reads it through    *)
(* its delta, into which every operation is merged, and remembers what     *)
(* undoes the operation.  A transaction has at most one account command,   *)
(* so one operation is one transaction; a token that is issued and an      *)
(* order that is created are outputs, here of transactions of their own.   *)
(*                                                                         *)
(* Keys of the amounts: <<"supply", token>> the circulating supply,        *)
(* <<"nonce", id>> how many commands with a nonce the account has seen,    *)
(* <<"ask", order>> and <<"give", order>> the order's balances.  The       *)
(* unspent outputs are abstracted to <<"held", currency>>, the amount of   *)
(* a currency in all of them.  Fees, and outputs that burn a token without *)
(* a command to unmint it, are left out.                                   *)
(***************************************************************************)
EXTENDS Deltas, Sequences, SequencesExt, FiniteSetsExt

CONSTANTS Tokens, OrderIds,
          Coin,             \* the currency that is not a token
          Coins,            \* how many coins there are
          Supplies,         \* total supplies of tokens that are issued: [kind, limit]
          Offers,           \* orders that are made: [ask, give, askCurrency, giveCurrency]
          Amounts,          \* amounts that are minted, unminted and filled
          Authorities,
          OrdersV1Height,   \* from this height on OrdersVersion::V1
          OpLimit,          \* bound on the operations of all blocks together
          BlockLimit        \* bound on the blocks

Currencies == Tokens \cup {Coin}

OfferType == [ask : Nat \ {0}, give : Nat \ {0},
              askCurrency : Currencies, giveCurrency : Currencies]

\* What is known of a token, and of an order
FrozenStates == {"NotFreezable", "Freezable", "Unfreezable", "ForGood"}
TokenType == [supply : Supplies, locked : BOOLEAN, frozen : FrozenStates,
              authority : Authorities]

OrderType == [ask : Nat \ {0}, give : Nat \ {0}, askCurrency : Currencies,
              giveCurrency : Currencies, frozen : BOOLEAN]

ASSUME TokensOrdersAssumption ==
  /\ Tokens \cap OrderIds = {} /\ Coin \notin Tokens /\ IsFiniteSet(OrderIds)
  /\ NoData \notin TokenType \cup OrderType
  /\ Coins \in Nat /\ Amounts \subseteq Nat \ {0}
  /\ Supplies \subseteq [kind : {"Fixed", "Lockable", "Unlimited"}, limit : Nat]
  /\ Offers \subseteq OfferType
  /\ \A offer \in Offers : offer.askCurrency # offer.giveCurrency
  /\ OrdersV1Height \in Nat /\ OpLimit \in Nat /\ BlockLimit \in Nat

VARIABLES
  accounts,    \* the database: the state at the tip
  verifier,    \* [delta, undos, failed]: failed if an operation that cannot
               \* fail reported an error
  chain,       \* the blocks: the undos that are stored for each
  saved        \* history variable: the database before each block

tokensVars == <<accounts, verifier, chain, saved>>

DataKeys   == Tokens \cup OrderIds
AmountKeys == ({"supply"} \X Tokens) \cup ({"nonce"} \X DataKeys)
                \cup ({"ask", "give"} \X OrderIds) \cup ({"held"} \X Currencies)

NewVerifier == [delta |-> NoChange(AmountKeys), undos |-> <<>>, failed |-> FALSE]

----------------------------------------------------------------------------
(***************************************************************************)
(* What a verifier reads                                                   *)
(***************************************************************************)
View(v) == Apply(accounts, v.delta)

GetData(v, k) == View(v).data[k]
Exists(v, k) == GetData(v, k) # NoData
GetAmount(v, kind, id) == View(v).amounts[<<kind, id>>]

\* For good, or until it is unfrozen
IsFrozen(data) == data.frozen \in {"Unfreezable", "ForGood"}

TokenFrozen(v, t) == Exists(v, t) /\ IsFrozen(GetData(v, t))
TokenLocked(v, t) == Exists(v, t) /\ GetData(v, t).locked

CurrenciesOf(v, o) == {GetData(v, o).askCurrency, GetData(v, o).giveCurrency}

\* As NotFrozen, but only the first currency is looked at.
NotFrozenAsk(v, o) == \A c \in {GetData(v, o).askCurrency} \ {Coin} : ~TokenFrozen(v, c)

\* check_order_doesnt_use_frozen_token
NotFrozen(v, o) == \A c \in CurrenciesOf(v, o) \ {Coin} : ~TokenFrozen(v, c)

----------------------------------------------------------------------------
(***************************************************************************)
(* Operations and their undos                                              *)
(***************************************************************************)
\* Amounts that are added: to one balance, to those of a and of b, and to none.
To(kind, id, amount) == AmountOf(AmountKeys, {<<kind, id>>}, amount)
a ++ b == MergeAmounts(a, b)
NoAmounts == NoChange(AmountKeys).amounts

NoDataDelta == [k \in {} |-> NoData]

\* The operation's change is merged into the delta, and its undo remembered.
Operation(v, op, id, data, amounts) ==
  LET change == [data |-> data, amounts |-> amounts]
  IN [delta |-> Merge(v.delta, change),
      undos |-> Append(v.undos, [op |-> op, id |-> id, change |-> change]),
      failed |-> v.failed \/ ~Mergeable(v.delta, change)]

\* What an undo checks before it is merged.
UndoAllowed(v, u) ==
  LET data == GetData(v, u.id)
  IN CASE u.op = "CreateOrder"   -> /\ data # NoData
                                    /\ GetAmount(v, "ask", u.id) = data.ask
                                    /\ GetAmount(v, "give", u.id) = data.give
       [] u.op = "ConcludeOrder" -> /\ data = NoData
                                    /\ GetAmount(v, "ask", u.id) = 0
                                    /\ GetAmount(v, "give", u.id) = 0
       [] u.op = "FillOrder"     -> TRUE
       [] u.op \in {"IssueToken", "FreezeOrder"}    -> data # NoData
       [] u.op \in {"MintTokens", "UnmintTokens"}   -> data # NoData /\ ~data.locked
       [] u.op = "LockSupply"                       -> data # NoData /\ data.locked
       [] u.op = "FreezeToken"                      -> data # NoData /\ IsFrozen(data)
       [] u.op \in {"UnfreezeToken", "ChangeToken"} -> data # NoData /\ ~IsFrozen(data)

UndoOp(v, u) ==
  LET change == InvertAll(u.change)
  IN IF v.failed \/ ~UndoAllowed(v, u) THEN [v EXCEPT !.failed = TRUE]
     ELSE [v EXCEPT !.delta = Merge(v.delta, change), !.failed = ~Mergeable(v.delta, change)]

Changed(v, id, new) == DataOf(id, DataDelta(GetData(v, id), new))

\* spend_input_from_account: a command of an account with a nonce
Spend(id) == To("nonce", id, 1)

----------------------------------------------------------------------------
(***************************************************************************)
(* The price of an order                                                   *)
(***************************************************************************)
\* The height of the block that is being connected decides.
OrdersVersion == IF Len(chain) + 1 >= OrdersV1Height THEN 1 ELSE 0

\* As FilledAmount, but rounded up.
FilledAmountUp(ask, give, fill) == (give * fill + ask - 1) \div ask

\* calculate_filled_amount
FilledAmount(ask, give, fill) == (give * fill) \div ask

\* calculate_fill_order: the remaining balances are the price in version 0,
\* the original amounts in version 1.
Filled(v, o, fill) ==
  IF OrdersVersion = 0
  THEN FilledAmount(GetAmount(v, "ask", o), GetAmount(v, "give", o), fill)
  ELSE FilledAmount(GetData(v, o).ask, GetData(v, o).give, fill)

----------------------------------------------------------------------------
(***************************************************************************)
(* Actions                                                                 *)
(***************************************************************************)
TokensInit ==
  /\ accounts = [data |-> [k \in DataKeys |-> NoData],
                 amounts |-> To("held", Coin, Coins)]
  /\ verifier = NewVerifier
  /\ chain = <<>>
  /\ saved = <<>>

AllUndos == verifier.undos \o FlattenSeq(chain)

\* Ids are hashes of an input that is spent: no id is made twice on a chain.
Fresh(id) == \A i \in DOMAIN AllUndos :
               ~(AllUndos[i].id = id /\ AllUndos[i].op \in {"IssueToken", "CreateOrder"})

\* The accumulator and the unspent outputs: nobody spends what is not there.
Operate(v) ==
  /\ Len(AllUndos) < OpLimit
  /\ Len(chain) < BlockLimit
  /\ \A k \in AmountKeys : View(v).amounts[k] >= 0
  /\ verifier' = v
  /\ UNCHANGED <<accounts, chain, saved>>

\* A command that changes a token's data and takes a nonce
ChangeToken(op, t, new) ==
  Operate(Operation(verifier, op, t, Changed(verifier, t, new), Spend(t)))

IssueToken(t, supply, freezable, a) ==
  /\ Fresh(t)
  /\ ~Exists(verifier, t)
  /\ GetAmount(verifier, "supply", t) <= 0
  /\ LET data == [supply |-> supply, locked |-> FALSE, frozen |-> freezable, authority |-> a]
     IN Operate(Operation(verifier, "IssueToken", t, Changed(verifier, t, data), NoAmounts))

MintTokens(t, amount) ==
  LET data == GetData(verifier, t)
  IN /\ Exists(verifier, t)
     /\ ~IsFrozen(data)
     /\ data.supply.kind = "Fixed" =>
          GetAmount(verifier, "supply", t) + amount <= data.supply.limit
     /\ data.supply.kind = "Lockable" => ~data.locked
     /\ Operate(Operation(verifier, "MintTokens", t, NoDataDelta,
          Spend(t) ++ To("supply", t, amount) ++ To("held", t, amount)))

\* The tokens that the transaction's outputs burn are unminted.
UnmintTokens(t, amount) ==
  LET data == GetData(verifier, t)
  IN /\ Exists(verifier, t)
     /\ ~data.locked
     /\ ~IsFrozen(data)
     /\ GetAmount(verifier, "supply", t) >= amount
     /\ Operate(Operation(verifier, "UnmintTokens", t, NoDataDelta,
          Spend(t) ++ To("supply", t, -amount) ++ To("held", t, -amount)))

LockTokenSupply(t) ==
  LET data == GetData(verifier, t)
  IN /\ Exists(verifier, t)
     /\ ~data.locked
     /\ ~IsFrozen(data)
     /\ data.supply.kind = "Lockable"
     /\ ChangeToken("LockSupply", t, [data EXCEPT !.locked = TRUE])

FreezeToken(t, how) ==
  LET data == GetData(verifier, t)
  IN /\ Exists(verifier, t)
     /\ data.frozen = "Freezable"
     /\ how \in {"Unfreezable", "ForGood"}
     /\ ChangeToken("FreezeToken", t, [data EXCEPT !.frozen = how])

UnfreezeToken(t) ==
  LET data == GetData(verifier, t)
  IN /\ Exists(verifier, t)
     /\ data.frozen = "Unfreezable"
     /\ ChangeToken("UnfreezeToken", t, [data EXCEPT !.frozen = "Freezable"])

\* change_authority and change_metadata_uri, which only differ in the field
ChangeTokenAuthority(t, a) ==
  LET data == GetData(verifier, t)
  IN /\ Exists(verifier, t)
     /\ ~IsFrozen(data)
     /\ ChangeToken("ChangeToken", t, [data EXCEPT !.authority = a])

\* An order may ask for a token that is not there yet.
CreateOrder(o, offer) ==
  LET data == [ask |-> offer.ask, give |-> offer.give, askCurrency |-> offer.askCurrency,
               giveCurrency |-> offer.giveCurrency, frozen |-> FALSE]
  IN /\ Fresh(o)
     /\ ~Exists(verifier, o)
     /\ GetAmount(verifier, "ask", o) = 0
     /\ \A c \in {offer.askCurrency, offer.giveCurrency} \ {Coin} : ~TokenFrozen(verifier, c)
     /\ Operate(Operation(verifier, "CreateOrder", o, Changed(verifier, o, data),
          To("ask", o, offer.ask) ++ To("give", o, offer.give)
            ++ To("held", offer.giveCurrency, -offer.give)))

\* The nonce of an order is only used in version 0.
SpendOrder(o) == IF OrdersVersion = 0 THEN Spend(o) ELSE NoAmounts

FillOrder(o, fill) ==
  LET data   == GetData(verifier, o)
      filled == Filled(verifier, o, fill)
  IN /\ Exists(verifier, o)
     /\ NotFrozen(verifier, o)
     /\ ~data.frozen
     /\ GetAmount(verifier, "ask", o) >= fill
     /\ OrdersVersion = 1 => filled > 0
     /\ Operate(Operation(verifier, "FillOrder", o, NoDataDelta,
          SpendOrder(o) ++ To("ask", o, -fill) ++ To("give", o, -filled)
            ++ To("held", data.askCurrency, -fill)
            ++ To("held", data.giveCurrency, filled)))

\* What the order has been paid, and goes to whoever concludes it.
Proceeds(v, o) == GetData(v, o).ask - GetAmount(v, "ask", o)

ConcludeOrder(o) ==
  LET data == GetData(verifier, o)
      ask  == GetAmount(verifier, "ask", o)
      give == GetAmount(verifier, "give", o)
  IN /\ Exists(verifier, o)
     /\ NotFrozen(verifier, o)
     /\ Operate(Operation(verifier, "ConcludeOrder", o, Changed(verifier, o, NoData),
          SpendOrder(o) ++ To("ask", o, -ask) ++ To("give", o, -give)
            ++ To("held", data.askCurrency, Proceeds(verifier, o))
            ++ To("held", data.giveCurrency, give)))

\* Version 1 only; also if the order's tokens are frozen.
FreezeOrder(o) ==
  /\ OrdersVersion = 1
  /\ Exists(verifier, o)
  /\ ~GetData(verifier, o).frozen
  /\ Operate(Operation(verifier, "FreezeOrder", o,
       Changed(verifier, o, [GetData(verifier, o) EXCEPT !.frozen = TRUE]), NoAmounts))

\* flush_to_storage: the verifier's delta is written to the database.
Flush(v) ==
  /\ accounts' = Apply(accounts, v.delta)
  /\ verifier' = [NewVerifier EXCEPT !.failed = v.failed \/ ~Applies(accounts, v.delta)]

ConnectBlock ==
  /\ Len(chain) < BlockLimit
  /\ Flush(verifier)
  /\ chain' = Append(chain, verifier.undos)
  /\ saved' = Append(saved, accounts)

\* The block is invalid: the verifier is dropped.
AbandonBlock ==
  /\ verifier.undos # <<>>
  /\ verifier' = NewVerifier
  /\ UNCHANGED <<accounts, chain, saved>>

\* As UndosOf, but from the first to the last.
UndosInOrder(block) == block

\* A block is undone from its last transaction to its first.
UndosOf(block) == Reverse(block)

Disconnected(block) == FoldLeft(UndoOp, NewVerifier, UndosOf(block))

DisconnectBlock ==
  /\ chain # <<>>
  /\ verifier.undos = <<>>
  /\ Flush(Disconnected(Last(chain)))
  /\ chain' = Front(chain)
  /\ saved' = Front(saved)

TokenCommand(t) ==
  \/ \E s \in Supplies, f \in {"NotFreezable", "Freezable"}, a \in Authorities :
       IssueToken(t, s, f, a)
  \/ \E amount \in Amounts : MintTokens(t, amount) \/ UnmintTokens(t, amount)
  \/ LockTokenSupply(t)
  \/ \E how \in FrozenStates : FreezeToken(t, how)
  \/ UnfreezeToken(t)
  \/ \E a \in Authorities : ChangeTokenAuthority(t, a)

OrderCommand(o) ==
  \/ \E offer \in Offers : CreateOrder(o, offer)
  \/ \E fill \in Amounts : FillOrder(o, fill)
  \/ ConcludeOrder(o)
  \/ FreezeOrder(o)

TokensNext ==
  \/ \E t \in Tokens : TokenCommand(t)
  \/ \E o \in OrderIds : OrderCommand(o)
  \/ ConnectBlock
  \/ AbandonBlock
  \/ DisconnectBlock

TokensSpec == TokensInit /\ [][TokensNext]_tokensVars

----------------------------------------------------------------------------
(***************************************************************************)
(* Properties                                                              *)
(***************************************************************************)
\* The database and what the verifier reads are states: no supply and no
\* balance is negative, and the databases before each block are too.
TokensTypeOK ==
  /\ View(verifier).amounts \in [AmountKeys -> Nat]
  /\ accounts.amounts \in [AmountKeys -> Nat]
  /\ \A t \in Tokens : GetData(verifier, t) \in {NoData} \cup TokenType
  /\ \A o \in OrderIds : GetData(verifier, o) \in {NoData} \cup OrderType
  /\ verifier.failed \in BOOLEAN
  /\ Len(saved) = Len(chain)

\* No delta fails to merge, and no undo finds a state other than the one it
\* expects (Error::CannotUndo..., Error::Invariant...): a supply that was
\* locked, a token that was frozen and an order that was concluded after an
\* operation are first put back.
NeverFails == ~verifier.failed

\* Undoing the last block is always possible and gives back the database as it
\* was before the block.
LastBlockCanBeUndone ==
  chain # <<>> =>
    LET v == Disconnected(Last(chain))
    IN /\ ~v.failed
       /\ Applies(accounts, v.delta)
       /\ Apply(accounts, v.delta) = Last(saved)

\* What the orders hold of a currency: what they have left to give, and what
\* they have been paid.
InOrders(v, c) ==
  SumFunction([o \in OrderIds |->
    IF ~Exists(v, o) THEN 0
    ELSE (IF GetData(v, o).giveCurrency = c THEN GetAmount(v, "give", o) ELSE 0)
       + (IF GetData(v, o).askCurrency = c
          THEN GetData(v, o).ask - GetAmount(v, "ask", o) ELSE 0)])

\* Nothing is made or lost by orders, whichever version fills and concludes
\* them: the tokens in circulation are the ones that are held and the ones
\* that are in orders, and the coins add up.
Conserved ==
  /\ \A t \in Tokens :
       GetAmount(verifier, "supply", t) = GetAmount(verifier, "held", t) + InOrders(verifier, t)
  /\ GetAmount(verifier, "held", Coin) + InOrders(verifier, Coin) = Coins

\* An order is never sold under its price: what it has left to give, for what
\* it still asks, is worth at least the original price, whichever versions and
\* amounts it was filled with (calculate_filled_amount rounds down).  So no
\* fill can take more than the order has left, across the fork too.
SoldAtPrice ==
  \A o \in OrderIds : Exists(verifier, o) =>
    GetAmount(verifier, "give", o) * GetData(verifier, o).ask
      >= GetData(verifier, o).give * GetAmount(verifier, "ask", o)

\* Orders neither make money nor sell under their price, even between the
\* transactions of a block, and no operation that cannot fail does.
OrdersAreFair == TokensTypeOK /\ NeverFails /\ Conserved /\ SoldAtPrice

\* While the supply of a token is locked it does not change, by no operation, block
\* or undone block; and while a token is frozen no transaction mints or unmints it,
\* takes it out of an order or puts it into one (lock_circulating_supply,
\* check_operations_with_frozen_tokens).
RestrictedStays ==
  [][\A t \in Tokens :
       /\ TokenLocked(verifier, t) /\ TokenLocked(verifier, t)'
          => GetAmount(verifier, "supply", t)' = GetAmount(verifier, "supply", t)
       /\ /\ chain' = chain
          /\ Len(verifier'.undos) > Len(verifier.undos)
          /\ TokenFrozen(verifier, t)
          => /\ GetAmount(verifier, "supply", t)' = GetAmount(verifier, "supply", t)
             /\ GetAmount(verifier, "held", t)' = GetAmount(verifier, "held", t)]_tokensVars
==============================================================================
