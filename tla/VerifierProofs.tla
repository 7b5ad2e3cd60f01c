--------------------------- MODULE VerifierProofs ----------------------------
(***************************************************************************)
(* Proofs about what a transaction verifier caches.                        *)
(*                                                                         *)
(* Utxos, for any transactions and outpoints: the flags of the caches are  *)
(* right, every view is a replay of what is connected in it, and the       *)
(* stacked caches implement plain maps.                                    *)
(*                                                                         *)
(* Tokens and orders, for any tokens, orders, amounts, blocks and height   *)
(* of the fork.                                                            *)
(*                                                                         *)
(* TokensInv says that the states are good (nothing is negative, tokens    *)
(* and coins add up, orders are worth their price) and that operations     *)
(* lead from one to the next: from the database to what the verifier       *)
(* reads, and from the database before each block to the one after it.     *)
(* An operation changes a good state to a good one that its undo accepts;  *)
(* a block is taken back one operation at a time, by the inverse of each   *)
(* change.  Sums over orders and the fold over undos are functions that    *)
(* exist and are unique: a least counterexample shows both.                *)
(***************************************************************************)
EXTENDS UtxosCache, TokensOrders, TLAPS, FiniteSetTheorems, WellFoundedInduction

-----------------------------------------------------------------------------
(***************************************************************************)
(* One cache c over a parent's view p.                                     *)
(***************************************************************************)

\* A view through a cache is a utxo set.
LEMMA ViewType ==
    ASSUME NEW c \in EntryMaps, NEW p \in Utxos
    PROVE  ViewThrough(c, p) \in Utxos
  BY CacheAssumption DEF ViewThrough, EntryMaps, Utxos, Entries

\* An outpoint can be spent if it is in the view, and added if it is not.
LEMMA SeenOrNot ==
    ASSUME NEW c \in EntryMaps, NEW p \in Utxos, NEW o \in Outpoints
    PROVE  /\ CanSpend(c, p, o) <=> ViewThrough(c, p)[o] # NoUtxo
           /\ ViewThrough(c, p)[o] = NoUtxo => CanAdd(c, o)
  <1>1. CASE c[o] = NoEntry
    <2>1. ViewThrough(c, p)[o] = p[o]
      BY <1>1 DEF ViewThrough
    <2>2. CASE p[o] = NoUtxo
      BY <1>1, <2>1, <2>2 DEF CanSpend, CanAdd, FetchUtxoEntry
    <2>3. CASE p[o] # NoUtxo
      <3>1. p[o] \in Sources
        BY <2>3 DEF Utxos
      <3>2. FetchUtxoEntry(c, p, o) = Entry(p[o], FALSE, FALSE)
        BY <1>1, <2>3 DEF FetchUtxoEntry
      <3>3. Entry(p[o], FALSE, FALSE) \in Entries
        BY <3>1 DEF Entry, Entries
      <3>4. Entry(p[o], FALSE, FALSE).utxo = p[o]
        BY DEF Entry
      <3> QED
        BY <1>1, <2>1, <2>3, <3>2, <3>3, <3>4, CacheAssumption DEF CanSpend, CanAdd, IsSpent
    <2> QED
      BY <2>2, <2>3
  <1>2. CASE c[o] # NoEntry
    <2>1. ViewThrough(c, p)[o] = c[o].utxo
      BY <1>2 DEF ViewThrough
    <2> QED
      BY <1>2, <2>1 DEF CanSpend, CanAdd, FetchUtxoEntry, IsSpent
  <1> QED
    BY <1>1, <1>2

\* What spend_utxo leaves of an unspent outpoint.
LEMMA SpendPoint ==
    ASSUME NEW c \in EntryMaps, NEW p \in Utxos, NEW o \in Outpoints,
           FlagsAgree(c, p), CanSpend(c, p, o),
           NEW e, e = SpendUtxo(c, p, o)
    PROVE  /\ e \in Entries \cup {NoEntry}
           /\ e # NoEntry => EntryAgrees(e, p[o]) /\ e.utxo = NoUtxo
           /\ e = NoEntry => p[o] = NoUtxo
  <1>1. CASE FetchUtxoEntry(c, p, o).fresh
    <2>1. c[o] # NoEntry /\ c[o].fresh
      BY <1>1 DEF CanSpend, FetchUtxoEntry, Entry
    <2>2. e = NoEntry
      BY <1>1 DEF SpendUtxo
    <2>3. p[o] = NoUtxo
      BY <2>1 DEF FlagsAgree, EntryAgrees
    <2> QED
      BY <2>2, <2>3
  <1>2. CASE ~FetchUtxoEntry(c, p, o).fresh
    <2>1. e = [utxo |-> NoUtxo, fresh |-> FALSE, dirty |-> TRUE]
      BY <1>2 DEF SpendUtxo, Entry
    <2>2. e \in Entries /\ e.utxo = NoUtxo /\ e.fresh = FALSE /\ e.dirty = TRUE
      BY <2>1 DEF Entries
    <2>3. EntryAgrees(e, p[o])
      BY <2>2 DEF EntryAgrees, IsSpent
    <2> QED
      BY <2>2, <2>3, CacheAssumption
  <1> QED
    BY <1>1, <1>2

\* What add_utxo leaves of an outpoint that is not in the view.
LEMMA AddPoint ==
    ASSUME NEW c \in EntryMaps, NEW p \in Utxos, NEW o \in Outpoints, NEW u \in Sources,
           FlagsAgree(c, p), ViewThrough(c, p)[o] = NoUtxo,
           NEW e, e = AddUtxo(c, o, u)
    PROVE  e \in Entries /\ EntryAgrees(e, p[o]) /\ e.utxo = u
  <1>1. CASE c[o] = NoEntry
    <2>1. p[o] = NoUtxo
      BY <1>1 DEF ViewThrough
    <2>2. e = [utxo |-> u, fresh |-> TRUE, dirty |-> TRUE]
      BY <1>1 DEF AddUtxo, Entry
    <2> QED
      BY <2>1, <2>2, LedgerAssumption DEF Entries, EntryAgrees, IsSpent
  <1>2. CASE c[o] # NoEntry
    <2>1. c[o] \in Entries /\ c[o].utxo = NoUtxo /\ EntryAgrees(c[o], p[o])
      BY <1>2 DEF ViewThrough, EntryMaps, FlagsAgree
    <2>2. c[o].fresh \in BOOLEAN /\ c[o].dirty \in BOOLEAN
      BY <2>1 DEF Entries
    <2>3. CASE c[o].fresh
      <3>1. e = [utxo |-> u, fresh |-> TRUE, dirty |-> TRUE]
        BY <1>2, <2>3 DEF AddUtxo, Entry
      <3> QED
        BY <2>1, <2>3, <3>1, LedgerAssumption DEF Entries, EntryAgrees, IsSpent
    <2>4. CASE ~c[o].fresh
      <3>1. c[o].dirty
        BY <2>1, <2>2, <2>4 DEF EntryAgrees, IsSpent
      <3>2. e = [utxo |-> u, fresh |-> FALSE, dirty |-> TRUE]
        BY <1>2, <2>4, <3>1 DEF AddUtxo, Entry
      <3> QED
        BY <3>2, LedgerAssumption DEF Entries, EntryAgrees, IsSpent
    <2> QED
      BY <2>3, <2>4
  <1> QED
    BY <1>1, <1>2

\* Connecting a transaction with unspent inputs keeps the flags right and does
\* to the view what it does to a plain map.
LEMMA ConnectLayer ==
    ASSUME NEW c \in EntryMaps, NEW p \in Utxos, NEW t \in Txs, NEW s \in Sources,
           FlagsAgree(c, p), CanConnect(c, p, t),
           \A o \in Included(t) : ViewThrough(c, p)[o] = NoUtxo,
           NEW d, d = ConnectCache(c, p, t, s)
    PROVE  /\ d \in EntryMaps
           /\ FlagsAgree(d, p)
           /\ ViewThrough(d, p) = ConnectUtxos(ViewThrough(c, p), t, s)
  <1>1. \A o \in Outpoints :
           /\ d[o] \in Entries \cup {NoEntry}
           /\ d[o] # NoEntry => EntryAgrees(d[o], p[o])
           /\ (IF d[o] # NoEntry THEN d[o].utxo ELSE p[o])
                 = ConnectUtxos(ViewThrough(c, p), t, s)[o]
    <2> TAKE o \in Outpoints
    <2>1. CASE o \in Inputs[t]
      <3>1. d[o] = SpendUtxo(c, p, o)
        BY <2>1 DEF ConnectCache
      <3>2. CanSpend(c, p, o)
        BY <2>1 DEF CanConnect
      <3>3. ConnectUtxos(ViewThrough(c, p), t, s)[o] = NoUtxo
        BY <2>1 DEF ConnectUtxos
      <3> QED
        BY <3>1, <3>2, <3>3, SpendPoint
    <2>2. CASE o \notin Inputs[t] /\ o \in Included(t)
      <3>1. d[o] = AddUtxo(c, o, s)
        BY <2>2 DEF ConnectCache
      <3>2. ConnectUtxos(ViewThrough(c, p), t, s)[o] = s
        BY <2>2 DEF ConnectUtxos
      <3> QED
        BY <2>2, <3>1, <3>2, AddPoint, CacheAssumption
    <2>3. CASE o \notin Inputs[t] /\ o \notin Included(t)
      <3>1. d[o] = c[o]
        BY <2>3 DEF ConnectCache
      <3>2. ConnectUtxos(ViewThrough(c, p), t, s)[o] = ViewThrough(c, p)[o]
        BY <2>3 DEF ConnectUtxos
      <3> QED
        BY <3>1, <3>2 DEF EntryMaps, FlagsAgree, ViewThrough
    <2> QED
      BY <2>1, <2>2, <2>3
  <1>2. d = [o \in Outpoints |-> d[o]]
    BY DEF ConnectCache
  <1> QED
    BY <1>1, <1>2 DEF EntryMaps, FlagsAgree, ViewThrough, ConnectUtxos

\* The same for a transaction that is disconnected.
LEMMA DisconnectLayer ==
    ASSUME NEW c \in EntryMaps, NEW p \in Utxos, NEW u \in Undos,
           NEW t \in Connected(u),
           FlagsAgree(c, p),
           \A o \in Included(t) : CanSpend(c, p, o),
           \A o \in Inputs[t] : ViewThrough(c, p)[o] = NoUtxo,
           NEW d, d = DisconnectCache(c, p, u, t)
    PROVE  /\ d \in EntryMaps
           /\ FlagsAgree(d, p)
           /\ ViewThrough(d, p) = DisconnectUtxos(ViewThrough(c, p), u, t)
  <1>0. \A o \in Inputs[t] : u[t].spent[o] \in Sources
    BY DEF Connected, Undos, Undo
  <1>1. \A o \in Outpoints :
           /\ d[o] \in Entries \cup {NoEntry}
           /\ d[o] # NoEntry => EntryAgrees(d[o], p[o])
           /\ (IF d[o] # NoEntry THEN d[o].utxo ELSE p[o])
                 = DisconnectUtxos(ViewThrough(c, p), u, t)[o]
    <2> TAKE o \in Outpoints
    <2>1. CASE o \in Included(t)
      <3>1. d[o] = SpendUtxo(c, p, o)
        BY <2>1 DEF DisconnectCache
      <3>2. CanSpend(c, p, o)
        BY <2>1
      <3>3. DisconnectUtxos(ViewThrough(c, p), u, t)[o] = NoUtxo
        BY <2>1 DEF DisconnectUtxos
      <3> QED
        BY <3>1, <3>2, <3>3, SpendPoint
    <2>2. CASE o \notin Included(t) /\ o \in Inputs[t]
      <3>1. d[o] = AddUtxo(c, o, u[t].spent[o])
        BY <2>2 DEF DisconnectCache
      <3>2. DisconnectUtxos(ViewThrough(c, p), u, t)[o] = u[t].spent[o]
        BY <2>2 DEF DisconnectUtxos
      <3> QED
        BY <1>0, <2>2, <3>1, <3>2, AddPoint, CacheAssumption
    <2>3. CASE o \notin Inputs[t] /\ o \notin Included(t)
      <3>1. d[o] = c[o]
        BY <2>3 DEF DisconnectCache
      <3>2. DisconnectUtxos(ViewThrough(c, p), u, t)[o] = ViewThrough(c, p)[o]
        BY <2>3 DEF DisconnectUtxos
      <3> QED
        BY <3>1, <3>2 DEF EntryMaps, FlagsAgree, ViewThrough
    <2> QED
      BY <2>1, <2>2, <2>3
  <1>2. d = [o \in Outpoints |-> d[o]]
    BY DEF DisconnectCache
  <1> QED
    BY <1>1, <1>2 DEF EntryMaps, FlagsAgree, ViewThrough, DisconnectUtxos

-----------------------------------------------------------------------------
(***************************************************************************)
(* A flush.                                                                *)
(***************************************************************************)

\* The entry of a utxo that was fetched from the parent.
LEMMA CleanEntry ==
    ASSUME NEW u \in Sources \cup {NoUtxo}, NEW e,
           e = [utxo |-> u, fresh |-> FALSE, dirty |-> FALSE]
    PROVE  e \in Entries /\ e.utxo = u /\ e.fresh = FALSE /\ e.dirty = FALSE
  BY DEF Entries

\* Fetching an entry changes neither the flags' meaning nor the view.
LEMMA FetchLayer ==
    ASSUME NEW c \in EntryMaps, NEW p \in Utxos, NEW o \in Outpoints,
           FlagsAgree(c, p),
           NEW d, d = [c EXCEPT ![o] = FetchUtxoEntry(c, p, o)]
    PROVE  d \in EntryMaps /\ FlagsAgree(d, p) /\ ViewThrough(d, p) = ViewThrough(c, p)
  <1>1. CASE c[o] = NoEntry /\ p[o] # NoUtxo
    <2>1. d[o] = [utxo |-> p[o], fresh |-> FALSE, dirty |-> FALSE]
      BY <1>1 DEF FetchUtxoEntry, Entry, EntryMaps
    <2>0. p[o] \in Sources \cup {NoUtxo}
      BY DEF Utxos
    <2>2. d[o] \in Entries /\ d[o].utxo = p[o] /\ d[o].fresh = FALSE /\ d[o].dirty = FALSE
      BY <2>0, <2>1, CleanEntry
    <2>3. EntryAgrees(d[o], p[o])
      BY <1>1, <2>2 DEF EntryAgrees, IsSpent
    <2>4. \A x \in Outpoints : x # o => d[x] = c[x]
      BY DEF EntryMaps
    <2>5. d \in EntryMaps
      BY <2>2 DEF EntryMaps
    <2>6. FlagsAgree(d, p)
      BY <2>3, <2>4 DEF FlagsAgree
    <2>7. d[o] # NoEntry
      BY <2>2, CacheAssumption
    <2> QED
      BY <1>1, <2>2, <2>4, <2>5, <2>6, <2>7 DEF ViewThrough
  <1>2. CASE ~(c[o] = NoEntry /\ p[o] # NoUtxo)
    <2>1. d = c
      BY <1>2 DEF FetchUtxoEntry, EntryMaps
    <2> QED
      BY <2>1
  <1> QED
    BY <1>1, <1>2

\* An entry that is neither FRESH nor DIRTY can go.
LEMMA UncacheLayer ==
    ASSUME NEW c \in EntryMaps, NEW p \in Utxos, NEW o \in Outpoints,
           FlagsAgree(c, p), c[o] # NoEntry, ~c[o].dirty,
           NEW d, d = [c EXCEPT ![o] = NoEntry]
    PROVE  d \in EntryMaps /\ FlagsAgree(d, p) /\ ViewThrough(d, p) = ViewThrough(c, p)
  <1>1. d \in EntryMaps /\ d[o] = NoEntry /\ \A x \in Outpoints : x # o => d[x] = c[x]
    BY DEF EntryMaps
  <1>2. c[o].utxo = p[o]
    BY DEF FlagsAgree, EntryAgrees
  <1>3. FlagsAgree(d, p)
    BY <1>1 DEF FlagsAgree
  <1> QED
    BY <1>1, <1>2, <1>3 DEF ViewThrough

\* A cache written into the storage leaves what was seen through it.
LEMMA WriteDbGivesView ==
    ASSUME NEW c \in EntryMaps, NEW p \in Utxos, FlagsAgree(c, p)
    PROVE  WriteDb(p, c) = ViewThrough(c, p)
  <1>1. \A o \in Outpoints :
           (IF c[o] # NoEntry /\ c[o].dirty THEN c[o].utxo ELSE p[o])
              = (IF c[o] # NoEntry THEN c[o].utxo ELSE p[o])
    BY DEF FlagsAgree, EntryAgrees
  <1> QED
    BY <1>1 DEF WriteDb, ViewThrough

\* A FRESH entry of a child has no unspent entry in the parent.
LEMMA NoFreshExists ==
    ASSUME NEW q \in EntryMaps, NEW c \in EntryMaps, NEW p \in Utxos,
           FlagsAgree(c, ViewThrough(q, p)), NEW o \in Outpoints
    PROVE  ~FreshExists(q, c, o)
  BY DEF FreshExists, FlagsAgree, EntryAgrees, ViewThrough, IsSpent

\* A cache c written into cache q leaves what was seen through both, with the
\* right flags.
LEMMA WriteCacheGivesView ==
    ASSUME NEW q \in EntryMaps, NEW c \in EntryMaps, NEW p \in Utxos,
           FlagsAgree(q, p), FlagsAgree(c, ViewThrough(q, p)),
           NEW d, d = WriteCache(q, c)
    PROVE  /\ d \in EntryMaps
           /\ FlagsAgree(d, p)
           /\ ViewThrough(d, p) = ViewThrough(c, ViewThrough(q, p))
  <1> DEFINE Seen(x) == ViewThrough(c, ViewThrough(q, p))[x]
  <1>1. \A o \in Outpoints :
           /\ d[o] \in Entries \cup {NoEntry}
           /\ d[o] # NoEntry => EntryAgrees(d[o], p[o])
           /\ (IF d[o] # NoEntry THEN d[o].utxo ELSE p[o]) = Seen(o)
    <2> TAKE o \in Outpoints
    <2>0. d[o] = WriteEntry(q, c, o)
      BY DEF WriteCache
    <2>1. CASE c[o] = NoEntry \/ ~c[o].dirty
      <3>1. d[o] = q[o]
        BY <2>0, <2>1 DEF WriteEntry
      <3>2. Seen(o) = ViewThrough(q, p)[o]
        BY <2>1 DEF ViewThrough, FlagsAgree, EntryAgrees
      <3> QED
        BY <3>1, <3>2 DEF EntryMaps, FlagsAgree, ViewThrough
    <2>2. CASE c[o] # NoEntry /\ c[o].dirty
      <3>1. /\ c[o] \in Entries
            /\ EntryAgrees(c[o], ViewThrough(q, p)[o])
            /\ Seen(o) = c[o].utxo
        BY <2>2 DEF EntryMaps, FlagsAgree, ViewThrough
      <3>2. c[o].utxo \in Sources \cup {NoUtxo} /\ c[o].fresh \in BOOLEAN
        BY <3>1 DEF Entries
      <3>3. ~(c[o].fresh /\ IsSpent(c[o]))
        BY <2>2, <3>1, <3>2 DEF EntryAgrees, Entries
      <3>4. CASE q[o] = NoEntry
        <4>1. d[o] = [utxo |-> c[o].utxo, fresh |-> c[o].fresh, dirty |-> TRUE]
          BY <2>0, <2>2, <3>3, <3>4 DEF WriteEntry, Entry
        <4>2. /\ d[o] \in Entries
              /\ d[o].utxo = c[o].utxo /\ d[o].fresh = c[o].fresh /\ d[o].dirty = TRUE
          BY <3>2, <4>1 DEF Entries
        <4>3. ViewThrough(q, p)[o] = p[o]
          BY <3>4 DEF ViewThrough
        <4>4. EntryAgrees(d[o], p[o])
          BY <3>1, <3>2, <3>3, <4>2, <4>3 DEF EntryAgrees, IsSpent
        <4> QED
          BY <3>1, <4>2, <4>4, CacheAssumption
      <3>5. CASE q[o] # NoEntry
        <4>1. q[o] \in Entries /\ EntryAgrees(q[o], p[o])
          BY <3>5 DEF EntryMaps, FlagsAgree
        <4>2. q[o].fresh \in BOOLEAN
          BY <4>1 DEF Entries
        <4>3. CASE q[o].fresh /\ IsSpent(c[o])
          <5>1. d[o] = NoEntry
            BY <2>0, <2>2, <3>5, <4>3 DEF WriteEntry
          <5>2. p[o] = NoUtxo /\ c[o].utxo = NoUtxo
            BY <4>1, <4>3 DEF EntryAgrees, IsSpent
          <5> QED
            BY <3>1, <5>1, <5>2
        <4>4. CASE ~(q[o].fresh /\ IsSpent(c[o]))
          <5>1. d[o] = [utxo |-> c[o].utxo, fresh |-> q[o].fresh, dirty |-> TRUE]
            BY <2>0, <2>2, <3>5, <4>4 DEF WriteEntry, Entry
          <5>2. /\ d[o] \in Entries
                /\ d[o].utxo = c[o].utxo /\ d[o].fresh = q[o].fresh /\ d[o].dirty = TRUE
            BY <3>2, <4>2, <5>1 DEF Entries
          <5>3. EntryAgrees(d[o], p[o])
            BY <4>1, <4>2, <4>4, <5>2 DEF EntryAgrees, IsSpent
          <5> QED
            BY <3>1, <5>2, <5>3, CacheAssumption
        <4> QED
          BY <4>3, <4>4
      <3> QED
        BY <3>4, <3>5
    <2> QED
      BY <2>1, <2>2
  <1>2. d = [o \in Outpoints |-> d[o]]
    BY DEF WriteCache
  <1>3. ViewThrough(c, ViewThrough(q, p)) = [o \in Outpoints |-> Seen(o)]
    BY DEF ViewThrough
  <1> HIDE DEF Seen
  <1> QED
    BY <1>1, <1>2, <1>3 DEF EntryMaps, FlagsAgree, ViewThrough

-----------------------------------------------------------------------------
(***************************************************************************)
(* Replays.                                                                *)
(***************************************************************************)

\* The undo data of a connected transaction.
LEMMA UndoType ==
    ASSUME NEW u \in Undos, NEW t \in Connected(u)
    PROVE  t \in Txs /\ u[t].source \in Sources /\ \A o \in Inputs[t] : u[t].spent[o] \in Sources
  BY DEF Connected, Undos, Undo

\* What a connected transaction has spent was created by a connected one.
LEMMA SpentWasCreated ==
    ASSUME NEW v \in Utxos, NEW u \in Undos, IsReplay(v, u),
           NEW t \in Txs, t \notin Connected(u)
    PROVE  /\ HasNoChildren(u, t)
           /\ \A o \in Included(t) : v[o] = NoUtxo
  <1>1. \A o \in Outpoints : SourceId[o] = t => Created(u, o) = NoUtxo
    BY LedgerAssumption DEF Created
  <1>2. HasNoChildren(u, t)
    <2> SUFFICES ASSUME NEW c \in Connected(u), NEW o \in Inputs[c], SourceId[o] = t
                 PROVE  FALSE
      BY DEF HasNoChildren
    <2>1. c \in Txs /\ u[c].spent[o] \in Sources
      BY UndoType
    <2>2. o \in Outpoints
      BY <2>1, LedgerAssumption
    <2>3. u[c].spent[o] = Created(u, o)
      BY DEF IsReplay
    <2> QED
      BY <1>1, <2>1, <2>2, <2>3, LedgerAssumption
  <1>3. \A o \in Included(t) : v[o] = NoUtxo
    BY <1>1 DEF IsReplay, Included
  <1> QED
    BY <1>2, <1>3

\* The undo data after a transaction is connected.
LEMMA ConnectUndosType ==
    ASSUME NEW v \in Utxos, NEW u \in Undos, NEW t \in Txs, NEW s \in Sources,
           \A o \in Inputs[t] : v[o] # NoUtxo,
           NEW w, w = ConnectUndos(v, u, t, s)
    PROVE  /\ w \in Undos
           /\ Connected(w) = Connected(u) \cup {t}
           /\ w[t] = [source |-> s, spent |-> [o \in Inputs[t] |-> v[o]]]
           /\ \A x \in Txs : x # t => w[x] = u[x]
  <1>1. [source |-> s, spent |-> [o \in Inputs[t] |-> v[o]]] \in Undo(t)
    BY LedgerAssumption DEF Undo, Utxos
  <1>2. Undo(t) \subseteq UNION {Undo(x) : x \in Txs}
    OBVIOUS
  <1>3. u \in [Txs -> {NotConnected} \cup UNION {Undo(x) : x \in Txs}]
    BY DEF Undos
  <1>4. w[t] = [source |-> s, spent |-> [o \in Inputs[t] |-> v[o]]]
    BY <1>3 DEF ConnectUndos
  <1>5. \A x \in Txs : x # t => w[x] = u[x]
    BY <1>3 DEF ConnectUndos
  <1>6. w[t] \in Undo(t) /\ w[t] # NotConnected
    BY <1>1, <1>4, LedgerAssumption DEF Undo
  <1>7. w \in [Txs -> {NotConnected} \cup UNION {Undo(x) : x \in Txs}]
    <2>1. w = [x \in Txs |-> IF x = t THEN w[t] ELSE u[x]]
      BY <1>3, <1>4 DEF ConnectUndos
    <2>2. w[t] \in {NotConnected} \cup UNION {Undo(x) : x \in Txs}
      BY <1>2, <1>6
    <2>3. \A x \in Txs : u[x] \in {NotConnected} \cup UNION {Undo(y) : y \in Txs}
      BY <1>3
    <2> QED
      BY <2>1, <2>2, <2>3
  <1>8. w \in Undos
    BY <1>5, <1>6, <1>7 DEF Undos
  <1>9. Connected(w) = Connected(u) \cup {t}
    BY <1>5, <1>6 DEF Connected
  <1> QED
    BY <1>4, <1>5, <1>8, <1>9

\* Connecting keeps the utxo set a replay.
LEMMA ConnectReplay ==
    ASSUME NEW v \in Utxos, NEW u \in Undos, NEW t \in Txs, NEW s \in Sources,
           IsReplay(v, u), t \notin Connected(u),
           \A o \in Inputs[t] : v[o] # NoUtxo,
           NEW w, w = ConnectUndos(v, u, t, s),
           NEW z, z = ConnectUtxos(v, t, s)
    PROVE  IsReplay(z, w)
  <1>1. /\ w \in Undos
        /\ Connected(w) = Connected(u) \cup {t}
        /\ w[t] = [source |-> s, spent |-> [o \in Inputs[t] |-> v[o]]]
        /\ \A x \in Txs : x # t => w[x] = u[x]
    BY ConnectUndosType
  <1>2. HasNoChildren(u, t)
    BY SpentWasCreated
  <1>3. Connected(u) \subseteq Txs /\ \A x \in Connected(u) : w[x] = u[x]
    BY <1>1 DEF Connected
  <1>4. \A x \in Txs : Inputs[x] \subseteq Outpoints
    BY LedgerAssumption
  <1>5. \A o \in Outpoints : SourceId[o] # t => Created(w, o) = Created(u, o)
    BY <1>1, <1>3, LedgerAssumption DEF Created
  <1>6. \A o \in Included(t) : Created(w, o) = s
    <2> TAKE o \in Included(t)
    <2>1. o \in Outpoints /\ o \notin Excluded /\ SourceId[o] = t
      BY DEF Included
    <2>2. w[t].source = s
      BY <1>1
    <2> QED
      BY <1>1, <2>1, <2>2, LedgerAssumption DEF Created
  <1>7. \A o \in Inputs[t] : ~\E x \in Connected(u) : o \in Inputs[x]
    BY <1>4 DEF IsReplay
  <1>8. \A o \in Outpoints :
           z[o] = IF \E x \in Connected(w) : o \in Inputs[x] THEN NoUtxo ELSE Created(w, o)
    <2> TAKE o \in Outpoints
    <2>1. CASE o \in Inputs[t]
      BY <1>1, <2>1 DEF ConnectUtxos
    <2>2. CASE o \notin Inputs[t] /\ o \in Included(t)
      <3>1. z[o] = s
        BY <2>2 DEF ConnectUtxos
      <3>2. ~\E x \in Connected(w) : o \in Inputs[x]
        BY <1>1, <1>2, <2>2 DEF HasNoChildren, Included
      <3> QED
        BY <1>6, <2>2, <3>1, <3>2
    <2>3. CASE o \notin Inputs[t] /\ o \notin Included(t)
      <3>1. z[o] = v[o]
        BY <2>3 DEF ConnectUtxos
      <3>2. (\E x \in Connected(w) : o \in Inputs[x]) <=> (\E x \in Connected(u) : o \in Inputs[x])
        BY <1>1, <2>3
      <3>3. Created(w, o) = Created(u, o)
        <4>1. CASE SourceId[o] # t
          BY <1>5, <4>1
        <4>2. CASE SourceId[o] = t
          BY <2>3, <4>2 DEF Created, Included
        <4> QED
          BY <4>1, <4>2
      <3> QED
        BY <3>1, <3>2, <3>3 DEF IsReplay
    <2> QED
      BY <2>1, <2>2, <2>3
  <1>9. \A x \in Connected(w) : \A o \in Inputs[x] : w[x].spent[o] = Created(w, o)
    <2> SUFFICES ASSUME NEW x \in Connected(w), NEW o \in Inputs[x]
                 PROVE  w[x].spent[o] = Created(w, o)
      OBVIOUS
    <2>1. CASE x = t
      <3>1. SourceId[o] # t /\ o \in Outpoints
        BY <1>4, <2>1, LedgerAssumption
      <3>2. w[x].spent[o] = v[o]
        BY <1>1, <2>1
      <3>3. v[o] = Created(u, o)
        BY <1>7, <2>1, <3>1 DEF IsReplay
      <3> QED
        BY <1>5, <3>1, <3>2, <3>3
    <2>2. CASE x # t
      <3>1. x \in Connected(u) /\ w[x] = u[x] /\ o \in Outpoints
        BY <1>1, <1>3, <1>4, <2>2
      <3>2. SourceId[o] # t
        BY <1>2, <3>1 DEF HasNoChildren
      <3> QED
        BY <1>5, <3>1, <3>2 DEF IsReplay
    <2> QED
      BY <2>1, <2>2
  <1>10. \A x1, x2 \in Connected(w) : x1 # x2 => Inputs[x1] \cap Inputs[x2] = {}
    BY <1>1, <1>7 DEF IsReplay
  <1> QED
    BY <1>8, <1>9, <1>10 DEF IsReplay

\* Disconnecting keeps the utxo set a replay.
LEMMA DisconnectReplay ==
    ASSUME NEW v \in Utxos, NEW u \in Undos, NEW t \in Connected(u),
           IsReplay(v, u), HasNoChildren(u, t),
           NEW w, w = DisconnectUndos(u, t),
           NEW z, z = DisconnectUtxos(v, u, t)
    PROVE  w \in Undos /\ IsReplay(z, w)
  <1>0. t \in Txs
    BY DEF Connected
  <1>1. /\ w \in Undos
        /\ w[t] = NotConnected
        /\ \A x \in Txs : x # t => w[x] = u[x]
    BY <1>0 DEF DisconnectUndos, Undos
  <1>2. Connected(w) = Connected(u) \ {t}
    BY <1>1 DEF Connected
  <1>3. Connected(u) \subseteq Txs /\ \A x \in Connected(w) : x \in Connected(u) /\ w[x] = u[x]
    BY <1>1, <1>2 DEF Connected
  <1>4. \A x \in Txs : Inputs[x] \subseteq Outpoints
    BY LedgerAssumption
  <1>5. \A o \in Outpoints : SourceId[o] # t => Created(w, o) = Created(u, o)
    BY <1>1, <1>2, <1>3, LedgerAssumption DEF Created
  <1>6. \A o \in Outpoints : SourceId[o] = t => Created(w, o) = NoUtxo
    BY <1>0, <1>2, LedgerAssumption DEF Created
  <1>7. \A o \in Inputs[t] : ~\E x \in Connected(w) : o \in Inputs[x]
    BY <1>2 DEF IsReplay
  <1>8. \A o \in Outpoints :
           z[o] = IF \E x \in Connected(w) : o \in Inputs[x] THEN NoUtxo ELSE Created(w, o)
    <2> TAKE o \in Outpoints
    <2>1. CASE o \in Included(t)
      <3>1. SourceId[o] = t /\ z[o] = NoUtxo
        BY <2>1 DEF Included, DisconnectUtxos
      <3> QED
        BY <1>6, <3>1
    <2>2. CASE o \notin Included(t) /\ o \in Inputs[t]
      <3>1. z[o] = u[t].spent[o]
        BY <2>2 DEF DisconnectUtxos
      <3>2. u[t].spent[o] = Created(u, o)
        BY <2>2 DEF IsReplay
      <3>3. SourceId[o] # t
        BY <1>0, <2>2, LedgerAssumption
      <3> QED
        BY <1>5, <1>7, <2>2, <3>1, <3>2, <3>3
    <2>3. CASE o \notin Inputs[t] /\ o \notin Included(t)
      <3>1. z[o] = v[o]
        BY <2>3 DEF DisconnectUtxos
      <3>2. (\E x \in Connected(w) : o \in Inputs[x]) <=> (\E x \in Connected(u) : o \in Inputs[x])
        BY <1>2, <2>3
      <3>3. Created(w, o) = Created(u, o)
        <4>1. CASE SourceId[o] # t
          BY <1>5, <4>1
        <4>2. CASE SourceId[o] = t
          BY <2>3, <4>2 DEF Created, Included
        <4> QED
          BY <4>1, <4>2
      <3> QED
        BY <3>1, <3>2, <3>3 DEF IsReplay
    <2> QED
      BY <2>1, <2>2, <2>3
  <1>9. \A x \in Connected(w) : \A o \in Inputs[x] : w[x].spent[o] = Created(w, o)
    <2> SUFFICES ASSUME NEW x \in Connected(w), NEW o \in Inputs[x]
                 PROVE  w[x].spent[o] = Created(w, o)
      OBVIOUS
    <2>1. x \in Connected(u) /\ w[x] = u[x] /\ o \in Outpoints
      BY <1>3, <1>4
    <2>2. SourceId[o] # t
      BY <2>1 DEF HasNoChildren
    <2> QED
      BY <1>5, <2>1, <2>2 DEF IsReplay
  <1>10. \A x1, x2 \in Connected(w) : x1 # x2 => Inputs[x1] \cap Inputs[x2] = {}
    BY <1>2 DEF IsReplay
  <1> QED
    BY <1>1, <1>8, <1>9, <1>10 DEF IsReplay

\* The outputs of a connected transaction without children are unspent, its
\* inputs are spent.
LEMMA LeafOutputsUnspent ==
    ASSUME NEW v \in Utxos, NEW u \in Undos, NEW t \in Connected(u),
           IsReplay(v, u), HasNoChildren(u, t)
    PROVE  /\ \A o \in Included(t) : v[o] # NoUtxo
           /\ \A o \in Inputs[t] : v[o] = NoUtxo
  <1>1. t \in Txs /\ u[t].source \in Sources
    BY UndoType
  <1>2. ASSUME NEW o \in Included(t)
        PROVE  v[o] # NoUtxo
    <2>1. o \in Outpoints /\ o \notin Excluded /\ SourceId[o] = t
      BY DEF Included
    <2>2. Created(u, o) = u[t].source
      BY <1>1, <2>1, LedgerAssumption DEF Created
    <2>3. ~\E x \in Connected(u) : o \in Inputs[x]
      BY <2>1 DEF HasNoChildren
    <2> QED
      BY <1>1, <2>1, <2>2, <2>3, LedgerAssumption DEF IsReplay
  <1>3. \A o \in Inputs[t] : v[o] = NoUtxo
    BY <1>1, LedgerAssumption DEF IsReplay
  <1> QED
    BY <1>2, <1>3

-----------------------------------------------------------------------------
(***************************************************************************)
(* The invariant.                                                          *)
(***************************************************************************)

\* The invariant as seen from the topmost cache.
LEMMA TopFacts ==
    ASSUME CacheInv, base # NoLayer
    PROVE  /\ Top \in Caches
           /\ Top.utxos \in EntryMaps /\ Top.undos \in Undos /\ Top.best \in Tips
           /\ Below \in Utxos
           /\ TopView \in Utxos
           /\ FlagsAgree(Top.utxos, Below)
           /\ IsReplay(TopView, Top.undos)
  <1>1. Top \in Caches
    BY DEF CacheInv, TypeOK, Top
  <1>2. Top.utxos \in EntryMaps /\ Top.undos \in Undos /\ Top.best \in Tips
    BY <1>1 DEF Caches
  <1>3. db.utxos \in Utxos /\ base.utxos \in EntryMaps
    BY DEF CacheInv, TypeOK, Ledgers, Caches
  <1>4. BaseView \in Utxos
    BY <1>3, ViewType DEF BaseView
  <1>5. Below \in Utxos
    BY <1>3, <1>4 DEF Below
  <1>6. TopView \in Utxos
    BY <1>2, <1>5, ViewType DEF TopView
  <1>7. FlagsAgree(Top.utxos, Below) /\ IsReplay(TopView, Top.undos)
    BY DEF CacheInv, FlagsConsistent, ViewsAreReplays, Top, Below, TopView, BaseView, ChildView
  <1> QED
    BY <1>1, <1>2, <1>5, <1>6, <1>7

\* A change of the topmost cache that keeps its flags right and its view a
\* replay keeps the invariant.
LEMMA SetTopKeeps ==
    ASSUME CacheInv, base # NoLayer,
           NEW c \in EntryMaps, NEW u \in Undos, NEW b \in Tips,
           FlagsAgree(c, Below), IsReplay(ViewThrough(c, Below), u),
           SetTop(c, u, b)
    PROVE  CacheInv'
  <1>1. [utxos |-> c, undos |-> u, best |-> b] \in Caches
    BY DEF Caches
  <1>2. [utxos |-> c, undos |-> u, best |-> b] # NoLayer
    BY <1>1, CacheAssumption
  <1>3. CASE /\ child # NoLayer
             /\ child' = [utxos |-> c, undos |-> u, best |-> b]
             /\ UNCHANGED <<db, base>>
    <2>1. child'.utxos = c /\ child'.undos = u /\ db' = db /\ base' = base
      BY <1>3
    <2>2. BaseView' = BaseView /\ Below = BaseView
      BY <1>3, <2>1 DEF BaseView, Below
    <2>3. ChildView' = ViewThrough(c, Below)
      BY <2>1, <2>2 DEF ChildView
    <2>4. TypeOK'
      BY <1>1, <1>3 DEF CacheInv, TypeOK
    <2>5. FlagsConsistent'
      BY <2>1, <2>2 DEF CacheInv, FlagsConsistent
    <2>6. ViewsAreReplays'
      BY <2>1, <2>2, <2>3 DEF CacheInv, ViewsAreReplays
    <2> QED
      BY <2>4, <2>5, <2>6 DEF CacheInv
  <1>4. CASE /\ child = NoLayer
             /\ base' = [utxos |-> c, undos |-> u, best |-> b]
             /\ UNCHANGED <<db, child>>
    <2>1. base'.utxos = c /\ base'.undos = u /\ db' = db /\ child' = NoLayer
      BY <1>4
    <2>2. Below = db.utxos
      BY <1>4 DEF Below
    <2>3. BaseView' = ViewThrough(c, Below)
      BY <2>1, <2>2 DEF BaseView
    <2>4. TypeOK'
      BY <1>1, <1>4 DEF CacheInv, TypeOK
    <2>5. FlagsConsistent'
      BY <2>1, <2>2 DEF CacheInv, FlagsConsistent
    <2>6. ViewsAreReplays'
      BY <2>1, <2>3 DEF CacheInv, ViewsAreReplays
    <2> QED
      BY <2>4, <2>5, <2>6 DEF CacheInv
  <1> QED
    BY <1>3, <1>4 DEF SetTop

\* What connecting does to the topmost cache.
LEMMA ConnectTop ==
    ASSUME CacheInv, NEW t \in Txs, NEW s \in Sources, Connect(t, s),
           NEW c, c = ConnectCache(Top.utxos, Below, t, s),
           NEW u, u = ConnectUndos(TopView, Top.undos, t, s)
    PROVE  /\ \A o \in Inputs[t] : TopView[o] # NoUtxo
           /\ t \notin Connected(Top.undos)
           /\ c \in EntryMaps /\ u \in Undos
           /\ FlagsAgree(c, Below)
           /\ ViewThrough(c, Below) = ConnectUtxos(TopView, t, s)
           /\ IsReplay(ViewThrough(c, Below), u)
  <1>1. base # NoLayer /\ IsNew(Top.undos, t) /\ CanConnect(Top.utxos, Below, t)
    BY DEF Connect
  <1>2. /\ Top.utxos \in EntryMaps /\ Top.undos \in Undos /\ Below \in Utxos
        /\ TopView \in Utxos /\ FlagsAgree(Top.utxos, Below)
        /\ IsReplay(TopView, Top.undos)
    BY <1>1, TopFacts
  <1>3. \A o \in Inputs[t] : o \in Outpoints /\ TopView[o] # NoUtxo
    BY <1>1, <1>2, SeenOrNot, LedgerAssumption DEF CanConnect, TopView
  <1>4. t \notin Connected(Top.undos)
    <2>1. CASE Inputs[t] = {}
      BY <1>1, <2>1 DEF IsNew
    <2>2. CASE Inputs[t] # {}
      BY <1>2, <1>3, <2>2 DEF IsReplay
    <2> QED
      BY <2>1, <2>2
  <1>5. \A o \in Included(t) : ViewThrough(Top.utxos, Below)[o] = NoUtxo
    BY <1>2, <1>4, SpentWasCreated DEF TopView
  <1>6. /\ c \in EntryMaps /\ FlagsAgree(c, Below)
        /\ ViewThrough(c, Below) = ConnectUtxos(TopView, t, s)
    BY <1>1, <1>2, <1>5, ConnectLayer DEF TopView
  <1>7. u \in Undos
    BY <1>2, <1>3, ConnectUndosType
  <1>8. IsReplay(ViewThrough(c, Below), u)
    BY <1>2, <1>3, <1>4, <1>6, ConnectReplay
  <1> QED
    BY <1>3, <1>4, <1>6, <1>7, <1>8

\* What disconnecting does to the topmost cache.
LEMMA DisconnectTop ==
    ASSUME CacheInv, NEW t \in Txs, Disconnect(t),
           NEW c, c = DisconnectCache(Top.utxos, Below, Top.undos, t),
           NEW u, u = DisconnectUndos(Top.undos, t)
    PROVE  /\ c \in EntryMaps /\ u \in Undos
           /\ FlagsAgree(c, Below)
           /\ ViewThrough(c, Below) = DisconnectUtxos(TopView, Top.undos, t)
           /\ IsReplay(ViewThrough(c, Below), u)
  <1>1. /\ base # NoLayer
        /\ t \in Connected(Top.undos) /\ HasNoChildren(Top.undos, t)
        /\ \A o \in Included(t) : CanSpend(Top.utxos, Below, o)
    BY DEF Disconnect, CanDisconnect
  <1>2. /\ Top.utxos \in EntryMaps /\ Top.undos \in Undos /\ Below \in Utxos
        /\ TopView \in Utxos /\ FlagsAgree(Top.utxos, Below)
        /\ IsReplay(TopView, Top.undos)
    BY <1>1, TopFacts
  <1>3. \A o \in Inputs[t] : ViewThrough(Top.utxos, Below)[o] = NoUtxo
    BY <1>1, <1>2, LeafOutputsUnspent DEF TopView
  <1>4. /\ c \in EntryMaps /\ FlagsAgree(c, Below)
        /\ ViewThrough(c, Below) = DisconnectUtxos(TopView, Top.undos, t)
    BY <1>1, <1>2, <1>3, DisconnectLayer DEF TopView
  <1>5. u \in Undos /\ IsReplay(ViewThrough(c, Below), u)
    BY <1>1, <1>2, <1>4, DisconnectReplay
  <1> QED
    BY <1>4, <1>5

\* The initial state.
LEMMA InitHolds == Init => CacheInv
  <1> SUFFICES ASSUME Init PROVE CacheInv
    OBVIOUS
  <1>1. GenesisUtxos \in Utxos
    BY LedgerAssumption DEF GenesisUtxos, Utxos
  <1>2. [t \in Txs |-> NotConnected] \in Undos
    BY DEF Undos
  <1>3. TypeOK
    BY <1>1, <1>2, LedgerAssumption DEF Init, TypeOK, Ledgers
  <1>4. Connected(db.undos) = {}
    BY DEF Init, Connected
  <1>5. \A o \in Outpoints : db.utxos[o] = Created(db.undos, o)
    BY <1>4, LedgerAssumption DEF Init, GenesisUtxos, Created
  <1>6. IsReplay(db.utxos, db.undos)
    BY <1>4, <1>5 DEF IsReplay
  <1> QED
    BY <1>3, <1>6 DEF Init, CacheInv, FlagsConsistent, ViewsAreReplays

\* An empty cache is right about anything and shows what is below it.
LEMMA EmptyLayer ==
    ASSUME NEW p \in Utxos
    PROVE  EmptyCache \in EntryMaps /\ FlagsAgree(EmptyCache, p) /\ ViewThrough(EmptyCache, p) = p
  <1>1. \A o \in Outpoints : EmptyCache[o] = NoEntry
    BY DEF EmptyCache
  <1>2. EmptyCache \in EntryMaps
    BY DEF EmptyCache, EntryMaps
  <1> QED
    BY <1>1, <1>2 DEF FlagsAgree, ViewThrough, Utxos

\* A new cache shows the storage.
LEMMA NewCacheViews ==
    ASSUME CacheInv, NewCache
    PROVE  CacheInv' /\ BaseView' = db.utxos /\ base' # NoLayer
  <1>1. db \in Ledgers /\ db.utxos \in Utxos /\ db.undos \in Undos /\ db.best \in Tips
    BY DEF CacheInv, TypeOK, Ledgers
  <1>2. /\ base = NoLayer /\ child = NoLayer /\ db' = db /\ child' = NoLayer
        /\ base' = [utxos |-> EmptyCache, undos |-> db.undos, best |-> db.best]
    BY DEF NewCache, CacheInv, TypeOK
  <1>3. base' \in Caches /\ base' # NoLayer
    BY <1>1, <1>2, EmptyLayer, CacheAssumption DEF Caches
  <1>4. FlagsAgree(base'.utxos, db'.utxos) /\ BaseView' = db.utxos
    BY <1>1, <1>2, EmptyLayer DEF BaseView
  <1>5. TypeOK'
    BY <1>1, <1>2, <1>3 DEF TypeOK
  <1>6. FlagsConsistent'
    BY <1>2, <1>4 DEF FlagsConsistent
  <1>7. ViewsAreReplays'
    BY <1>2, <1>4 DEF CacheInv, ViewsAreReplays
  <1> QED
    BY <1>3, <1>4, <1>5, <1>6, <1>7 DEF CacheInv

\* A derived cache shows its parent's view.
LEMMA DeriveChildViews ==
    ASSUME CacheInv, DeriveChild
    PROVE  CacheInv' /\ BaseView' = BaseView /\ ChildView' = BaseView /\ child' # NoLayer
  <1>1. /\ base # NoLayer /\ child = NoLayer /\ db' = db /\ base' = base
        /\ child' = [utxos |-> EmptyCache, undos |-> base.undos, best |-> base.best]
    BY DEF DeriveChild
  <1>2. base \in Caches /\ base.utxos \in EntryMaps /\ base.undos \in Undos /\ base.best \in Tips
    BY <1>1 DEF CacheInv, TypeOK, Caches
  <1>3. BaseView \in Utxos
    BY <1>2, ViewType DEF CacheInv, TypeOK, Ledgers, BaseView
  <1>4. child' \in Caches /\ child' # NoLayer
    BY <1>1, <1>2, <1>3, EmptyLayer, CacheAssumption DEF Caches
  <1>5. BaseView' = BaseView
    BY <1>1 DEF BaseView
  <1>6. FlagsAgree(child'.utxos, BaseView) /\ ChildView' = BaseView
    BY <1>1, <1>3, <1>5, EmptyLayer DEF ChildView
  <1>7. TypeOK'
    BY <1>1, <1>4 DEF CacheInv, TypeOK
  <1>8. FlagsConsistent'
    BY <1>1, <1>5, <1>6 DEF CacheInv, FlagsConsistent
  <1>9. ViewsAreReplays'
    BY <1>1, <1>5, <1>6 DEF CacheInv, ViewsAreReplays
  <1> QED
    BY <1>4, <1>5, <1>6, <1>7, <1>8, <1>9 DEF CacheInv

\* A flush makes the parent's view that of the child.
LEMMA FlushChildViews ==
    ASSUME CacheInv, FlushChild
    PROVE  CacheInv' /\ BaseView' = ChildView /\ base' # NoLayer
  <1>1. /\ base # NoLayer /\ child # NoLayer /\ db' = db /\ child' = NoLayer
        /\ base' = [utxos |-> WriteCache(base.utxos, child.utxos),
                    undos |-> child.undos, best |-> child.best]
    BY DEF FlushChild, CacheInv, TypeOK
  <1>2. /\ base.utxos \in EntryMaps /\ child.utxos \in EntryMaps
        /\ child.undos \in Undos /\ child.best \in Tips /\ db.utxos \in Utxos
    BY <1>1 DEF CacheInv, TypeOK, Caches, Ledgers
  <1>3. FlagsAgree(base.utxos, db.utxos) /\ FlagsAgree(child.utxos, ViewThrough(base.utxos, db.utxos))
    BY <1>1 DEF CacheInv, FlagsConsistent, BaseView
  <1>4. /\ base'.utxos \in EntryMaps /\ FlagsAgree(base'.utxos, db.utxos)
        /\ ViewThrough(base'.utxos, db.utxos) = ChildView
    BY <1>1, <1>2, <1>3, WriteCacheGivesView DEF ChildView, BaseView
  <1>5. BaseView' = ChildView
    BY <1>1, <1>4 DEF BaseView
  <1>6. base' \in Caches /\ base' # NoLayer
    BY <1>1, <1>2, <1>4, CacheAssumption DEF Caches
  <1>7. TypeOK'
    BY <1>1, <1>6 DEF CacheInv, TypeOK
  <1>8. FlagsConsistent'
    BY <1>1, <1>4 DEF FlagsConsistent
  <1>9. ViewsAreReplays'
    BY <1>1, <1>5 DEF CacheInv, ViewsAreReplays
  <1> QED
    BY <1>5, <1>6, <1>7, <1>8, <1>9 DEF CacheInv

\* A flush makes the storage what was seen through the cache.
LEMMA FlushBaseViews ==
    ASSUME CacheInv, FlushBase
    PROVE  CacheInv' /\ db' = [utxos |-> BaseView, undos |-> base.undos, best |-> base.best]
  <1>1. /\ base # NoLayer /\ child = NoLayer /\ base' = NoLayer /\ child' = NoLayer
        /\ db' = [utxos |-> WriteDb(db.utxos, base.utxos),
                  undos |-> base.undos, best |-> base.best]
    BY DEF FlushBase
  <1>2. /\ base.utxos \in EntryMaps /\ db.utxos \in Utxos
        /\ base.undos \in Undos /\ base.best \in Tips
    BY <1>1 DEF CacheInv, TypeOK, Caches, Ledgers
  <1>3. FlagsAgree(base.utxos, db.utxos)
    BY <1>1 DEF CacheInv, FlagsConsistent
  <1>4. WriteDb(db.utxos, base.utxos) = BaseView
    BY <1>2, <1>3, WriteDbGivesView DEF BaseView
  <1>5. BaseView \in Utxos
    BY <1>2, ViewType DEF BaseView
  <1>6. TypeOK'
    BY <1>1, <1>2, <1>4, <1>5 DEF TypeOK, Ledgers
  <1>7. FlagsConsistent' /\ ViewsAreReplays'
    BY <1>1, <1>4 DEF CacheInv, FlagsConsistent, ViewsAreReplays
  <1> QED
    BY <1>1, <1>4, <1>6, <1>7 DEF CacheInv

\* The topmost cache after a fetched entry is kept or an unchanged one dropped.
LEMMA CachedTop ==
    ASSUME CacheInv, base # NoLayer, NEW o \in Outpoints, NEW c,
           \/ c = [Top.utxos EXCEPT ![o] = FetchUtxoEntry(Top.utxos, Below, o)]
           \/ /\ Top.utxos[o] # NoEntry /\ ~Top.utxos[o].dirty
              /\ c = [Top.utxos EXCEPT ![o] = NoEntry]
    PROVE  c \in EntryMaps /\ FlagsAgree(c, Below) /\ ViewThrough(c, Below) = TopView
  <1>1. Top.utxos \in EntryMaps /\ Below \in Utxos /\ FlagsAgree(Top.utxos, Below)
    BY TopFacts
  <1> QED
    BY <1>1, FetchLayer, UncacheLayer DEF TopView

\* Every step keeps the invariant.
LEMMA StepKeeps ==
    ASSUME CacheInv, [Next]_vars
    PROVE  CacheInv'
  <1>1. CASE NewCache
    BY <1>1, NewCacheViews
  <1>2. CASE DeriveChild
    BY <1>2, DeriveChildViews
  <1>3. ASSUME NEW t \in Txs, NEW s \in Sources, Connect(t, s)
        PROVE  CacheInv'
    <2>1. /\ base # NoLayer
          /\ SetTop(ConnectCache(Top.utxos, Below, t, s),
                    ConnectUndos(TopView, Top.undos, t, s), Top.best)
      BY <1>3 DEF Connect
    <2> QED
      BY <1>3, <2>1, ConnectTop, SetTopKeeps, TopFacts
  <1>4. ASSUME NEW t \in Txs, Disconnect(t)
        PROVE  CacheInv'
    <2>1. /\ base # NoLayer
          /\ SetTop(DisconnectCache(Top.utxos, Below, Top.undos, t),
                    DisconnectUndos(Top.undos, t), Top.best)
      BY <1>4 DEF Disconnect
    <2> QED
      BY <1>4, <2>1, DisconnectTop, SetTopKeeps, TopFacts
  <1>5. ASSUME NEW b \in Tips, SetBestBlock(b)
        PROVE  CacheInv'
    BY <1>5, SetTopKeeps, TopFacts DEF SetBestBlock, TopView
  <1>6. ASSUME NEW o \in Outpoints, GetUtxo(o) \/ Uncache(o)
        PROVE  CacheInv'
    <2>1. base # NoLayer
      BY <1>6 DEF GetUtxo, Uncache
    <2>2. PICK c : /\ SetTop(c, Top.undos, Top.best)
                   /\ \/ c = [Top.utxos EXCEPT ![o] = FetchUtxoEntry(Top.utxos, Below, o)]
                      \/ /\ Top.utxos[o] # NoEntry /\ ~Top.utxos[o].dirty
                         /\ c = [Top.utxos EXCEPT ![o] = NoEntry]
      BY <1>6 DEF GetUtxo, Uncache
    <2>3. c \in EntryMaps /\ FlagsAgree(c, Below) /\ ViewThrough(c, Below) = TopView
      BY <2>1, <2>2, CachedTop
    <2> QED
      BY <2>1, <2>2, <2>3, SetTopKeeps, TopFacts
  <1>7. CASE FlushChild
    BY <1>7, FlushChildViews
  <1>8. CASE FlushBase
    BY <1>8, FlushBaseViews
  <1>9. CASE DropTop
    <2>1. CASE child # NoLayer /\ child' = NoLayer /\ UNCHANGED <<base, db>>
      BY <2>1 DEF CacheInv, TypeOK, FlagsConsistent, ViewsAreReplays, BaseView
    <2>2. CASE child = NoLayer /\ base' = NoLayer /\ UNCHANGED <<child, db>>
      BY <2>2 DEF CacheInv, TypeOK, FlagsConsistent, ViewsAreReplays
    <2> QED
      BY <1>9, <2>1, <2>2 DEF DropTop
  <1>10. CASE UNCHANGED vars
    BY <1>10 DEF vars, CacheInv, TypeOK, FlagsConsistent, ViewsAreReplays, BaseView, ChildView
  <1> QED
    BY <1>1, <1>2, <1>3, <1>4, <1>5, <1>6, <1>7, <1>8, <1>9, <1>10
       DEF Next, ConnectTransaction, ConnectBlockReward, DisconnectTransaction, DisconnectBlockReward

\* CacheInv holds in every state, for any transactions and outpoints.
THEOREM CacheInvariant == Spec => []CacheInv
  <1>1. Init => CacheInv
    BY InitHolds
  <1>2. CacheInv /\ [Next]_vars => CacheInv'
    BY StepKeeps
  <1> QED
    BY <1>1, <1>2, PTL DEF Spec

\* The state has the shape of the code's types.
THEOREM CacheTypes == Spec => []TypeOK
  <1>1. CacheInv => TypeOK
    BY DEF CacheInv
  <1> QED
    BY <1>1, CacheInvariant, PTL

\* FRESH and DIRTY are right about the cache or the storage below
\* (UtxosCache::add_utxo, spend_utxo, batch_write).
THEOREM FlagsAreRight == Spec => []FlagsConsistent
  <1>1. CacheInv => FlagsConsistent
    BY DEF CacheInv
  <1> QED
    BY <1>1, CacheInvariant, PTL

\* Every view is what the transactions connected in it make of the genesis
\* outputs (connect_transaction, disconnect_transaction).
THEOREM UtxosAreReplays == Spec => []ViewsAreReplays
  <1>1. CacheInv => ViewsAreReplays
    BY DEF CacheInv
  <1> QED
    BY <1>1, CacheInvariant, PTL

\* None of the internal errors of the caches can occur: FreshUtxoAlreadyExists,
\* OverwritingUtxo, and the errors of disconnect_transaction.
THEOREM NoInternalErrors == Spec => []CallsSucceed
  <1>1. ASSUME CacheInv PROVE CallsSucceed
    <2> SUFFICES ASSUME base # NoLayer
                 PROVE  /\ child # NoLayer =>
                             \A o \in Outpoints : ~FreshExists(base.utxos, child.utxos, o)
                        /\ \A t \in Txs :
                             (IsNew(Top.undos, t) /\ CanConnect(Top.utxos, Below, t)) =>
                                \A o \in Included(t) : CanAdd(Top.utxos, o)
                        /\ \A t \in Txs : CanDisconnect(Top.undos, t) =>
                                /\ \A o \in Included(t) : CanSpend(Top.utxos, Below, o)
                                /\ \A o \in Inputs[t] : CanAdd(Top.utxos, o)
      BY DEF CallsSucceed
    <2>1. /\ Top.utxos \in EntryMaps /\ Top.undos \in Undos /\ Below \in Utxos
          /\ TopView \in Utxos /\ FlagsAgree(Top.utxos, Below)
          /\ IsReplay(TopView, Top.undos)
      BY <1>1, TopFacts
    <2>2. ASSUME child # NoLayer, NEW o \in Outpoints
          PROVE  ~FreshExists(base.utxos, child.utxos, o)
      <3>1. /\ base.utxos \in EntryMaps /\ child.utxos \in EntryMaps /\ db.utxos \in Utxos
            /\ FlagsAgree(child.utxos, ViewThrough(base.utxos, db.utxos))
        BY <1>1, <2>2 DEF CacheInv, TypeOK, FlagsConsistent, Caches, Ledgers, BaseView
      <3> QED
        BY <3>1, NoFreshExists
    <2>3. ASSUME NEW t \in Txs, IsNew(Top.undos, t), CanConnect(Top.utxos, Below, t),
                 NEW o \in Included(t)
          PROVE  CanAdd(Top.utxos, o)
      <3>1. \A i \in Inputs[t] : i \in Outpoints /\ TopView[i] # NoUtxo
        BY <2>1, <2>3, SeenOrNot, LedgerAssumption DEF CanConnect, TopView
      <3>2. t \notin Connected(Top.undos)
        <4>1. CASE Inputs[t] = {}
          BY <2>3, <4>1 DEF IsNew
        <4>2. CASE Inputs[t] # {}
          BY <2>1, <3>1, <4>2 DEF IsReplay
        <4> QED
          BY <4>1, <4>2
      <3>3. o \in Outpoints /\ ViewThrough(Top.utxos, Below)[o] = NoUtxo
        BY <2>1, <3>2, SpentWasCreated DEF TopView, Included
      <3> QED
        BY <2>1, <3>3, SeenOrNot
    <2>4. ASSUME NEW t \in Txs, CanDisconnect(Top.undos, t)
          PROVE  /\ \A o \in Included(t) : CanSpend(Top.utxos, Below, o)
                 /\ \A o \in Inputs[t] : CanAdd(Top.utxos, o)
      <3>1. t \in Connected(Top.undos) /\ HasNoChildren(Top.undos, t)
        BY <2>4 DEF CanDisconnect
      <3>2. /\ \A o \in Included(t) : ViewThrough(Top.utxos, Below)[o] # NoUtxo
            /\ \A o \in Inputs[t] : ViewThrough(Top.utxos, Below)[o] = NoUtxo
        BY <2>1, <3>1, LeafOutputsUnspent DEF TopView
      <3>3. Included(t) \subseteq Outpoints /\ Inputs[t] \subseteq Outpoints
        BY LedgerAssumption DEF Included
      <3> QED
        BY <2>1, <3>2, <3>3, SeenOrNot
    <2> QED
      BY <2>2, <2>3, <2>4
  <1> QED
    BY <1>1, CacheInvariant, PTL

-----------------------------------------------------------------------------
(***************************************************************************)
(* Refinement.                                                             *)
(***************************************************************************)
BaseSet  == SetOf(base, BaseView)
ChildSet == SetOf(child, ChildView)

\* The mapped views exist where the caches do, and the topmost one is TopView.
LEMMA MappedViews ==
    ASSUME CacheInv
    PROVE  /\ BaseSet = NoLayer <=> base = NoLayer
           /\ ChildSet = NoLayer <=> child = NoLayer
           /\ base # NoLayer =>
                 (IF ChildSet # NoLayer THEN ChildSet ELSE BaseSet)
                    = [utxos |-> TopView, undos |-> Top.undos, best |-> Top.best]
  <1>1. ASSUME base # NoLayer
        PROVE  [utxos |-> BaseView, undos |-> base.undos, best |-> base.best] # NoLayer
    <2>1. /\ base.utxos \in EntryMaps /\ base.undos \in Undos /\ base.best \in Tips
          /\ db.utxos \in Utxos
      BY <1>1 DEF CacheInv, TypeOK, Caches, Ledgers
    <2>2. BaseView \in Utxos
      BY <2>1, ViewType DEF BaseView
    <2> QED
      BY <2>1, <2>2, CacheAssumption DEF Ledgers
  <1>2. ASSUME child # NoLayer
        PROVE  [utxos |-> ChildView, undos |-> child.undos, best |-> child.best] # NoLayer
    <2>1. /\ base.utxos \in EntryMaps /\ db.utxos \in Utxos
          /\ child.utxos \in EntryMaps /\ child.undos \in Undos /\ child.best \in Tips
      BY <1>2 DEF CacheInv, TypeOK, Caches, Ledgers
    <2>2. ChildView \in Utxos
      BY <2>1, ViewType DEF BaseView, ChildView
    <2> QED
      BY <2>1, <2>2, CacheAssumption DEF Ledgers
  <1> QED
    BY <1>1, <1>2 DEF BaseSet, ChildSet, SetOf, TopView, Top, Below, BaseView, ChildView

\* A change of the topmost cache changes the topmost view, and nothing else.
LEMMA SetTopMaps ==
    ASSUME CacheInv, base # NoLayer,
           NEW c \in EntryMaps, NEW u \in Undos, NEW b \in Tips, SetTop(c, u, b)
    PROVE  Plain!ChangeTop(ViewThrough(c, Below), u, b)
  <1>0. /\ BaseSet = NoLayer <=> base = NoLayer
        /\ ChildSet = NoLayer <=> child = NoLayer
    BY MappedViews
  <1>1. [utxos |-> c, undos |-> u, best |-> b] # NoLayer
    BY CacheAssumption DEF Caches
  <1>2. CASE /\ child # NoLayer
             /\ child' = [utxos |-> c, undos |-> u, best |-> b]
             /\ UNCHANGED <<db, base>>
    <2>1. child'.utxos = c /\ child'.undos = u /\ child'.best = b /\ db' = db /\ base' = base
      BY <1>2
    <2>2. BaseView' = BaseView /\ Below = BaseView
      BY <1>2, <2>1 DEF BaseView, Below
    <2>3. ChildView' = ViewThrough(c, Below)
      BY <2>1, <2>2 DEF ChildView
    <2>4. SetOf(child, ChildView)' = [utxos |-> ViewThrough(c, Below), undos |-> u, best |-> b]
      BY <1>1, <1>2, <2>1, <2>3 DEF SetOf
    <2>5. SetOf(base, BaseView)' = SetOf(base, BaseView)
      BY <2>1, <2>2 DEF SetOf
    <2> QED
      BY <1>0, <1>2, <2>1, <2>4, <2>5 DEF Plain!ChangeTop, ChildSet, BaseSet
  <1>3. CASE /\ child = NoLayer
             /\ base' = [utxos |-> c, undos |-> u, best |-> b]
             /\ UNCHANGED <<db, child>>
    <2>1. base'.utxos = c /\ base'.undos = u /\ base'.best = b /\ db' = db /\ child' = NoLayer
      BY <1>3
    <2>2. BaseView' = ViewThrough(c, Below)
      BY <1>3, <2>1 DEF BaseView, Below
    <2>3. SetOf(base, BaseView)' = [utxos |-> ViewThrough(c, Below), undos |-> u, best |-> b]
      BY <1>1, <1>3, <2>1, <2>2 DEF SetOf
    <2>4. SetOf(child, ChildView)' = SetOf(child, ChildView)
      BY <1>3, <2>1 DEF SetOf
    <2> QED
      BY <1>0, <1>3, <2>1, <2>3, <2>4 DEF Plain!ChangeTop, ChildSet, BaseSet
  <1> QED
    BY <1>2, <1>3 DEF SetTop

\* A change of the topmost cache that its view does not show is no step.
LEMMA SetTopStutters ==
    ASSUME CacheInv, base # NoLayer, NEW c \in EntryMaps,
           SetTop(c, Top.undos, Top.best), ViewThrough(c, Below) = TopView
    PROVE  UNCHANGED Plain!setVars
  <1>1. /\ Top.undos \in Undos /\ Top.best \in Tips
    BY TopFacts
  <1>2. Plain!ChangeTop(TopView, Top.undos, Top.best)
    BY <1>1, SetTopMaps
  <1>3. /\ BaseSet = NoLayer <=> base = NoLayer
        /\ (IF ChildSet # NoLayer THEN ChildSet ELSE BaseSet)
              = [utxos |-> TopView, undos |-> Top.undos, best |-> Top.best]
    BY MappedViews
  <1> QED
    BY <1>2, <1>3 DEF Plain!ChangeTop, Plain!setVars, ChildSet, BaseSet

\* The instance has the same ledger.
LEMMA SameGenesis == Plain!GenesisUtxos = GenesisUtxos
  BY DEF Plain!GenesisUtxos, GenesisUtxos

\* The instance has the same operations on it.
LEMMA SameLedger ==
    ASSUME NEW u, NEW v, NEW t, NEW s
    PROVE  /\ Plain!Connected(u) = Connected(u)
           /\ Plain!HasNoChildren(u, t) <=> HasNoChildren(u, t)
           /\ Plain!ConnectUtxos(v, t, s) = ConnectUtxos(v, t, s)
           /\ Plain!ConnectUndos(v, u, t, s) = ConnectUndos(v, u, t, s)
           /\ Plain!DisconnectUtxos(v, u, t) = DisconnectUtxos(v, u, t)
           /\ Plain!DisconnectUndos(u, t) = DisconnectUndos(u, t)
  BY DEF Plain!Connected, Connected,
         Plain!HasNoChildren, HasNoChildren, Plain!ConnectUtxos, ConnectUtxos,
         Plain!ConnectUndos, ConnectUndos, Plain!DisconnectUtxos, DisconnectUtxos,
         Plain!DisconnectUndos, DisconnectUndos, Plain!Included, Included

\* Every step of the caches is a step of the maps, or changes no map.
LEMMA StepMaps ==
    ASSUME CacheInv, [Next]_vars
    PROVE  [Plain!SetNext]_(Plain!setVars)
  <1>0. /\ BaseSet = NoLayer <=> base = NoLayer
        /\ ChildSet = NoLayer <=> child = NoLayer
        /\ base # NoLayer =>
              Plain!TopSet = [utxos |-> TopView, undos |-> Top.undos, best |-> Top.best]
    BY MappedViews DEF Plain!TopSet, ChildSet, BaseSet
  <1>a. base # NoLayer =>
           /\ Plain!TopSet.utxos = TopView /\ Plain!TopSet.undos = Top.undos
           /\ Plain!TopSet.best = Top.best
    BY <1>0
  <1>1. CASE NewCache
    <2>1. BaseView' = db.utxos /\ base' # NoLayer
      BY <1>1, NewCacheViews
    <2>2. /\ base = NoLayer /\ child = NoLayer /\ db' = db /\ child' = NoLayer
          /\ base' = [utxos |-> EmptyCache, undos |-> db.undos, best |-> db.best]
      BY <1>1 DEF NewCache, CacheInv, TypeOK
    <2>3. db = [utxos |-> db.utxos, undos |-> db.undos, best |-> db.best]
      BY DEF CacheInv, TypeOK, Ledgers
    <2>4. Plain!OpenBase
      BY <2>1, <2>2, <2>3 DEF Plain!OpenBase, SetOf
    <2> QED
      BY <2>4 DEF Plain!SetNext
  <1>2. CASE DeriveChild
    <2>1. BaseView' = BaseView /\ ChildView' = BaseView /\ child' # NoLayer
      BY <1>2, DeriveChildViews
    <2>2. /\ base # NoLayer /\ child = NoLayer /\ db' = db /\ base' = base
          /\ child' = [utxos |-> EmptyCache, undos |-> base.undos, best |-> base.best]
      BY <1>2 DEF DeriveChild
    <2>3. Plain!OpenChild
      BY <1>0, <2>1, <2>2 DEF Plain!OpenChild, SetOf, BaseSet, ChildSet
    <2> QED
      BY <2>3 DEF Plain!SetNext
  <1>3. ASSUME NEW t \in Txs, NEW s \in Sources, Connect(t, s)
        PROVE  Plain!SetNext
    <2> DEFINE c == ConnectCache(Top.utxos, Below, t, s)
               u == ConnectUndos(TopView, Top.undos, t, s)
    <2>1. base # NoLayer /\ SetTop(c, u, Top.best)
      BY <1>3 DEF Connect
    <2>2. /\ \A o \in Inputs[t] : TopView[o] # NoUtxo
          /\ t \notin Connected(Top.undos)
          /\ c \in EntryMaps /\ u \in Undos
          /\ ViewThrough(c, Below) = ConnectUtxos(TopView, t, s)
      BY <1>3, ConnectTop
    <2>3. Top.best \in Tips
      BY <2>1, TopFacts
    <2>4. Plain!ChangeTop(ConnectUtxos(TopView, t, s), u, Top.best)
      <3> HIDE DEF c, u
      <3> QED
        BY <2>1, <2>2, <2>3, SetTopMaps
    <2>5. Plain!Connect(t, s)
      BY <1>0, <1>a, <2>1, <2>2, <2>4, SameLedger DEF Plain!Connect, BaseSet
    <2> QED
      BY <2>5 DEF Plain!SetNext
  <1>4. ASSUME NEW t \in Txs, Disconnect(t)
        PROVE  Plain!SetNext
    <2> DEFINE c == DisconnectCache(Top.utxos, Below, Top.undos, t)
               u == DisconnectUndos(Top.undos, t)
    <2>1. base # NoLayer /\ SetTop(c, u, Top.best) /\ CanDisconnect(Top.undos, t)
      BY <1>4 DEF Disconnect
    <2>2. /\ c \in EntryMaps /\ u \in Undos
          /\ ViewThrough(c, Below) = DisconnectUtxos(TopView, Top.undos, t)
      BY <1>4, DisconnectTop
    <2>3. Top.best \in Tips
      BY <2>1, TopFacts
    <2>4. Plain!ChangeTop(DisconnectUtxos(TopView, Top.undos, t), u, Top.best)
      <3> HIDE DEF c, u
      <3> QED
        BY <2>1, <2>2, <2>3, SetTopMaps
    <2>5. Plain!Disconnect(t)
      BY <1>0, <1>a, <2>1, <2>4, SameLedger DEF Plain!Disconnect, CanDisconnect, BaseSet
    <2> QED
      BY <2>5 DEF Plain!SetNext
  <1>5. ASSUME NEW b \in Tips, SetBestBlock(b)
        PROVE  Plain!SetNext
    <2>1. base # NoLayer /\ SetTop(Top.utxos, Top.undos, b)
      BY <1>5 DEF SetBestBlock
    <2>2. Top.utxos \in EntryMaps /\ Top.undos \in Undos
      BY <2>1, TopFacts
    <2>3. Plain!ChangeTop(TopView, Top.undos, b)
      BY <2>1, <2>2, SetTopMaps DEF TopView
    <2>4. Plain!ChangeBest(b)
      BY <1>a, <2>1, <2>3 DEF Plain!ChangeBest
    <2> QED
      BY <2>4 DEF Plain!SetNext
  <1>6. ASSUME NEW o \in Outpoints, GetUtxo(o) \/ Uncache(o)
        PROVE  UNCHANGED Plain!setVars
    <2>1. base # NoLayer
      BY <1>6 DEF GetUtxo, Uncache
    <2>2. PICK c : /\ SetTop(c, Top.undos, Top.best)
                   /\ \/ c = [Top.utxos EXCEPT ![o] = FetchUtxoEntry(Top.utxos, Below, o)]
                      \/ /\ Top.utxos[o] # NoEntry /\ ~Top.utxos[o].dirty
                         /\ c = [Top.utxos EXCEPT ![o] = NoEntry]
      BY <1>6 DEF GetUtxo, Uncache
    <2>3. c \in EntryMaps /\ ViewThrough(c, Below) = TopView
      BY <2>1, <2>2, CachedTop
    <2> QED
      BY <2>1, <2>2, <2>3, SetTopStutters
  <1>7. CASE FlushChild
    <2>1. BaseView' = ChildView /\ base' # NoLayer
      BY <1>7, FlushChildViews
    <2>2. /\ child # NoLayer /\ db' = db /\ child' = NoLayer
          /\ base' = [utxos |-> WriteCache(base.utxos, child.utxos),
                      undos |-> child.undos, best |-> child.best]
      BY <1>7 DEF FlushChild
    <2>3. Plain!CommitChild
      BY <1>0, <2>1, <2>2 DEF Plain!CommitChild, SetOf, ChildSet
    <2> QED
      BY <2>3 DEF Plain!SetNext
  <1>8. CASE FlushBase
    <2>1. db' = [utxos |-> BaseView, undos |-> base.undos, best |-> base.best]
      BY <1>8, FlushBaseViews
    <2>2. base # NoLayer /\ child = NoLayer /\ base' = NoLayer /\ child' = NoLayer
      BY <1>8 DEF FlushBase
    <2>3. Plain!CommitBase
      BY <1>0, <2>1, <2>2 DEF Plain!CommitBase, SetOf, BaseSet
    <2> QED
      BY <2>3 DEF Plain!SetNext
  <1>9. CASE DropTop
    <2>1. CASE child # NoLayer /\ child' = NoLayer /\ UNCHANGED <<base, db>>
      <3>1. BaseView' = BaseView
        BY <2>1 DEF BaseView
      <3>2. Plain!ForgetChild
        BY <2>1, <3>1 DEF Plain!ForgetChild, SetOf
      <3> QED
        BY <3>2 DEF Plain!SetNext
    <2>2. CASE child = NoLayer /\ base' = NoLayer /\ UNCHANGED <<child, db>>
      <3>1. Plain!ForgetBase
        BY <2>2 DEF Plain!ForgetBase, SetOf
      <3> QED
        BY <3>1 DEF Plain!SetNext
    <2> QED
      BY <1>9, <2>1, <2>2 DEF DropTop
  <1>10. CASE UNCHANGED vars
    BY <1>10 DEF vars, Plain!setVars, SetOf, BaseView, ChildView
  <1> QED
    BY <1>1, <1>2, <1>3, <1>4, <1>5, <1>6, <1>7, <1>8, <1>9, <1>10
       DEF Next, ConnectTransaction, ConnectBlockReward, DisconnectTransaction, DisconnectBlockReward

\* The stacked caches implement plain maps, for any transactions and outpoints
\* (UtxosView::utxo, batch_write of UtxosCache and of UtxosDB).
THEOREM CachesImplementMaps == Spec => ImplementsUtxoSet
  <1>1. Init => Plain!SetInit
    BY SameGenesis DEF Init, Plain!SetInit, SetOf
  <1>2. CacheInv /\ [Next]_vars => [Plain!SetNext]_(Plain!setVars)
    BY StepMaps
  <1> QED
    BY <1>1, <1>2, CacheInvariant, PTL DEF Spec, ImplementsUtxoSet, Plain!SetSpec

-----------------------------------------------------------------------------
(***************************************************************************)
(* Tokens and orders                                                       *)
(***************************************************************************)

\* Every set of numbers has a least element.
LEMMA LeastNumber ==
  ASSUME NEW S, S \subseteq Nat, S # {}
  PROVE  \E m \in S : \A n \in S : m <= n
  <1> DEFINE R == OpToRel(<, Nat)
  <1>1. IsWellFoundedOn(R, Nat)
    BY NatLessThanWellFounded
  <1>2. \A x, y \in Nat : x < y => <<x, y>> \in R
    BY DEF OpToRel
  <1> HIDE DEF R
  <1>3. PICK m \in S : \A n \in S : ~(<<n, m>> \in R)
    BY <1>1, WFMin
  <1>4. \A n \in S : ~(n < m)
    BY <1>2, <1>3, Zenon
  <1>5. m \in Nat /\ S \subseteq Nat
    OBVIOUS
  <1> QED BY <1>4, <1>5

----------------------------------------------------------------------------
(* Sums. *)

\* One step of the sum of f over s, when it has the sums of smaller sets.
SumStep(f, it, s) ==
  IF s = {} THEN 0 ELSE LET x == CHOOSE y \in s : TRUE IN f[x] + it[s \ {x}]

\* it is the function that SumFunction computes.
IsSum(f, S, it) == it = [s \in SUBSET S |-> SumStep(f, it, s)]

\* Subsets of S with at most n elements.
UpTo(S, n) == {s \in SUBSET S : Cardinality(s) <= n}
IsSumUpTo(f, S, n, it) == it = [s \in UpTo(S, n) |-> SumStep(f, it, s)]

\* The sums of smaller sets are used only.
LEMMA SmallerSet ==
  ASSUME NEW S, IsFiniteSet(S), NEW s \in SUBSET S, s # {}
  PROVE  LET x == CHOOSE y \in s : TRUE
         IN  /\ x \in s /\ s \ {x} \in SUBSET S
             /\ Cardinality(s) \in Nat \ {0}
             /\ Cardinality(s \ {x}) = Cardinality(s) - 1
  <1> DEFINE x == CHOOSE y \in s : TRUE
  <1>1. x \in s
    OBVIOUS
  <1> HIDE DEF x
  <1>2. IsFiniteSet(s)
    BY FS_Subset
  <1>3. Cardinality(s) \in Nat /\ Cardinality(s) # 0
    BY <1>2, FS_EmptySet, FS_CardinalityType
  <1>4. Cardinality(s \ {x}) = Cardinality(s) - 1
    BY <1>1, <1>2, FS_RemoveElement
  <1> QED BY <1>1, <1>3, <1>4 DEF x

\* There is such a function for the sets of at most N elements.
LEMMA SumsExist ==
  ASSUME NEW S, IsFiniteSet(S), NEW f, NEW N \in Nat
  PROVE  \E it : IsSumUpTo(f, S, N, it)
  <1> DEFINE Good(n, it) == IsSumUpTo(f, S, n, it)
             T == {n \in Nat : ~(\E it : Good(n, it))}
  <1> SUFFICES ASSUME N \in T PROVE FALSE
    OBVIOUS
  <1>1. PICK m \in T : \A n \in T : m <= n
    <2>1. T \subseteq Nat /\ T # {}
      OBVIOUS
    <2> HIDE DEF T
    <2> QED BY <2>1, LeastNumber
  <1>2. ASSUME NEW s \in SUBSET S
        PROVE  Cardinality(s) \in Nat /\ (Cardinality(s) = 0 <=> s = {})
    BY FS_Subset, FS_EmptySet, FS_CardinalityType
  <1>3. CASE m = 0
    <2> DEFINE it == [s \in UpTo(S, 0) |-> 0]
    <2>1. \A s \in UpTo(S, 0) : s = {}
      BY <1>2 DEF UpTo
    <2>2. \A s \in UpTo(S, 0) : SumStep(f, it, s) = 0
      BY <2>1 DEF SumStep
    <2>3. Good(0, it)
      BY <2>2 DEF IsSumUpTo
    <2> QED BY <1>3, <2>3
  <1>4. CASE m # 0
    <2>1. m \in Nat /\ m - 1 \in Nat /\ ~(m <= m - 1)
      BY <1>4
    <2>2. PICK g : Good(m - 1, g)
      BY <1>1, <2>1
    <2> DEFINE it == [s \in UpTo(S, m) |-> SumStep(f, g, s)]
    <2>3. ASSUME NEW s \in UpTo(S, m - 1)
          PROVE  s \in UpTo(S, m) /\ g[s] = it[s]
      <3>1. s \in UpTo(S, m)
        BY <1>2, <2>1 DEF UpTo
      <3>2. g[s] = SumStep(f, g, s)
        BY <2>2 DEF IsSumUpTo
      <3> QED BY <3>1, <3>2
    <2>4. ASSUME NEW s \in UpTo(S, m)
          PROVE  SumStep(f, g, s) = SumStep(f, it, s)
      <3>1. CASE s = {}
        BY <3>1 DEF SumStep
      <3>2. CASE s # {}
        <4> DEFINE x == CHOOSE y \in s : TRUE
        <4>1. s \in SUBSET S /\ Cardinality(s) <= m
          BY DEF UpTo
        <4>2. s \ {x} \in SUBSET S /\ Cardinality(s \ {x}) = Cardinality(s) - 1 /\ Cardinality(s) \in Nat
          BY <3>2, <4>1, SmallerSet
        <4>3. s \ {x} \in UpTo(S, m - 1)
          BY <2>1, <4>1, <4>2 DEF UpTo
        <4>4. g[s \ {x}] = it[s \ {x}]
          BY <2>3, <4>3
        <4> QED BY <4>4 DEF SumStep
      <3> QED BY <3>1, <3>2
    <2>5. Good(m, it)
      BY <2>4 DEF IsSumUpTo
    <2> QED BY <2>5
  <1> QED BY <1>3, <1>4

\* The function exists, so SumFunction computes it.
LEMMA SumIs ==
  ASSUME NEW f, IsFiniteSet(DOMAIN f)
  PROVE  \E it : /\ SumFunction(f) = it[DOMAIN f]
                 /\ \A s \in SUBSET (DOMAIN f) : it[s] = SumStep(f, it, s)
  <1> DEFINE S == DOMAIN f
             it == CHOOSE i : IsSum(f, S, i)
  <1>1. SumFunction(f) = it[S]
    BY DEF SumFunction, SumFunctionOnSet, FoldFunctionOnSet, MapThenFoldSet, IsSum, SumStep
  <1>2. Cardinality(S) \in Nat
    BY FS_CardinalityType
  <1>3. UpTo(S, Cardinality(S)) = SUBSET S
    BY FS_Subset DEF UpTo
  <1>4. \E i : IsSumUpTo(f, S, Cardinality(S), i)
    BY <1>2, SumsExist
  <1>5. \E i : IsSum(f, S, i)
    BY <1>3, <1>4 DEF IsSum, IsSumUpTo
  <1>6. IsSum(f, S, it)
    BY <1>5
  <1> HIDE DEF it
  <1>7. \A s \in SUBSET S : it[s] = SumStep(f, it, s)
    BY <1>6 DEF IsSum
  <1> QED BY <1>1, <1>7

\* When one value changes the sum changes by as much, and a sum is an integer.
LEMMA SumChanges ==
  ASSUME NEW S, IsFiniteSet(S), NEW f \in [S -> Int], NEW g \in [S -> Int], NEW o \in S,
         \A x \in S \ {o} : g[x] = f[x]
  PROVE  SumFunction(f) \in Int /\ SumFunction(g) = SumFunction(f) + (g[o] - f[o])
  <1>1. PICK F : /\ SumFunction(f) = F[S]
                 /\ \A s \in SUBSET S : F[s] = SumStep(f, F, s)
    BY SumIs
  <1>2. PICK G : /\ SumFunction(g) = G[S]
                 /\ \A s \in SUBSET S : G[s] = SumStep(g, G, s)
    <2>1. DOMAIN g = S
      OBVIOUS
    <2> QED BY <2>1, SumIs
  <1> DEFINE Good(s) == F[s] \in Int /\ G[s] = F[s] + (IF o \in s THEN g[o] - f[o] ELSE 0)
             T == {n \in Nat : \E s \in SUBSET S : Cardinality(s) = n /\ ~Good(s)}
  <1>3. T = {}
    <2> SUFFICES ASSUME T # {} PROVE FALSE
      OBVIOUS
    <2>1. PICK m \in T : \A n \in T : m <= n
      <3>1. T \subseteq Nat
        OBVIOUS
      <3> HIDE DEF T
      <3> QED BY <3>1, LeastNumber
    <2>2. PICK s \in SUBSET S : Cardinality(s) = m /\ ~Good(s)
      BY <2>1
    <2>3. CASE s = {}
      <3>1. F[s] = 0 /\ G[s] = 0
        BY <1>1, <1>2, <2>3 DEF SumStep
      <3> QED BY <2>2, <2>3, <3>1
    <2>4. CASE s # {}
      <3> DEFINE x == CHOOSE y \in s : TRUE
                 r == s \ {x}
      <3>1. x \in s /\ r \in SUBSET S /\ Cardinality(r) = m - 1 /\ m \in Nat \ {0}
        BY <2>2, <2>4, SmallerSet
      <3>2. F[s] = f[x] + F[r] /\ G[s] = g[x] + G[r]
        BY <1>1, <1>2, <2>4 DEF SumStep
      <3> HIDE DEF x, r
      <3>3. Good(r)
        <4>1. m - 1 \in Nat /\ m - 1 \notin T
          BY <2>1, <3>1
        <4> QED BY <3>1, <4>1
      <3>4. r = s \ {x}
        BY DEF r
      <3>5. f[x] \in Int /\ g[x] \in Int /\ f[o] \in Int /\ g[o] \in Int
        BY <3>1
      <3>6. CASE x = o
        <4>1. o \in s /\ o \notin r
          BY <3>1, <3>4, <3>6
        <4> QED BY <2>2, <3>2, <3>3, <3>5, <3>6, <4>1
      <3>7. CASE x # o
        <4>1. g[x] = f[x] /\ (o \in s <=> o \in r)
          BY <3>1, <3>4, <3>7
        <4> QED BY <2>2, <3>2, <3>3, <3>5, <4>1
      <3> QED BY <3>6, <3>7
    <2> QED BY <2>3, <2>4
  <1>4. Good(S)
    <2>1. Cardinality(S) \in Nat
      BY FS_CardinalityType
    <2> QED BY <1>3, <2>1
  <1> QED BY <1>1, <1>2, <1>4

\* A sum of nothing but zeros is zero.
LEMMA SumOfZeros ==
  ASSUME NEW S, IsFiniteSet(S), NEW f, DOMAIN f = S, \A x \in S : f[x] = 0
  PROVE  SumFunction(f) = 0
  <1>1. PICK F : /\ SumFunction(f) = F[S]
                 /\ \A s \in SUBSET S : F[s] = SumStep(f, F, s)
    BY SumIs
  <1> DEFINE T == {n \in Nat : \E s \in SUBSET S : Cardinality(s) = n /\ F[s] # 0}
  <1>2. T = {}
    <2> SUFFICES ASSUME T # {} PROVE FALSE
      OBVIOUS
    <2>1. PICK m \in T : \A n \in T : m <= n
      <3>1. T \subseteq Nat
        OBVIOUS
      <3> HIDE DEF T
      <3> QED BY <3>1, LeastNumber
    <2>2. PICK s \in SUBSET S : Cardinality(s) = m /\ F[s] # 0
      BY <2>1
    <2>3. CASE s = {}
      BY <1>1, <2>2, <2>3 DEF SumStep
    <2>4. CASE s # {}
      <3> DEFINE x == CHOOSE y \in s : TRUE
                 r == s \ {x}
      <3>1. x \in s /\ r \in SUBSET S /\ Cardinality(r) = m - 1 /\ m \in Nat \ {0}
        BY <2>2, <2>4, SmallerSet
      <3>2. F[s] = f[x] + F[r]
        BY <1>1, <2>4 DEF SumStep
      <3> HIDE DEF x, r
      <3>3. m - 1 \in Nat /\ m - 1 \notin T
        BY <2>1, <3>1
      <3>4. F[r] = 0 /\ f[x] = 0
        BY <3>1, <3>3
      <3> QED BY <2>2, <3>2, <3>4
    <2> QED BY <2>3, <2>4
  <1>3. Cardinality(S) \in Nat
    BY FS_CardinalityType
  <1> QED BY <1>1, <1>2, <1>3
----------------------------------------------------------------------------
(* What a block is undone by. *)

\* One step of Disconnected, when it has the results for smaller sets of positions.
UndoStep(us, it, t) ==
  IF t = {} THEN NewVerifier ELSE LET i == Max(t) IN UndoOp(it[t \ {i}], us[i])

IsUndo(us, it) == it = [t \in SUBSET (DOMAIN us) |-> UndoStep(us, it, t)]
IsUndoUpTo(us, S, n, it) == it = [t \in UpTo(S, n) |-> UndoStep(us, it, t)]

\* The last position of a set of positions.
LEMMA LastPosition ==
  ASSUME NEW n \in Nat, NEW t \in SUBSET (1 .. n), t # {}
  PROVE  Max(t) \in t /\ \A j \in t : Max(t) >= j
  <1> DEFINE T == {n - i : i \in t}
  <1>1. T \subseteq Nat /\ T # {}
    <2>1. \A i \in t : n - i \in Nat
      OBVIOUS
    <2>2. PICK i \in t : TRUE
      OBVIOUS
    <2> QED BY <2>1, <2>2
  <1>2. PICK m \in T : \A k \in T : m <= k
    <2> HIDE DEF T
    <2> QED BY <1>1, LeastNumber
  <1>3. PICK x \in t : m = n - x
    BY <1>2
  <1>4. \A y \in t : x >= y
    <2> TAKE y \in t
    <2>1. n - y \in T
      OBVIOUS
    <2>2. n - x <= n - y
      BY <1>2, <1>3, <2>1
    <2> QED BY <2>2
  <1> QED BY <1>4 DEF Max

LEMMA SmallerPositions ==
  ASSUME NEW n \in Nat, NEW t \in SUBSET (1 .. n), t # {}
  PROVE  /\ t \ {Max(t)} \in SUBSET (1 .. n)
         /\ Cardinality(t) \in Nat \ {0}
         /\ Cardinality(t \ {Max(t)}) = Cardinality(t) - 1
  <1>1. Max(t) \in t
    BY LastPosition
  <1>2. IsFiniteSet(1 .. n)
    BY FS_Interval
  <1>3. IsFiniteSet(t)
    BY <1>2, FS_Subset
  <1>4. Cardinality(t) \in Nat /\ Cardinality(t) # 0
    BY <1>3, FS_EmptySet, FS_CardinalityType
  <1>5. Cardinality(t \ {Max(t)}) = Cardinality(t) - 1
    BY <1>1, <1>3, FS_RemoveElement
  <1> QED BY <1>4, <1>5

LEMMA UndosExist ==
  ASSUME NEW us, NEW n \in Nat, NEW N \in Nat
  PROVE  \E it : IsUndoUpTo(us, 1 .. n, N, it)
  <1> DEFINE S == 1 .. n
             T == {k \in Nat : ~(\E it : IsUndoUpTo(us, S, k, it))}
  <1> SUFFICES ASSUME N \in T PROVE FALSE
    OBVIOUS
  <1>1. PICK m \in T : \A k \in T : m <= k
    <2>1. T \subseteq Nat /\ T # {}
      OBVIOUS
    <2> HIDE DEF T
    <2> QED BY <2>1, LeastNumber
  <1>2. ASSUME NEW t \in SUBSET S
        PROVE  Cardinality(t) \in Nat /\ (Cardinality(t) = 0 <=> t = {})
    <2>1. IsFiniteSet(S)
      BY FS_Interval
    <2>2. IsFiniteSet(t)
      BY <2>1, FS_Subset
    <2> QED BY <2>2, FS_EmptySet, FS_CardinalityType
  <1>3. CASE m = 0
    <2> DEFINE it == [t \in UpTo(S, 0) |-> NewVerifier]
    <2>1. \A t \in UpTo(S, 0) : t = {}
      BY <1>2 DEF UpTo
    <2>2. \A t \in UpTo(S, 0) : UndoStep(us, it, t) = NewVerifier
      BY <2>1 DEF UndoStep
    <2>3. IsUndoUpTo(us, S, 0, it)
      BY <2>2 DEF IsUndoUpTo
    <2> QED BY <1>3, <2>3
  <1>4. CASE m # 0
    <2>1. m \in Nat /\ m - 1 \in Nat /\ ~(m <= m - 1)
      BY <1>4
    <2>2. PICK g : IsUndoUpTo(us, S, m - 1, g)
      BY <1>1, <2>1
    <2> DEFINE it == [t \in UpTo(S, m) |-> UndoStep(us, g, t)]
    <2>3. ASSUME NEW t \in UpTo(S, m - 1)
          PROVE  t \in UpTo(S, m) /\ g[t] = it[t]
      <3>1. t \in UpTo(S, m)
        BY <1>2, <2>1 DEF UpTo
      <3>2. g[t] = UndoStep(us, g, t)
        BY <2>2 DEF IsUndoUpTo
      <3> QED BY <3>1, <3>2
    <2>4. ASSUME NEW t \in UpTo(S, m)
          PROVE  UndoStep(us, g, t) = UndoStep(us, it, t)
      <3>1. CASE t = {}
        BY <3>1 DEF UndoStep
      <3>2. CASE t # {}
        <4>1. t \in SUBSET S /\ Cardinality(t) <= m
          BY DEF UpTo
        <4>2. /\ t \ {Max(t)} \in SUBSET S
              /\ Cardinality(t \ {Max(t)}) = Cardinality(t) - 1 /\ Cardinality(t) \in Nat
          BY <3>2, <4>1, SmallerPositions
        <4>3. t \ {Max(t)} \in UpTo(S, m - 1)
          BY <2>1, <4>1, <4>2 DEF UpTo
        <4>4. g[t \ {Max(t)}] = it[t \ {Max(t)}]
          BY <2>3, <4>3
        <4> QED BY <4>4 DEF UndoStep
      <3> QED BY <3>1, <3>2
    <2>5. IsUndoUpTo(us, S, m, it)
      BY <2>4 DEF IsUndoUpTo
    <2> QED BY <2>5
  <1> QED BY <1>3, <1>4

\* The verifiers after each of the undos.
LEMMA UndoOneByOne ==
  ASSUME NEW n \in Nat, NEW us, DOMAIN us = 1 .. n
  PROVE  \E h : /\ h[0] = NewVerifier
                /\ \A i \in 1 .. n : h[i] = UndoOp(h[i - 1], us[i])
                /\ FoldLeft(UndoOp, NewVerifier, us) = h[n]
  <1> DEFINE S == 1 .. n
             it == CHOOSE f : IsUndo(us, f)
             h == [i \in 0 .. n |-> it[1 .. i]]
  <1>1. FoldLeft(UndoOp, NewVerifier, us) = it[S]
    BY DEF FoldLeft, MapThenFoldSet, IsUndo, UndoStep
  <1>2. Cardinality(S) \in Nat /\ UpTo(S, Cardinality(S)) = SUBSET S
    <2>1. IsFiniteSet(S)
      BY FS_Interval
    <2>2. Cardinality(S) \in Nat
      BY <2>1, FS_CardinalityType
    <2> HIDE DEF S
    <2> QED BY <2>1, <2>2, FS_Subset DEF UpTo
  <1>3. \E f : IsUndoUpTo(us, S, Cardinality(S), f)
    BY <1>2, UndosExist
  <1>4. \E f : IsUndo(us, f)
    BY <1>2, <1>3 DEF IsUndo, IsUndoUpTo
  <1>5. IsUndo(us, it)
    BY <1>4
  <1> HIDE DEF it
  <1>6. \A t \in SUBSET S : it[t] = UndoStep(us, it, t)
    BY <1>5 DEF IsUndo
  <1>7. h[0] = NewVerifier
    <2>1. 1 .. 0 = {}
      OBVIOUS
    <2>2. it[{}] = NewVerifier
      BY <1>6 DEF UndoStep
    <2> QED BY <2>1, <2>2
  <1>8. ASSUME NEW i \in 1 .. n
        PROVE  h[i] = UndoOp(h[i - 1], us[i])
    <2>1. (1 .. i) \in SUBSET S /\ 1 .. i # {}
      OBVIOUS
    <2>2. Max(1 .. i) = i
      <3>1. Max(1 .. i) \in 1 .. i /\ \A j \in 1 .. i : Max(1 .. i) >= j
        BY <2>1, LastPosition
      <3>2. i \in 1 .. i
        OBVIOUS
      <3>3. Max(1 .. i) >= i
        BY <3>1, <3>2
      <3> QED BY <3>1, <3>3
    <2>3. (1 .. i) \ {i} = 1 .. (i - 1)
      OBVIOUS
    <2>4. it[1 .. i] = UndoOp(it[1 .. (i - 1)], us[i])
      BY <1>6, <2>1, <2>2, <2>3 DEF UndoStep
    <2> QED BY <2>4
  <1>9. FoldLeft(UndoOp, NewVerifier, us) = h[n]
    BY <1>1
  <1> HIDE DEF h
  <1> QED BY <1>7, <1>8, <1>9
----------------------------------------------------------------------------
(* Deltas. *)

DataValues == {NoData} \cup TokenType \cup OrderType
DataDeltas == UNION {[K -> [old : DataValues, new : DataValues]] : K \in SUBSET DataKeys}
DeltaSet == [data : DataDeltas, amounts : [AmountKeys -> Int]]
StateSet == [data : [DataKeys -> DataValues], amounts : [AmountKeys -> Int]]

\* The delta starts from the data of the state.
Matches(st, d) == \A k \in DOMAIN d.data : st.data[k] = d.data[k].old

\* What a collection of data deltas is.
LEMMA DataDeltaIs ==
  /\ \A c \in DataDeltas : /\ DOMAIN c \in SUBSET DataKeys
                           /\ c \in [DOMAIN c -> [old : DataValues, new : DataValues]]
  /\ \A K \in SUBSET DataKeys : \A c \in [K -> [old : DataValues, new : DataValues]] :
       c \in DataDeltas
  BY DEF DataDeltas

\* Applying a delta to a state leaves a state.
LEMMA ApplyType ==
  ASSUME NEW st \in StateSet, NEW d \in DeltaSet
  PROVE  /\ Apply(st, d) \in StateSet
         /\ \A k \in DataKeys : Apply(st, d).data[k] =
               IF k \in DOMAIN d.data THEN d.data[k].new ELSE st.data[k]
         /\ \A k \in AmountKeys : Apply(st, d).amounts[k] = st.amounts[k] + d.amounts[k]
  <1> DEFINE D == DOMAIN d.data
             data == [k \in DataKeys |-> IF k \in D THEN d.data[k].new ELSE st.data[k]]
             am == [k \in AmountKeys |-> st.amounts[k] + d.amounts[k]]
  <1>1. d.data \in DataDeltas /\ d.amounts \in [AmountKeys -> Int]
    BY DEF DeltaSet
  <1>2. D \in SUBSET DataKeys /\ d.data \in [D -> [old : DataValues, new : DataValues]]
    BY <1>1, DataDeltaIs
  <1>3. /\ st.data \in [DataKeys -> DataValues] /\ st.amounts \in [AmountKeys -> Int]
        /\ DOMAIN st.data = DataKeys /\ DOMAIN st.amounts = AmountKeys
    BY DEF StateSet
  <1>4. Apply(st, d) = [data |-> data, amounts |-> am]
    BY <1>3 DEF Apply, MergeAmounts
  <1> HIDE DEF D
  <1>5. data \in [DataKeys -> DataValues]
    <2>1. \A k \in DataKeys : (IF k \in D THEN d.data[k].new ELSE st.data[k]) \in DataValues
      BY <1>2, <1>3
    <2> QED BY <2>1
  <1>6. am \in [AmountKeys -> Int]
    BY <1>1, <1>3
  <1>7. Apply(st, d).data = data /\ Apply(st, d).amounts = am
    BY <1>4
  <1>8. Apply(st, d) \in StateSet
    BY <1>4, <1>5, <1>6 DEF StateSet
  <1> QED BY <1>7, <1>8 DEF D

\* Two states with the same data and amounts are the same.
LEMMA SameState ==
  ASSUME NEW s \in StateSet, NEW t \in StateSet,
         \A k \in DataKeys : s.data[k] = t.data[k],
         \A k \in AmountKeys : s.amounts[k] = t.amounts[k]
  PROVE  s = t
  <1>1. /\ s.data \in [DataKeys -> DataValues] /\ t.data \in [DataKeys -> DataValues]
        /\ s.amounts \in [AmountKeys -> Int] /\ t.amounts \in [AmountKeys -> Int]
        /\ s = [data |-> s.data, amounts |-> s.amounts]
        /\ t = [data |-> t.data, amounts |-> t.amounts]
    BY DEF StateSet
  <1>2. s.data = t.data
    BY <1>1
  <1>3. s.amounts = t.amounts
    BY <1>1
  <1> QED BY <1>1, <1>2, <1>3

\* A delta that starts where another one ends can be merged into it, which is the same as
\* applying one after the other.
LEMMA MergeIsApplyBoth ==
  ASSUME NEW st \in StateSet, NEW d \in DeltaSet, NEW c \in DeltaSet,
         Matches(st, d), Matches(Apply(st, d), c)
  PROVE  /\ Merge(d, c) \in DeltaSet
         /\ Mergeable(d, c)
         /\ Matches(st, Merge(d, c))
         /\ Apply(st, Merge(d, c)) = Apply(Apply(st, d), c)
  <1> DEFINE V == [old : DataValues, new : DataValues]
             D == DOMAIN d.data
             C == DOMAIN c.data
             m == Merge(d, c)
             at(k) == IF k \notin C THEN d.data[k]
                      ELSE IF k \notin D THEN c.data[k]
                      ELSE [old |-> d.data[k].old, new |-> c.data[k].new]
  <1>1. /\ d.data \in DataDeltas /\ d.amounts \in [AmountKeys -> Int]
        /\ c.data \in DataDeltas /\ c.amounts \in [AmountKeys -> Int]
    BY DEF DeltaSet
  <1>2. /\ D \in SUBSET DataKeys /\ d.data \in [D -> V]
        /\ C \in SUBSET DataKeys /\ c.data \in [C -> V]
    BY <1>1, DataDeltaIs
  <1>3. m = [data |-> [k \in D \cup C |-> at(k)],
             amounts |-> [k \in AmountKeys |-> d.amounts[k] + c.amounts[k]]]
    BY <1>1 DEF Merge, MergeData, MergeAmounts, CombineDeltaData, DataDelta
  <1>4. /\ DOMAIN m.data = D \cup C /\ \A k \in D \cup C : m.data[k] = at(k)
        /\ m.data = [k \in D \cup C |-> at(k)]
        /\ \A k \in AmountKeys : m.amounts[k] = d.amounts[k] + c.amounts[k]
    BY <1>3
  <1>5. m \in DeltaSet
    <2>1. \A k \in D \cup C : at(k) \in V
      BY <1>2
    <2>2. [k \in D \cup C |-> at(k)] \in [D \cup C -> V] /\ D \cup C \in SUBSET DataKeys
      BY <1>2, <2>1
    <2>3. [k \in D \cup C |-> at(k)] \in DataDeltas
      BY <2>2, DataDeltaIs
    <2>4. [k \in AmountKeys |-> d.amounts[k] + c.amounts[k]] \in [AmountKeys -> Int]
      BY <1>1
    <2> HIDE DEF at, m
    <2> QED BY <1>3, <2>3, <2>4 DEF DeltaSet
  <1>6. ASSUME NEW k \in C
        PROVE  c.data[k].old = IF k \in D THEN d.data[k].new ELSE st.data[k]
    <2>1. k \in DataKeys
      BY <1>2
    <2>2. Apply(st, d).data[k] = IF k \in D THEN d.data[k].new ELSE st.data[k]
      BY <2>1, ApplyType
    <2> QED BY <2>2 DEF Matches
  <1>7. Mergeable(d, c)
    BY <1>6 DEF Mergeable, Combinable
  <1> HIDE DEF m
  <1>8. Matches(st, m)
    <2> SUFFICES ASSUME NEW k \in D \cup C
                 PROVE  st.data[k] = at(k).old
      BY <1>4 DEF Matches
    <2>1. k \in D => st.data[k] = d.data[k].old
      BY DEF Matches
    <2>2. CASE k \notin C
      BY <2>1, <2>2
    <2>3. CASE k \in C
      BY <1>6, <2>1, <2>3
    <2> QED BY <2>2, <2>3
  <1>9. Apply(st, m) = Apply(Apply(st, d), c)
    <2> DEFINE s == Apply(st, m)
               u == Apply(st, d)
               t == Apply(u, c)
    <2>1. u \in StateSet
      BY ApplyType
    <2>2. s \in StateSet /\ t \in StateSet
      BY <1>5, <2>1, ApplyType
    <2>3. ASSUME NEW k \in DataKeys
          PROVE  s.data[k] = t.data[k]
      <3>1. s.data[k] = IF k \in D \cup C THEN at(k).new ELSE st.data[k]
        BY <1>4, <1>5, ApplyType
      <3>2. u.data[k] = IF k \in D THEN d.data[k].new ELSE st.data[k]
        BY ApplyType
      <3>3. t.data[k] = IF k \in C THEN c.data[k].new ELSE u.data[k]
        BY <2>1, ApplyType
      <3> HIDE DEF s, u, t
      <3> QED BY <3>1, <3>2, <3>3
    <2>4. ASSUME NEW k \in AmountKeys
          PROVE  s.amounts[k] = t.amounts[k]
      <3>1. s.amounts[k] = st.amounts[k] + (d.amounts[k] + c.amounts[k])
        BY <1>4, <1>5, ApplyType
      <3>2. u.amounts[k] = st.amounts[k] + d.amounts[k]
        BY ApplyType
      <3>3. t.amounts[k] = u.amounts[k] + c.amounts[k]
        BY <2>1, ApplyType
      <3>4. st.amounts[k] \in Int /\ d.amounts[k] \in Int /\ c.amounts[k] \in Int
        BY <1>1 DEF StateSet
      <3> HIDE DEF s, u, t
      <3> QED BY <3>1, <3>2, <3>3, <3>4
    <2> HIDE DEF s, t
    <2>5. s = t
      BY <2>2, <2>3, <2>4, SameState
    <2> QED BY <2>5 DEF s, t
  <1> QED BY <1>5, <1>7, <1>8, <1>9 DEF m

\* The inverse of a delta takes a state back.
LEMMA InverseTakesBack ==
  ASSUME NEW st \in StateSet, NEW c \in DeltaSet, Matches(st, c)
  PROVE  /\ InvertAll(c) \in DeltaSet
         /\ Matches(Apply(st, c), InvertAll(c))
         /\ Apply(Apply(st, c), InvertAll(c)) = st
  <1> DEFINE V == [old : DataValues, new : DataValues]
             C == DOMAIN c.data
             m == InvertAll(c)
             u == Apply(st, c)
  <1>1. c.data \in DataDeltas /\ c.amounts \in [AmountKeys -> Int]
    BY DEF DeltaSet
  <1>2. C \in SUBSET DataKeys /\ c.data \in [C -> V]
    BY <1>1, DataDeltaIs
  <1>3. m = [data |-> [k \in C |-> [old |-> c.data[k].new, new |-> c.data[k].old]],
             amounts |-> [k \in AmountKeys |-> -c.amounts[k]]]
    BY <1>1 DEF InvertAll, Invert, DataDelta
  <1>4. /\ DOMAIN m.data = C
        /\ \A k \in C : m.data[k].old = c.data[k].new /\ m.data[k].new = c.data[k].old
        /\ \A k \in AmountKeys : m.amounts[k] = -c.amounts[k]
    BY <1>3
  <1>5. m \in DeltaSet
    <2>1. [k \in C |-> [old |-> c.data[k].new, new |-> c.data[k].old]] \in [C -> V]
      BY <1>2
    <2>2. [k \in C |-> [old |-> c.data[k].new, new |-> c.data[k].old]] \in DataDeltas
      BY <1>2, <2>1, DataDeltaIs
    <2>3. [k \in AmountKeys |-> -c.amounts[k]] \in [AmountKeys -> Int]
      BY <1>1
    <2> HIDE DEF m
    <2> QED BY <1>3, <2>2, <2>3 DEF DeltaSet
  <1>6. u \in StateSet
    BY ApplyType
  <1> HIDE DEF m
  <1>7. Matches(u, m)
    <2> SUFFICES ASSUME NEW k \in C
                 PROVE  u.data[k] = c.data[k].new
      BY <1>4 DEF Matches
    <2>1. k \in DataKeys
      BY <1>2
    <2> QED BY <2>1, ApplyType
  <1>8. Apply(u, m) = st
    <2> DEFINE t == Apply(u, m)
    <2>1. t \in StateSet
      BY <1>5, <1>6, ApplyType
    <2>2. ASSUME NEW k \in DataKeys
          PROVE  t.data[k] = st.data[k]
      <3>1. u.data[k] = IF k \in C THEN c.data[k].new ELSE st.data[k]
        BY ApplyType
      <3>2. t.data[k] = IF k \in C THEN m.data[k].new ELSE u.data[k]
        BY <1>4, <1>5, <1>6, ApplyType
      <3>3. k \in C => c.data[k].old = st.data[k]
        BY DEF Matches
      <3> HIDE DEF t, u
      <3> QED BY <1>4, <3>1, <3>2, <3>3
    <2>3. ASSUME NEW k \in AmountKeys
          PROVE  t.amounts[k] = st.amounts[k]
      <3>1. u.amounts[k] = st.amounts[k] + c.amounts[k]
        BY ApplyType
      <3>2. t.amounts[k] = u.amounts[k] + m.amounts[k]
        BY <1>5, <1>6, ApplyType
      <3>3. st.amounts[k] \in Int /\ c.amounts[k] \in Int
        BY <1>1 DEF StateSet
      <3> HIDE DEF t, u
      <3> QED BY <1>4, <3>1, <3>2, <3>3
    <2> HIDE DEF t
    <2>4. t = st
      BY <2>1, <2>2, <2>3, SameState
    <2> QED BY <2>4 DEF t
  <1> QED BY <1>5, <1>7, <1>8 DEF m, u
----------------------------------------------------------------------------
(* States, and the operations between them. *)

TokenOps == {"IssueToken", "MintTokens", "UnmintTokens", "LockSupply", "FreezeToken",
             "UnfreezeToken", "ChangeToken"}
OrderOps == {"CreateOrder", "FillOrder", "ConcludeOrder", "FreezeOrder"}

UndoSet == [op : TokenOps \cup OrderOps, id : DataKeys, change : DeltaSet]
VerifierSet == [delta : DeltaSet, undos : Seq(UndoSet), failed : BOOLEAN]

\* What the undo of an operation expects of the state that the operation left.
AllowedIn(st, u) ==
  LET data == st.data[u.id]
  IN /\ u.op = "CreateOrder" => /\ data # NoData
                                /\ st.amounts[<<"ask", u.id>>] = data.ask
                                /\ st.amounts[<<"give", u.id>>] = data.give
     /\ u.op = "ConcludeOrder" => /\ data = NoData
                                  /\ st.amounts[<<"ask", u.id>>] = 0
                                  /\ st.amounts[<<"give", u.id>>] = 0
     /\ u.op \notin {"ConcludeOrder", "FillOrder"} => data # NoData
     /\ u.op \in {"MintTokens", "UnmintTokens"} => ~data.locked
     /\ u.op = "LockSupply" => data.locked
     /\ u.op = "FreezeToken" => IsFrozen(data)
     /\ u.op \in {"UnfreezeToken", "ChangeToken"} => ~IsFrozen(data)

\* The operation that u undoes leads from s to t.
Step(s, u, t) ==
  /\ Matches(s, u.change) /\ t = Apply(s, u.change)
  /\ AllowedIn(t, u)

Locked(st, t) == st.data[t] # NoData /\ st.data[t].locked

\* A locked supply stays as it is.
LockedStays(s, t) ==
  \A k \in Tokens : Locked(s, k) => /\ Locked(t, k)
                                    /\ t.amounts[<<"supply", k>>] = s.amounts[<<"supply", k>>]

\* The operations that us undoes lead from s to t, through the states w.
Through(s, us, t, w) ==
  /\ w[0] = s /\ w[Len(us)] = t
  /\ \A i \in 1 .. Len(us) : Step(w[i - 1], us[i], w[i])
  /\ \A i \in 0 .. Len(us) : w[i] \in StateSet

Linked(s, us, t) ==
  /\ us \in Seq(UndoSet)
  /\ \E w : Through(s, us, t, w)
  /\ LockedStays(s, t)

\* v reads the state st, and can be flushed.
Reads(v, st) ==
  /\ v.delta \in DeltaSet /\ ~v.failed
  /\ Matches(accounts, v.delta)
  /\ View(v) = st

\* An undo of the last operation takes the verifier back.
LEMMA UndoTakesBack ==
  ASSUME NEW s \in StateSet, NEW t, NEW u \in UndoSet, Step(s, u, t),
         NEW v, accounts \in StateSet, Reads(v, t),
         v = [delta |-> v.delta, undos |-> v.undos, failed |-> v.failed]
  PROVE  /\ Reads(UndoOp(v, u), s)
         /\ UndoOp(v, u).undos = v.undos
         /\ UndoOp(v, u) = [delta |-> UndoOp(v, u).delta, undos |-> UndoOp(v, u).undos,
                            failed |-> UndoOp(v, u).failed]
  <1> DEFINE c == InvertAll(u.change)
             d == Merge(v.delta, c)
  <1>1. u.change \in DeltaSet /\ Matches(s, u.change) /\ t = Apply(s, u.change) /\ AllowedIn(t, u)
    BY DEF Step, UndoSet
  <1>2. c \in DeltaSet /\ Matches(t, c) /\ Apply(t, c) = s
    BY <1>1, InverseTakesBack
  <1>3. v.delta \in DeltaSet /\ Matches(accounts, v.delta) /\ Apply(accounts, v.delta) = t /\ ~v.failed
    BY DEF Reads, View
  <1> HIDE DEF c
  <1>4. d \in DeltaSet /\ Mergeable(v.delta, c) /\ Matches(accounts, d) /\ Apply(accounts, d) = s
    BY <1>2, <1>3, MergeIsApplyBoth
  <1>5. UndoAllowed(v, u)
    <2>1. View(v) = t
      BY <1>3 DEF View
    <2>2. u.op \in TokenOps \cup OrderOps
      BY DEF UndoSet
    <2>3. CASE u.op = "CreateOrder"
      BY <1>1, <2>1, <2>3 DEF UndoAllowed, AllowedIn, GetData, GetAmount
    <2>4. CASE u.op = "ConcludeOrder"
      BY <1>1, <2>1, <2>4 DEF UndoAllowed, AllowedIn, GetData, GetAmount
    <2>5. CASE u.op = "FillOrder"
      BY <2>5 DEF UndoAllowed
    <2>6. CASE u.op \in {"IssueToken", "FreezeOrder"}
      BY <1>1, <2>1, <2>6 DEF UndoAllowed, AllowedIn, GetData
    <2>7. CASE u.op \in {"MintTokens", "UnmintTokens"}
      BY <1>1, <2>1, <2>7 DEF UndoAllowed, AllowedIn, GetData
    <2>8. CASE u.op = "LockSupply"
      BY <1>1, <2>1, <2>8 DEF UndoAllowed, AllowedIn, GetData
    <2>9. CASE u.op = "FreezeToken"
      BY <1>1, <2>1, <2>9 DEF UndoAllowed, AllowedIn, GetData
    <2>10. CASE u.op \in {"UnfreezeToken", "ChangeToken"}
      BY <1>1, <2>1, <2>10 DEF UndoAllowed, AllowedIn, GetData
    <2> QED BY <2>2, <2>3, <2>4, <2>5, <2>6, <2>7, <2>8, <2>9, <2>10 DEF TokenOps, OrderOps
  <1>6. UndoOp(v, u) = [v EXCEPT !.delta = d, !.failed = ~Mergeable(v.delta, c)]
    BY <1>3, <1>5 DEF UndoOp, c
  <1> HIDE DEF d
  <1>7. UndoOp(v, u) = [delta |-> d, undos |-> v.undos, failed |-> FALSE]
    BY <1>4, <1>6
  <1>8. View(UndoOp(v, u)) = s
    BY <1>4, <1>7 DEF View
  <1> QED BY <1>4, <1>7, <1>8 DEF Reads

\* A new verifier changes nothing, and reads the database.
LEMMA NewChanges ==
  ASSUME NEW st \in StateSet
  PROVE  /\ NewVerifier \in VerifierSet /\ NewVerifier.undos = <<>> /\ ~NewVerifier.failed
         /\ NewVerifier = [delta |-> NewVerifier.delta, undos |-> <<>>, failed |-> FALSE]
         /\ NewVerifier.delta \in DeltaSet
         /\ Matches(st, NewVerifier.delta) /\ Apply(st, NewVerifier.delta) = st
  <1> DEFINE z == NoChange(AmountKeys)
  <1>1. z = [data |-> [k \in {} |-> NoData], amounts |-> [k \in AmountKeys |-> 0]]
    BY DEF NoChange
  <1>2. [k \in {} |-> NoData] \in DataDeltas
    <2>1. [k \in {} |-> NoData] \in [{} -> [old : DataValues, new : DataValues]] /\ {} \in SUBSET DataKeys
      OBVIOUS
    <2> QED BY <2>1, DataDeltaIs
  <1>3. z \in DeltaSet /\ DOMAIN z.data = {} /\ \A k \in AmountKeys : z.amounts[k] = 0
    BY <1>1, <1>2 DEF DeltaSet
  <1> HIDE DEF z
  <1>4. Apply(st, z) = st
    <2>1. Apply(st, z) \in StateSet
      BY <1>3, ApplyType
    <2>2. \A k \in DataKeys : Apply(st, z).data[k] = st.data[k]
      BY <1>3, ApplyType
    <2>3. ASSUME NEW k \in AmountKeys
          PROVE  Apply(st, z).amounts[k] = st.amounts[k]
      <3>1. Apply(st, z).amounts[k] = st.amounts[k] + 0
        BY <1>3, ApplyType
      <3>2. st.amounts[k] \in Int
        BY DEF StateSet
      <3> QED BY <3>1, <3>2
    <2> QED BY <2>1, <2>2, <2>3, SameState
  <1>5. NewVerifier = [delta |-> z, undos |-> <<>>, failed |-> FALSE]
    BY DEF NewVerifier, z
  <1>6. NewVerifier \in VerifierSet
    <2>1. <<>> \in Seq(UndoSet)
      OBVIOUS
    <2> QED BY <1>3, <1>5, <2>1 DEF VerifierSet
  <1>7. Matches(st, z)
    BY <1>3 DEF Matches
  <1> QED BY <1>3, <1>4, <1>5, <1>6, <1>7

LEMMA NewReads ==
  ASSUME accounts \in StateSet
  PROVE  Reads(NewVerifier, accounts) /\ NewVerifier \in VerifierSet /\ NewVerifier.undos = <<>>
  BY NewChanges DEF Reads, View

\* A block is undone from its last operation to its first.
LEMMA BlockTakenBack ==
  ASSUME NEW s \in StateSet, NEW us, Linked(s, us, accounts), accounts \in StateSet
  PROVE  Reads(Disconnected(us), s)
  <1> DEFINE n == Len(us)
             rs == Reverse(us)
  <1>1. us \in Seq(UndoSet) /\ n \in Nat /\ DOMAIN us = 1 .. n
    BY DEF Linked
  <1>2. PICK w : Through(s, us, accounts, w)
    BY DEF Linked
  <1>3. rs = [i \in 1 .. n |-> us[(n - i) + 1]]
    BY DEF Reverse
  <1>4. DOMAIN rs = 1 .. n /\ \A i \in 1 .. n : rs[i] = us[(n - i) + 1]
    BY <1>3
  <1>5. Disconnected(us) = FoldLeft(UndoOp, NewVerifier, rs)
    BY DEF Disconnected, UndosOf
  <1> HIDE DEF rs
  <1>6. PICK h : /\ h[0] = NewVerifier
                 /\ \A i \in 1 .. n : h[i] = UndoOp(h[i - 1], rs[i])
                 /\ FoldLeft(UndoOp, NewVerifier, rs) = h[n]
    BY <1>1, <1>4, UndoOneByOne
  <1> DEFINE IsRecord(v) == v = [delta |-> v.delta, undos |-> v.undos, failed |-> v.failed]
             Good(i) == Reads(h[i], w[n - i]) /\ IsRecord(h[i])
             T == {i \in Nat : i <= n /\ ~Good(i)}
  <1>7. T = {}
    <2> SUFFICES ASSUME T # {} PROVE FALSE
      OBVIOUS
    <2>1. PICK m \in T : \A i \in T : m <= i
      <3>1. T \subseteq Nat
        OBVIOUS
      <3> HIDE DEF T
      <3> QED BY <3>1, LeastNumber
    <2>2. m \in Nat /\ m <= n /\ ~Good(m)
      BY <2>1
    <2>3. CASE m = 0
      <3>1. w[n - 0] = accounts
        BY <1>1, <1>2 DEF Through
      <3>2. Reads(h[0], accounts)
        BY <1>6, NewReads
      <3>3. IsRecord(h[0])
        BY <1>6 DEF NewVerifier
      <3> QED BY <2>2, <2>3, <3>1, <3>2, <3>3
    <2>4. CASE m # 0
      <3> DEFINE k == n - m
      <3>1. m - 1 \in Nat /\ m - 1 <= n /\ ~(m <= m - 1) /\ m \in 1 .. n
        BY <1>1, <2>2, <2>4
      <3>2. Good(m - 1)
        BY <2>1, <3>1
      <3>3. k \in 0 .. n /\ k + 1 \in 1 .. n /\ (k + 1) - 1 = k /\ n - (m - 1) = k + 1 /\ (n - m) + 1 = k + 1
        BY <1>1, <3>1
      <3> HIDE DEF k
      <3>4. Step(w[(k + 1) - 1], us[k + 1], w[k + 1]) /\ w[k] \in StateSet
        BY <1>2, <3>3 DEF Through
      <3>5. us[k + 1] \in UndoSet /\ rs[m] = us[k + 1]
        BY <1>1, <1>4, <3>1, <3>3
      <3>6. Reads(h[m - 1], w[k + 1]) /\ IsRecord(h[m - 1])
        BY <3>2, <3>3
      <3>7. h[m] = UndoOp(h[m - 1], us[k + 1])
        BY <1>6, <3>1, <3>5
      <3>8. Step(w[k], us[k + 1], w[k + 1])
        BY <3>3, <3>4
      <3>9. Reads(h[m], w[k]) /\ IsRecord(h[m])
        BY <3>4, <3>5, <3>6, <3>7, <3>8, UndoTakesBack
      <3> QED BY <2>2, <3>9 DEF k
    <2> QED BY <2>3, <2>4
  <1>8. Good(n)
    BY <1>1, <1>7
  <1>9. w[n - n] = s
    BY <1>1, <1>2 DEF Through
  <1> QED BY <1>5, <1>6, <1>8, <1>9
----------------------------------------------------------------------------
(* What the operations do to the amounts. *)

\* Balances of tokens, orders and currencies, and nonces.
LEMMA Keys ==
  /\ \A t \in Tokens : <<"supply", t>> \in AmountKeys /\ <<"held", t>> \in AmountKeys /\ t \in DataKeys
  /\ \A o \in OrderIds : <<"ask", o>> \in AmountKeys /\ <<"give", o>> \in AmountKeys /\ o \in DataKeys
  /\ \A c \in Currencies : <<"held", c>> \in AmountKeys
  /\ \A id \in DataKeys : <<"nonce", id>> \in AmountKeys
  BY DEF AmountKeys, DataKeys, Currencies

LEMMA AddOne ==
  ASSUME NEW kind, NEW id, NEW n \in Int
  PROVE  /\ To(kind, id, n) \in [AmountKeys -> Int]
         /\ \A k \in AmountKeys : To(kind, id, n)[k] = IF k = <<kind, id>> THEN n ELSE 0
  BY DEF To, AmountOf

LEMMA AddBoth ==
  ASSUME NEW a \in [AmountKeys -> Int], NEW b \in [AmountKeys -> Int]
  PROVE  /\ a ++ b \in [AmountKeys -> Int]
         /\ \A k \in AmountKeys : (a ++ b)[k] = a[k] + b[k]
  BY DEF ++, MergeAmounts

LEMMA AddNone ==
  /\ NoAmounts \in [AmountKeys -> Int]
  /\ \A k \in AmountKeys : NoAmounts[k] = 0
  BY DEF NoAmounts, NoChange
----------------------------------------------------------------------------
(* Good states. *)

\* What each order has of currency c, as in InOrders.
Has(st, c) ==
  [o \in OrderIds |->
     IF ~(st.data[o] # NoData) THEN 0
     ELSE (IF st.data[o].giveCurrency = c THEN st.amounts[<<"give", o>>] ELSE 0)
        + (IF st.data[o].askCurrency = c
           THEN st.data[o].ask - st.amounts[<<"ask", o>>] ELSE 0)]

Balanced(st) ==
  /\ \A t \in Tokens : st.amounts[<<"supply", t>>]
                         = st.amounts[<<"held", t>>] + SumFunction(Has(st, t))
  /\ st.amounts[<<"held", Coin>>] + SumFunction(Has(st, Coin)) = Coins

\* Only a lockable supply is locked.
GoodToken(st, t) ==
  /\ st.data[t] \in {NoData} \cup TokenType
  /\ Locked(st, t) => st.data[t].supply.kind = "Lockable"

\* An order that was made to give G for A and that now has give for ask is worth its price.
AtPrice(A, G, ask, give) == give * A >= G * ask

\* An order that is not there has no balances, one that is there is worth its price.
GoodOrder(st, o) ==
  LET data == st.data[o]
      ask == st.amounts[<<"ask", o>>]
      give == st.amounts[<<"give", o>>]
  IN /\ data \in {NoData} \cup OrderType
     /\ data = NoData => ask = 0 /\ give = 0
     /\ data # NoData => /\ data.askCurrency # data.giveCurrency
                         /\ AtPrice(data.ask, data.give, ask, give)

Good(st) ==
  /\ st \in StateSet
  /\ \A k \in AmountKeys : st.amounts[k] >= 0
  /\ \A t \in Tokens : GoodToken(st, t)
  /\ \A o \in OrderIds : GoodOrder(st, o)
  /\ Balanced(st)

Frozen(st, t) == st.data[t] # NoData /\ IsFrozen(st.data[t])

\* A frozen token is not minted, unminted, or moved into or out of an order.
FrozenStays(s, t) ==
  \A k \in Tokens : Frozen(s, k) =>
    /\ t.amounts[<<"supply", k>>] = s.amounts[<<"supply", k>>]
    /\ t.amounts[<<"held", k>>] = s.amounts[<<"held", k>>]

LEMMA SumType ==
  ASSUME NEW S, IsFiniteSet(S), NEW f \in [S -> Int]
  PROVE  SumFunction(f) \in Int
  <1>1. CASE S = {}
    <2>1. DOMAIN f = {} /\ IsFiniteSet(DOMAIN f)
      BY <1>1
    <2>2. PICK it : /\ SumFunction(f) = it[DOMAIN f]
                    /\ \A s \in SUBSET (DOMAIN f) : it[s] = SumStep(f, it, s)
      BY <2>1, SumIs
    <2>3. it[{}] = 0
      BY <2>2 DEF SumStep
    <2> QED BY <2>1, <2>2, <2>3
  <1>2. CASE S # {}
    <2>1. PICK o \in S : TRUE
      BY <1>2
    <2> QED BY <2>1, SumChanges
  <1> QED BY <1>1, <1>2

\* The fields of an order.
LEMMA OrderFields ==
  ASSUME NEW x \in OrderType
  PROVE  /\ x.ask \in Nat /\ x.ask > 0 /\ x.give \in Nat /\ x.give > 0 /\ x # NoData
         /\ x.askCurrency \in Currencies /\ x.giveCurrency \in Currencies
  <1>1. x.ask \in Nat \ {0} /\ x.give \in Nat \ {0}
    BY DEF OrderType
  <1>2. x.askCurrency \in Currencies /\ x.giveCurrency \in Currencies
    BY DEF OrderType
  <1>3. x # NoData
    BY TokensOrdersAssumption
  <1> QED BY <1>1, <1>2, <1>3

\* What an order has is a number.
LEMMA HasType ==
  ASSUME NEW st \in StateSet, \A o \in OrderIds : GoodOrder(st, o), NEW c
  PROVE  /\ Has(st, c) \in [OrderIds -> Int]
         /\ SumFunction(Has(st, c)) \in Int
  <1>1. ASSUME NEW o \in OrderIds
        PROVE  (IF ~(st.data[o] # NoData) THEN 0
                ELSE (IF st.data[o].giveCurrency = c THEN st.amounts[<<"give", o>>] ELSE 0)
                   + (IF st.data[o].askCurrency = c
                      THEN st.data[o].ask - st.amounts[<<"ask", o>>] ELSE 0)) \in Int
    <2>1. st.amounts[<<"give", o>>] \in Int /\ st.amounts[<<"ask", o>>] \in Int
      BY Keys DEF StateSet
    <2>2. st.data[o] # NoData => st.data[o].ask \in Int
      <3>1. GoodOrder(st, o)
        OBVIOUS
      <3>2. st.data[o] \in {NoData} \cup OrderType
        BY <3>1 DEF GoodOrder
      <3>3. st.data[o] # NoData => st.data[o] \in OrderType
        BY <3>2
      <3> QED BY <3>3, OrderFields
    <2> QED BY <2>1, <2>2
  <1>2. Has(st, c) \in [OrderIds -> Int]
    BY <1>1 DEF Has
  <1>3. IsFiniteSet(OrderIds)
    BY TokensOrdersAssumption
  <1> HIDE DEF Has
  <1> QED BY <1>2, <1>3, SumType

\* The amount of each balance is a number.
LEMMA AmountTypes ==
  ASSUME NEW st \in StateSet
  PROVE  /\ \A t \in Tokens : st.amounts[<<"supply", t>>] \in Int
         /\ \A c \in Currencies : st.amounts[<<"held", c>>] \in Int
         /\ \A o \in OrderIds : st.amounts[<<"ask", o>>] \in Int /\ st.amounts[<<"give", o>>] \in Int
  BY Keys DEF StateSet

\* The balance is kept when tokens are made for holders only ...
LEMMA TokensBalance ==
  ASSUME NEW st, Good(st), NEW new \in StateSet,
         \A o \in OrderIds : /\ new.data[o] = st.data[o]
                             /\ new.amounts[<<"ask", o>>] = st.amounts[<<"ask", o>>]
                             /\ new.amounts[<<"give", o>>] = st.amounts[<<"give", o>>],
         \A t \in Tokens : new.amounts[<<"supply", t>>] - st.amounts[<<"supply", t>>]
                             = new.amounts[<<"held", t>>] - st.amounts[<<"held", t>>],
         new.amounts[<<"held", Coin>>] = st.amounts[<<"held", Coin>>]
  PROVE  Balanced(new) /\ \A o \in OrderIds : GoodOrder(new, o)
  <1>1. \A c : Has(new, c) = Has(st, c)
    BY DEF Has
  <1>2. st \in StateSet /\ Balanced(st) /\ \A o \in OrderIds : GoodOrder(st, o)
    BY DEF Good
  <1>3. \A c : SumFunction(Has(st, c)) \in Int
    BY <1>2, HasType
  <1>4. ASSUME NEW t \in Tokens
        PROVE  new.amounts[<<"supply", t>>] = new.amounts[<<"held", t>>] + SumFunction(Has(new, t))
    <2>1. /\ st.amounts[<<"supply", t>>] \in Int /\ st.amounts[<<"held", t>>] \in Int
          /\ new.amounts[<<"supply", t>>] \in Int /\ new.amounts[<<"held", t>>] \in Int
      BY <1>2, AmountTypes DEF Currencies
    <2>2. st.amounts[<<"supply", t>>] = st.amounts[<<"held", t>>] + SumFunction(Has(st, t))
      BY <1>2 DEF Balanced
    <2>3. SumFunction(Has(new, t)) = SumFunction(Has(st, t)) /\ SumFunction(Has(st, t)) \in Int
      BY <1>1, <1>3
    <2> QED BY <2>1, <2>2, <2>3
  <1>5. new.amounts[<<"held", Coin>>] + SumFunction(Has(new, Coin)) = Coins
    BY <1>1, <1>2 DEF Balanced
  <1>6. Balanced(new)
    BY <1>4, <1>5 DEF Balanced
  <1>7. \A o \in OrderIds : GoodOrder(new, o)
    BY <1>2 DEF GoodOrder
  <1> QED BY <1>6, <1>7

\* ... or when what one order gets is what holders lose.
LEMMA OrderBalance ==
  ASSUME NEW st, Good(st), NEW new \in StateSet, NEW o \in OrderIds,
         \A b \in OrderIds \ {o} : /\ new.data[b] = st.data[b]
                                   /\ new.amounts[<<"ask", b>>] = st.amounts[<<"ask", b>>]
                                   /\ new.amounts[<<"give", b>>] = st.amounts[<<"give", b>>],
         \A t \in Tokens : new.amounts[<<"supply", t>>] = st.amounts[<<"supply", t>>],
         \A c \in Currencies : new.amounts[<<"held", c>>] - st.amounts[<<"held", c>>]
                                 = Has(st, c)[o] - Has(new, c)[o],
         GoodOrder(new, o)
  PROVE  Balanced(new) /\ \A b \in OrderIds : GoodOrder(new, b)
  <1>1. st \in StateSet /\ Balanced(st) /\ \A b \in OrderIds : GoodOrder(st, b)
    BY DEF Good
  <1>2. ASSUME NEW b \in OrderIds PROVE GoodOrder(new, b)
    <2>1. CASE b = o
      BY <2>1
    <2>2. CASE b # o
      <3>1. /\ new.data[b] = st.data[b]
            /\ new.amounts[<<"ask", b>>] = st.amounts[<<"ask", b>>]
            /\ new.amounts[<<"give", b>>] = st.amounts[<<"give", b>>]
        BY <2>2
      <3>2. GoodOrder(st, b)
        BY <1>1
      <3> QED BY <3>1, <3>2 DEF GoodOrder
    <2> QED BY <2>1, <2>2
  <1>3. ASSUME NEW c \in Currencies
        PROVE  /\ SumFunction(Has(st, c)) \in Int
               /\ SumFunction(Has(new, c)) = SumFunction(Has(st, c)) + (Has(new, c)[o] - Has(st, c)[o])
               /\ Has(new, c)[o] \in Int /\ Has(st, c)[o] \in Int
    <2>1. Has(new, c) \in [OrderIds -> Int] /\ Has(st, c) \in [OrderIds -> Int]
      BY <1>1, <1>2, HasType
    <2>2. \A b \in OrderIds \ {o} : Has(new, c)[b] = Has(st, c)[b]
      BY DEF Has
    <2>3. IsFiniteSet(OrderIds)
      BY TokensOrdersAssumption
    <2> QED BY <2>1, <2>2, <2>3, SumChanges
  <1>4. ASSUME NEW c \in Currencies
        PROVE  /\ new.amounts[<<"held", c>>] + SumFunction(Has(new, c))
                    = st.amounts[<<"held", c>>] + SumFunction(Has(st, c))
    <2>1. st.amounts[<<"held", c>>] \in Int /\ new.amounts[<<"held", c>>] \in Int
      BY <1>1, AmountTypes
    <2>2. new.amounts[<<"held", c>>] - st.amounts[<<"held", c>>] = Has(st, c)[o] - Has(new, c)[o]
      OBVIOUS
    <2> QED BY <1>3, <2>1, <2>2
  <1>5. Balanced(new)
    <2>1. ASSUME NEW t \in Tokens
          PROVE  new.amounts[<<"supply", t>>] = new.amounts[<<"held", t>>] + SumFunction(Has(new, t))
      <3>1. st.amounts[<<"supply", t>>] = st.amounts[<<"held", t>>] + SumFunction(Has(st, t))
        BY <1>1 DEF Balanced
      <3>2. t \in Currencies
        BY DEF Currencies
      <3> QED BY <1>4, <3>1, <3>2
    <2>2. Coin \in Currencies
      BY DEF Currencies
    <2>3. st.amounts[<<"held", Coin>>] + SumFunction(Has(st, Coin)) = Coins
      BY <1>1 DEF Balanced
    <2>4. new.amounts[<<"held", Coin>>] + SumFunction(Has(new, Coin)) = Coins
      BY <1>4, <2>2, <2>3
    <2> QED BY <2>1, <2>4 DEF Balanced
  <1> QED BY <1>2, <1>5
----------------------------------------------------------------------------
(* The operations on good states. *)

Change(data, am) == [data |-> data, amounts |-> am]

\* The operation leads to a good state from which it can be undone.
OpOK(st, op, id, data, am) ==
  LET change == Change(data, am)
      new == Apply(st, change)
  IN /\ op \in TokenOps \cup OrderOps /\ id \in DataKeys
     /\ AllowedIn(new, [op |-> op, id |-> id, change |-> change])
     /\ Good(new)
     /\ LockedStays(st, new) /\ FrozenStays(st, new)

\* The operation fits, and is as it should be if it makes no amount negative.
Does(st, op, id, data, am) ==
  LET change == Change(data, am)
  IN /\ change \in DeltaSet /\ Matches(st, change)
     /\ (\A k \in AmountKeys : Apply(st, change).amounts[k] >= 0) => OpOK(st, op, id, data, am)

\* What a change of amounts only does.
LEMMA AmountsChange ==
  ASSUME NEW st \in StateSet, NEW am \in [AmountKeys -> Int]
  PROVE  LET change == Change(NoDataDelta, am)
             new == Apply(st, change)
         IN  /\ change \in DeltaSet /\ Matches(st, change) /\ new \in StateSet
             /\ \A k \in DataKeys : new.data[k] = st.data[k]
             /\ \A k \in AmountKeys : new.amounts[k] = st.amounts[k] + am[k]
  <1> DEFINE change == Change(NoDataDelta, am)
  <1>1. NoDataDelta \in DataDeltas /\ DOMAIN NoDataDelta = {}
    <2>1. NoDataDelta \in [{} -> [old : DataValues, new : DataValues]] /\ {} \in SUBSET DataKeys
      BY DEF NoDataDelta
    <2> QED BY <2>1, DataDeltaIs
  <1>2. change \in DeltaSet /\ change.data = NoDataDelta /\ change.amounts = am
    BY <1>1 DEF DeltaSet, Change
  <1> HIDE DEF change
  <1>3. Matches(st, change)
    BY <1>1, <1>2 DEF Matches
  <1>4. \A k \in DataKeys : Apply(st, change).data[k] = st.data[k]
    BY <1>1, <1>2, ApplyType
  <1>5. Apply(st, change) \in StateSet
        /\ \A k \in AmountKeys : Apply(st, change).amounts[k] = st.amounts[k] + am[k]
    BY <1>2, ApplyType
  <1> QED BY <1>2, <1>3, <1>4, <1>5 DEF change

\* What a change of the data of one account does.
LEMMA DataChange ==
  ASSUME NEW st \in StateSet, NEW am \in [AmountKeys -> Int], NEW id \in DataKeys,
         NEW x \in DataValues
  PROVE  LET change == Change(DataOf(id, DataDelta(st.data[id], x)), am)
             new == Apply(st, change)
         IN  /\ change \in DeltaSet /\ Matches(st, change) /\ new \in StateSet
             /\ \A k \in DataKeys : new.data[k] = IF k = id THEN x ELSE st.data[k]
             /\ \A k \in AmountKeys : new.amounts[k] = st.amounts[k] + am[k]
  <1> DEFINE data == DataOf(id, DataDelta(st.data[id], x))
             change == Change(data, am)
  <1>1. st.data[id] \in DataValues
    BY DEF StateSet
  <1>2. data = [k \in {id} |-> [old |-> st.data[id], new |-> x]]
    BY DEF DataOf, DataDelta
  <1>3. data \in DataDeltas /\ DOMAIN data = {id} /\ data[id].old = st.data[id] /\ data[id].new = x
    <2>1. data \in [{id} -> [old : DataValues, new : DataValues]] /\ {id} \in SUBSET DataKeys
      BY <1>1, <1>2
    <2> HIDE DEF data
    <2>2. data \in DataDeltas
      BY <2>1, DataDeltaIs
    <2> QED BY <1>2, <2>2
  <1> HIDE DEF data
  <1>4. change \in DeltaSet /\ change.data = data /\ change.amounts = am
    BY <1>3 DEF DeltaSet, Change
  <1> HIDE DEF change
  <1>5. Matches(st, change)
    BY <1>3, <1>4 DEF Matches
  <1>6. \A k \in DataKeys : Apply(st, change).data[k] = IF k = id THEN x ELSE st.data[k]
    BY <1>3, <1>4, ApplyType
  <1>7. Apply(st, change) \in StateSet
        /\ \A k \in AmountKeys : Apply(st, change).amounts[k] = st.amounts[k] + am[k]
    BY <1>4, ApplyType
  <1> QED BY <1>4, <1>5, <1>6, <1>7 DEF change, data

\* A command that takes a nonce, makes n tokens for their holder, and may change the data.
\* What is left to show is what the change of data has to satisfy.
LEMMA TokenOp ==
  ASSUME NEW st, Good(st), NEW t \in Tokens, NEW n \in Int, NEW m \in Int,
         NEW new \in StateSet,
         \A k \in DataKeys \ {t} : new.data[k] = st.data[k],
         \A k \in AmountKeys :
           new.amounts[k] = st.amounts[k] + (IF k = <<"nonce", t>> THEN m ELSE 0)
                              + (IF k = <<"supply", t>> THEN n ELSE 0)
                              + (IF k = <<"held", t>> THEN n ELSE 0),
         \A k \in AmountKeys : new.amounts[k] >= 0,
         GoodToken(new, t),
         Locked(st, t) => Locked(new, t) /\ n = 0,
         Frozen(st, t) => n = 0
  PROVE  Good(new) /\ LockedStays(st, new) /\ FrozenStays(st, new)
  <1>1. st \in StateSet /\ \A k \in AmountKeys : st.amounts[k] \in Int
    BY DEF Good, StateSet
  <1>2. ASSUME NEW k \in Tokens
        PROVE  /\ new.amounts[<<"supply", k>>] = st.amounts[<<"supply", k>>] + (IF k = t THEN n ELSE 0)
               /\ new.amounts[<<"held", k>>] = st.amounts[<<"held", k>>] + (IF k = t THEN n ELSE 0)
               /\ st.amounts[<<"supply", k>>] \in Int /\ st.amounts[<<"held", k>>] \in Int
               /\ new.amounts[<<"supply", k>>] - st.amounts[<<"supply", k>>]
                     = new.amounts[<<"held", k>>] - st.amounts[<<"held", k>>]
               /\ k # t \/ n = 0 => new.amounts[<<"supply", k>>] = st.amounts[<<"supply", k>>]
    <2>1. <<"supply", k>> \in AmountKeys /\ <<"held", k>> \in AmountKeys
      BY Keys
    <2>2. /\ new.amounts[<<"supply", k>>] = st.amounts[<<"supply", k>>] + (IF k = t THEN n ELSE 0)
          /\ new.amounts[<<"held", k>>] = st.amounts[<<"held", k>>] + (IF k = t THEN n ELSE 0)
          /\ st.amounts[<<"supply", k>>] \in Int /\ st.amounts[<<"held", k>>] \in Int
      BY <1>1, <2>1
    <2> QED BY <2>2
  <1>3. ASSUME NEW o \in OrderIds
        PROVE  /\ new.data[o] = st.data[o]
               /\ new.amounts[<<"ask", o>>] = st.amounts[<<"ask", o>>]
               /\ new.amounts[<<"give", o>>] = st.amounts[<<"give", o>>]
    <2>1. <<"ask", o>> \in AmountKeys /\ <<"give", o>> \in AmountKeys /\ o \in DataKeys
      BY Keys
    <2>2. o # t
      BY TokensOrdersAssumption
    <2> QED BY <1>1, <2>1, <2>2
  <1>4. new.amounts[<<"held", Coin>>] = st.amounts[<<"held", Coin>>]
    <2>1. <<"held", Coin>> \in AmountKeys
      BY Keys DEF Currencies
    <2>2. Coin # t
      BY TokensOrdersAssumption
    <2> QED BY <1>1, <2>1, <2>2
  <1>5. Balanced(new) /\ \A o \in OrderIds : GoodOrder(new, o)
    <2>1. \A k \in Tokens : new.amounts[<<"supply", k>>] - st.amounts[<<"supply", k>>]
                              = new.amounts[<<"held", k>>] - st.amounts[<<"held", k>>]
      BY <1>2
    <2> QED BY <1>3, <1>4, <2>1, TokensBalance
  <1>6. ASSUME NEW k \in Tokens PROVE k # t => new.data[k] = st.data[k]
    BY Keys
  <1>7. \A k \in Tokens : GoodToken(new, k)
    <2> TAKE k \in Tokens
    <2>1. CASE k = t
      BY <2>1
    <2>2. CASE k # t
      BY <1>6, <2>2 DEF Good, GoodToken, Locked
    <2> QED BY <2>1, <2>2
  <1>8. LockedStays(st, new)
    <2> SUFFICES ASSUME NEW k \in Tokens, Locked(st, k)
                 PROVE  Locked(new, k) /\ new.amounts[<<"supply", k>>] = st.amounts[<<"supply", k>>]
      BY DEF LockedStays
    <2>1. CASE k = t
      <3>1. Locked(new, k) /\ n = 0
        BY <2>1
      <3> QED BY <1>2, <3>1
    <2>2. CASE k # t
      <3>1. new.data[k] = st.data[k]
        BY <1>6, <2>2
      <3>2. Locked(new, k)
        BY <3>1 DEF Locked
      <3> QED BY <1>2, <2>2, <3>2
    <2> QED BY <2>1, <2>2
  <1>9. FrozenStays(st, new)
    BY <1>2 DEF FrozenStays
  <1> QED BY <1>5, <1>7, <1>8, <1>9 DEF Good
\* The nonce of an account, or nothing.
IsNonce(id, am) == am \in [AmountKeys -> Int] /\ \A k \in AmountKeys \ {<<"nonce", id>>} : am[k] = 0

LEMMA Nonces ==
  ASSUME NEW id
  PROVE  IsNonce(id, Spend(id)) /\ IsNonce(id, NoAmounts)
  <1>1. IsNonce(id, NoAmounts)
    BY AddNone DEF IsNonce
  <1>2. Spend(id) \in [AmountKeys -> Int] /\ \A k \in AmountKeys : Spend(id)[k] = IF k = <<"nonce", id>> THEN 1 ELSE 0
    BY AddOne DEF Spend
  <1> QED BY <1>1, <1>2 DEF IsNonce

\* A token is issued, or its data changed.
LEMMA TokenDataOp ==
  ASSUME NEW st, Good(st), NEW t \in Tokens, NEW x \in TokenType, NEW op, NEW am, IsNonce(t, am),
         op \in {"IssueToken", "LockSupply", "FreezeToken", "UnfreezeToken", "ChangeToken"},
         x.locked => x.supply.kind = "Lockable",
         st.data[t] # NoData /\ st.data[t].locked => x.locked,
         op = "LockSupply" => x.locked,
         op = "FreezeToken" => IsFrozen(x),
         op \in {"UnfreezeToken", "ChangeToken"} => ~IsFrozen(x),
         NEW data, data = DataOf(t, DataDelta(st.data[t], x))
  PROVE  Does(st, op, t, data, am)
  <1> DEFINE change == Change(data, am)
             new == Apply(st, change)
  <1>1. /\ st \in StateSet /\ t \in DataKeys /\ x \in DataValues /\ x # NoData
        /\ am \in [AmountKeys -> Int]
    BY Keys, TokensOrdersAssumption DEF Good, DataValues, IsNonce
  <1>2. /\ change \in DeltaSet /\ Matches(st, change) /\ new \in StateSet
        /\ \A k \in DataKeys : new.data[k] = IF k = t THEN x ELSE st.data[k]
        /\ \A k \in AmountKeys : new.amounts[k] = st.amounts[k] + am[k]
    BY <1>1, DataChange
  <1>3. SUFFICES ASSUME \A k \in AmountKeys : new.amounts[k] >= 0
             PROVE  OpOK(st, op, t, data, am)
    BY <1>2 DEF Does
  <1> HIDE DEF new, change
  <1>4. new.data[t] = x /\ \A k \in DataKeys \ {t} : new.data[k] = st.data[k]
    BY <1>1, <1>2
  <1>5. GoodToken(new, t)
    BY <1>1, <1>4 DEF GoodToken, Locked
  <1>6. Locked(st, t) => Locked(new, t)
    BY <1>1, <1>4 DEF Locked
  <1>7. ASSUME NEW k \in AmountKeys
        PROVE  new.amounts[k] = st.amounts[k] + (IF k = <<"nonce", t>> THEN am[<<"nonce", t>>] ELSE 0)
                                  + (IF k = <<"supply", t>> THEN 0 ELSE 0)
                                  + (IF k = <<"held", t>> THEN 0 ELSE 0)
    <2>1. st.amounts[k] \in Int /\ am[k] \in Int
      BY <1>1 DEF StateSet
    <2>2. k # <<"nonce", t>> => am[k] = 0
      BY DEF IsNonce
    <2>3. new.amounts[k] = st.amounts[k] + am[k]
      BY <1>2
    <2> QED BY <2>1, <2>2, <2>3
  <1>8. am[<<"nonce", t>>] \in Int
    BY <1>1, Keys
  <1>9. Good(new) /\ LockedStays(st, new) /\ FrozenStays(st, new)
    BY <1>2, <1>3, <1>4, <1>5, <1>6, <1>7, <1>8, TokenOp
  <1>10. AllowedIn(new, [op |-> op, id |-> t, change |-> change])
    BY <1>1, <1>4 DEF AllowedIn
  <1>11. op \in TokenOps \cup OrderOps
    BY DEF TokenOps
  <1> QED BY <1>1, <1>9, <1>10, <1>11 DEF OpOK, new, change

\* Tokens are minted, or unminted.
LEMMA TokenAmountOp ==
  ASSUME NEW st, Good(st), NEW t \in Tokens, NEW n \in Int, NEW op,
         op \in {"MintTokens", "UnmintTokens"},
         st.data[t] # NoData, ~st.data[t].locked, ~IsFrozen(st.data[t]),
         NEW am, am = Spend(t) ++ To("supply", t, n) ++ To("held", t, n)
  PROVE  Does(st, op, t, NoDataDelta, am)
  <1> DEFINE change == Change(NoDataDelta, am)
             new == Apply(st, change)
             a == Spend(t)
             b == To("supply", t, n)
             c == To("held", t, n)
  <1>1. st \in StateSet /\ t \in DataKeys
    BY Keys DEF Good
  <1>2. /\ a \in [AmountKeys -> Int] /\ b \in [AmountKeys -> Int] /\ c \in [AmountKeys -> Int]
        /\ \A k \in AmountKeys : /\ k # <<"nonce", t>> => a[k] = 0
                                 /\ b[k] = IF k = <<"supply", t>> THEN n ELSE 0
                                 /\ c[k] = IF k = <<"held", t>> THEN n ELSE 0
    BY AddOne, Nonces DEF IsNonce
  <1> HIDE DEF a, b, c
  <1>3. am \in [AmountKeys -> Int] /\ \A k \in AmountKeys : am[k] = (a[k] + b[k]) + c[k]
    <2>1. a ++ b \in [AmountKeys -> Int] /\ \A k \in AmountKeys : (a ++ b)[k] = a[k] + b[k]
      BY <1>2, AddBoth
    <2>2. am = (a ++ b) ++ c
      BY DEF a, b, c
    <2> QED BY <1>2, <2>1, <2>2, AddBoth
  <1>4. /\ change \in DeltaSet /\ Matches(st, change) /\ new \in StateSet
        /\ \A k \in DataKeys : new.data[k] = st.data[k]
        /\ \A k \in AmountKeys : new.amounts[k] = st.amounts[k] + am[k]
    BY <1>1, <1>3, AmountsChange
  <1>5. SUFFICES ASSUME \A k \in AmountKeys : new.amounts[k] >= 0
             PROVE  OpOK(st, op, t, NoDataDelta, am)
    BY <1>4 DEF Does
  <1> HIDE DEF new, change
  <1>6. new.data[t] = st.data[t] /\ \A k \in DataKeys \ {t} : new.data[k] = st.data[k]
    BY <1>1, <1>4
  <1>7. GoodToken(new, t) /\ ~Locked(st, t) /\ ~Frozen(st, t)
    BY <1>6 DEF GoodToken, Locked, Good, Frozen
  <1>8. ASSUME NEW k \in AmountKeys
        PROVE  new.amounts[k] = st.amounts[k] + (IF k = <<"nonce", t>> THEN a[<<"nonce", t>>] ELSE 0)
                                  + (IF k = <<"supply", t>> THEN n ELSE 0)
                                  + (IF k = <<"held", t>> THEN n ELSE 0)
    <2>1. st.amounts[k] \in Int /\ a[k] \in Int
      BY <1>1, <1>2 DEF StateSet
    <2>2. /\ k # <<"nonce", t>> => a[k] = 0
          /\ b[k] = IF k = <<"supply", t>> THEN n ELSE 0
          /\ c[k] = IF k = <<"held", t>> THEN n ELSE 0
      BY <1>2
    <2>3. new.amounts[k] = st.amounts[k] + ((a[k] + b[k]) + c[k])
      BY <1>3, <1>4
    <2> QED BY <2>1, <2>2, <2>3
  <1>9. a[<<"nonce", t>>] \in Int
    BY <1>1, <1>2, Keys
  <1>10. Good(new) /\ LockedStays(st, new) /\ FrozenStays(st, new)
    BY <1>4, <1>5, <1>6, <1>7, <1>8, <1>9, TokenOp
  <1>11. AllowedIn(new, [op |-> op, id |-> t, change |-> change])
    BY <1>6 DEF AllowedIn
  <1>12. op \in TokenOps \cup OrderOps
    BY DEF TokenOps
  <1> QED BY <1>1, <1>10, <1>11, <1>12 DEF OpOK, new, change
\* A command on an order: what is left to show is about this order, and about what it takes
\* from holders.
LEMMA OrderOp ==
  ASSUME NEW st, Good(st), NEW o \in OrderIds, NEW new \in StateSet,
         \A k \in DataKeys \ {o} : new.data[k] = st.data[k],
         \A b \in OrderIds \ {o} : /\ new.amounts[<<"ask", b>>] = st.amounts[<<"ask", b>>]
                                   /\ new.amounts[<<"give", b>>] = st.amounts[<<"give", b>>],
         \A t \in Tokens : new.amounts[<<"supply", t>>] = st.amounts[<<"supply", t>>],
         \A c \in Currencies : new.amounts[<<"held", c>>] - st.amounts[<<"held", c>>]
                                 = Has(st, c)[o] - Has(new, c)[o],
         \A t \in Tokens : Frozen(st, t) =>
            new.amounts[<<"held", t>>] = st.amounts[<<"held", t>>],
         \A k \in AmountKeys : new.amounts[k] >= 0,
         GoodOrder(new, o)
  PROVE  Good(new) /\ LockedStays(st, new) /\ FrozenStays(st, new)
  <1>1. ASSUME NEW t \in Tokens PROVE new.data[t] = st.data[t]
    BY Keys, TokensOrdersAssumption
  <1>2. \A b \in OrderIds \ {o} : new.data[b] = st.data[b]
    BY Keys
  <1>3. Balanced(new) /\ \A b \in OrderIds : GoodOrder(new, b)
    BY <1>2, OrderBalance
  <1>4. \A t \in Tokens : GoodToken(new, t)
    BY <1>1 DEF Good, GoodToken, Locked
  <1>5. LockedStays(st, new)
    BY <1>1 DEF LockedStays, Locked
  <1>6. FrozenStays(st, new)
    BY DEF FrozenStays
  <1> QED BY <1>3, <1>4, <1>5, <1>6 DEF Good

\* What an operation on o adds: x to what it asks, y to what it gives, and p and q to the
\* currencies c and d that are held.
Adds(st, new, o, z, x, y, c, p, d, q) ==
  \A k \in AmountKeys :
    new.amounts[k] = st.amounts[k] + ((((z[k] + (IF k = <<"ask", o>> THEN x ELSE 0))
                         + (IF k = <<"give", o>> THEN y ELSE 0))
                         + (IF k = <<"held", c>> THEN p ELSE 0))
                         + (IF k = <<"held", d>> THEN q ELSE 0))

LEMMA OrderAmounts ==
  ASSUME NEW st, Good(st), NEW o \in OrderIds, NEW new \in StateSet, NEW z, IsNonce(o, z),
         NEW x \in Int, NEW y \in Int, NEW p \in Int, NEW q \in Int, NEW c, NEW d,
         Adds(st, new, o, z, x, y, c, p, d, q)
  PROVE  /\ \A b \in OrderIds \ {o} : /\ new.amounts[<<"ask", b>>] = st.amounts[<<"ask", b>>]
                                      /\ new.amounts[<<"give", b>>] = st.amounts[<<"give", b>>]
         /\ new.amounts[<<"ask", o>>] = st.amounts[<<"ask", o>>] + x
         /\ new.amounts[<<"give", o>>] = st.amounts[<<"give", o>>] + y
         /\ \A t \in Tokens : new.amounts[<<"supply", t>>] = st.amounts[<<"supply", t>>]
         /\ \A h \in Currencies : new.amounts[<<"held", h>>] = st.amounts[<<"held", h>>]
              + ((IF h = c THEN p ELSE 0) + (IF h = d THEN q ELSE 0))
  <1>1. \A k \in AmountKeys : st.amounts[k] \in Int
    BY DEF Good, StateSet
  <1>2. \A k \in AmountKeys : k # <<"nonce", o>> => z[k] = 0
    BY DEF IsNonce
  <1>3. ASSUME NEW b \in OrderIds
        PROVE  /\ new.amounts[<<"ask", b>>] = st.amounts[<<"ask", b>>] + (IF b = o THEN x ELSE 0)
               /\ new.amounts[<<"give", b>>] = st.amounts[<<"give", b>>] + (IF b = o THEN y ELSE 0)
               /\ st.amounts[<<"ask", b>>] \in Int /\ st.amounts[<<"give", b>>] \in Int
    <2>1. <<"ask", b>> \in AmountKeys /\ <<"give", b>> \in AmountKeys
      BY Keys
    <2>2. z[<<"ask", b>>] = 0 /\ z[<<"give", b>>] = 0
      BY <1>2, <2>1
    <2> QED BY <1>1, <2>1, <2>2 DEF Adds
  <1>4. ASSUME NEW t \in Tokens
        PROVE  new.amounts[<<"supply", t>>] = st.amounts[<<"supply", t>>]
    <2>1. <<"supply", t>> \in AmountKeys
      BY Keys
    <2>2. z[<<"supply", t>>] = 0
      BY <1>2, <2>1
    <2> QED BY <1>1, <2>1, <2>2 DEF Adds
  <1>5. ASSUME NEW h \in Currencies
        PROVE  new.amounts[<<"held", h>>] = st.amounts[<<"held", h>>]
                 + ((IF h = c THEN p ELSE 0) + (IF h = d THEN q ELSE 0))
    <2>1. <<"held", h>> \in AmountKeys
      BY Keys
    <2>2. z[<<"held", h>>] = 0
      BY <1>2, <2>1
    <2> QED BY <1>1, <2>1, <2>2 DEF Adds
  <1>6. ASSUME NEW b \in OrderIds \ {o}
        PROVE  /\ new.amounts[<<"ask", b>>] = st.amounts[<<"ask", b>>]
               /\ new.amounts[<<"give", b>>] = st.amounts[<<"give", b>>]
    <2>1. b \in OrderIds /\ b # o
      OBVIOUS
    <2>2. /\ new.amounts[<<"ask", b>>] = st.amounts[<<"ask", b>>] + 0
          /\ new.amounts[<<"give", b>>] = st.amounts[<<"give", b>>] + 0
          /\ st.amounts[<<"ask", b>>] \in Int /\ st.amounts[<<"give", b>>] \in Int
      BY <1>3, <2>1
    <2> QED BY <2>2
  <1>7. /\ new.amounts[<<"ask", o>>] = st.amounts[<<"ask", o>>] + x
        /\ new.amounts[<<"give", o>>] = st.amounts[<<"give", o>>] + y
    BY <1>3
  <1> QED BY <1>4, <1>5, <1>6, <1>7

\* The value of a sum of amounts.
Five(am, o, z, x, y, c, p, d, q) ==
  /\ am \in [AmountKeys -> Int]
  /\ \A k \in AmountKeys : am[k] = (((z[k] + (IF k = <<"ask", o>> THEN x ELSE 0))
                                     + (IF k = <<"give", o>> THEN y ELSE 0))
                                     + (IF k = <<"held", c>> THEN p ELSE 0))
                                     + (IF k = <<"held", d>> THEN q ELSE 0)

LEMMA FiveAmounts ==
  ASSUME NEW o, NEW z \in [AmountKeys -> Int], NEW x \in Int, NEW y \in Int, NEW p \in Int,
         NEW q \in Int, NEW c, NEW d, NEW am,
         am = z ++ To("ask", o, x) ++ To("give", o, y) ++ To("held", c, p) ++ To("held", d, q)
  PROVE  Five(am, o, z, x, y, c, p, d, q)
  <1> DEFINE a == To("ask", o, x)
             g == To("give", o, y)
             h == To("held", c, p)
             i == To("held", d, q)
             F == [AmountKeys -> Int]
             a1 == z ++ a
             a2 == a1 ++ g
             a3 == a2 ++ h
  <1>1. /\ a \in F /\ \A k \in AmountKeys : a[k] = IF k = <<"ask", o>> THEN x ELSE 0
        /\ g \in F /\ \A k \in AmountKeys : g[k] = IF k = <<"give", o>> THEN y ELSE 0
        /\ h \in F /\ \A k \in AmountKeys : h[k] = IF k = <<"held", c>> THEN p ELSE 0
        /\ i \in F /\ \A k \in AmountKeys : i[k] = IF k = <<"held", d>> THEN q ELSE 0
    BY AddOne
  <1>2. am = a3 ++ i
    OBVIOUS
  <1> HIDE DEF a, g, h, i
  <1>3. a1 \in F /\ \A k \in AmountKeys : a1[k] = z[k] + a[k]
    BY <1>1, AddBoth
  <1> HIDE DEF a1
  <1>4. a2 \in F /\ \A k \in AmountKeys : a2[k] = a1[k] + g[k]
    BY <1>1, <1>3, AddBoth
  <1> HIDE DEF a2
  <1>5. a3 \in F /\ \A k \in AmountKeys : a3[k] = a2[k] + h[k]
    BY <1>1, <1>4, AddBoth
  <1> HIDE DEF a3
  <1>6. am \in F /\ \A k \in AmountKeys : am[k] = a3[k] + i[k]
    BY <1>1, <1>2, <1>5, AddBoth
  <1> QED BY <1>1, <1>3, <1>4, <1>5, <1>6 DEF Five
----------------------------------------------------------------------------
(* The price of an order. *)

\* Division rounds down.
LEMMA RoundsDown ==
  ASSUME NEW n \in Nat, NEW d \in Nat, d > 0
  PROVE  n \div d \in Nat /\ (n \div d) * d <= n
  <1>1. n = d * (n \div d) + (n % d) /\ n % d \in 0 .. (d - 1) /\ n \div d \in Int
    OBVIOUS
  <1>2. n \div d >= 0
    BY <1>1
  <1>3. (n \div d) * d = d * (n \div d)
    BY <1>1
  <1> QED BY <1>1, <1>2, <1>3

LEMMA Distribute ==
  ASSUME NEW a \in Int, NEW b \in Int, NEW c \in Int
  PROVE  (a - b) * c = a * c - b * c /\ c * (a - b) = c * a - c * b
  OBVIOUS

LEMMA MultLeq ==
  ASSUME NEW a \in Int, NEW b \in Int, NEW c \in Nat, a <= b
  PROVE  a * c <= b * c /\ c * a <= c * b
  OBVIOUS

LEMMA CancelLeq ==
  ASSUME NEW a \in Int, NEW b \in Int, NEW c \in Nat, c > 0, a * c <= b * c
  PROVE  a <= b
  OBVIOUS

\* What is left of an order is worth its price after it is filled.
LEMMA PriceKept ==
  ASSUME NEW A \in Nat, A > 0, NEW G \in Nat, NEW ask \in Nat, NEW give \in Nat,
         AtPrice(A, G, ask, give), NEW fill \in Nat, fill > 0, fill <= ask,
         NEW filled, filled = FilledAmount(ask, give, fill) \/ filled = FilledAmount(A, G, fill)
  PROVE  filled \in Nat /\ AtPrice(A, G, ask - fill, give - filled)
  <1> USE DEF AtPrice
  <1>1. CASE filled = FilledAmount(A, G, fill)
    <2>1. G * fill \in Nat
      OBVIOUS
    <2>2. filled \in Nat /\ filled * A <= G * fill
      BY <1>1, <2>1, RoundsDown DEF FilledAmount
    <2>3. (give - filled) * A = give * A - filled * A /\ G * (ask - fill) = G * ask - G * fill
      BY <2>2, Distribute
    <2>4. give * A \in Int /\ filled * A \in Int /\ G * ask \in Int /\ G * fill \in Int
      BY <2>2
    <2> QED BY <2>2, <2>3, <2>4
  <1>2. CASE filled = FilledAmount(ask, give, fill)
    <2> DEFINE r == ask - fill
               k == give * ask - filled * ask
               l == give * ask - give * fill
    <2>1. give * fill \in Nat /\ ask > 0 /\ r \in Nat
      OBVIOUS
    <2>2. filled \in Nat /\ filled * ask <= give * fill
      BY <1>2, <2>1, RoundsDown DEF FilledAmount
    <2>3. (give - filled) * ask = k /\ give * r = l
      BY <2>2, Distribute
    <2>4. k \in Int /\ l \in Int /\ l <= k
      <3>1. give * ask \in Int /\ filled * ask \in Int /\ give * fill \in Int
        BY <2>2
      <3> QED BY <2>2, <3>1
    <2> HIDE DEF k, l, r
    <2>5. A * l <= A * k
      BY <2>4, MultLeq
    <2>6. A * k = ((give - filled) * A) * ask
      <3>1. A * ((give - filled) * ask) = ((give - filled) * A) * ask
        BY <2>2
      <3> QED BY <2>3, <3>1
    <2>7. A * l = (give * A) * r
      <3>1. A * (give * r) = (give * A) * r
        BY <2>1
      <3> QED BY <2>3, <3>1
    <2>8. (G * ask) * r <= (give * A) * r
      <3>1. G * ask \in Int /\ give * A \in Int /\ G * ask <= give * A
        OBVIOUS
      <3> QED BY <2>1, <3>1, MultLeq
    <2>9. (G * ask) * r = (G * r) * ask
      BY <2>1
    <2>10. (G * r) * ask <= ((give - filled) * A) * ask
      <3>1. (G * r) * ask \in Int /\ ((give - filled) * A) * ask \in Int /\ A * l \in Int /\ A * k \in Int
        BY <2>1, <2>2, <2>4
      <3> QED BY <2>5, <2>6, <2>7, <2>8, <2>9, <3>1
    <2>11. G * r <= (give - filled) * A
      <3>1. G * r \in Int /\ (give - filled) * A \in Int
        BY <2>1, <2>2
      <3> QED BY <2>1, <2>10, <3>1, CancelLeq
    <2>12. G * r \in Int /\ (give - filled) * A \in Int
      BY <2>1, <2>2
    <2> QED BY <2>2, <2>11, <2>12 DEF r
  <1> QED BY <1>1, <1>2
----------------------------------------------------------------------------
(* The commands on orders. *)

\* What an operation takes from holders is what the order gets, and none of it is frozen.
Takes(st, new, o, c, p, d, q) ==
  \A h \in Currencies : (IF h = c THEN p ELSE 0) + (IF h = d THEN q ELSE 0)
                           = Has(st, h)[o] - Has(new, h)[o]

LEMMA OrderChanged ==
  ASSUME NEW st, Good(st), NEW o \in OrderIds, NEW new \in StateSet, NEW z, IsNonce(o, z),
         NEW x \in Int, NEW y \in Int, NEW p \in Int, NEW q \in Int, NEW c, NEW d,
         \A k \in DataKeys \ {o} : new.data[k] = st.data[k],
         Adds(st, new, o, z, x, y, c, p, d, q),
         Takes(st, new, o, c, p, d, q),
         \A t \in Tokens : Frozen(st, t) => t # c /\ t # d,
         \A k \in AmountKeys : new.amounts[k] >= 0,
         GoodOrder(new, o)
  PROVE  Good(new) /\ LockedStays(st, new) /\ FrozenStays(st, new)
  <1>1. /\ \A b \in OrderIds \ {o} : /\ new.amounts[<<"ask", b>>] = st.amounts[<<"ask", b>>]
                                     /\ new.amounts[<<"give", b>>] = st.amounts[<<"give", b>>]
        /\ new.amounts[<<"ask", o>>] = st.amounts[<<"ask", o>>] + x
        /\ new.amounts[<<"give", o>>] = st.amounts[<<"give", o>>] + y
        /\ \A t \in Tokens : new.amounts[<<"supply", t>>] = st.amounts[<<"supply", t>>]
        /\ \A h \in Currencies : new.amounts[<<"held", h>>] = st.amounts[<<"held", h>>]
             + ((IF h = c THEN p ELSE 0) + (IF h = d THEN q ELSE 0))
    BY OrderAmounts
  <1>2. st \in StateSet
    BY DEF Good
  <1>3. ASSUME NEW h \in Currencies
        PROVE  new.amounts[<<"held", h>>] - st.amounts[<<"held", h>>] = Has(st, h)[o] - Has(new, h)[o]
    <2> DEFINE n == (IF h = c THEN p ELSE 0) + (IF h = d THEN q ELSE 0)
    <2>1. st.amounts[<<"held", h>>] \in Int /\ n \in Int
      BY <1>2, AmountTypes
    <2>2. new.amounts[<<"held", h>>] = st.amounts[<<"held", h>>] + n
      BY <1>1
    <2>3. n = Has(st, h)[o] - Has(new, h)[o]
      BY DEF Takes
    <2> HIDE DEF n
    <2>4. new.amounts[<<"held", h>>] - st.amounts[<<"held", h>>] = n
      BY <2>1, <2>2
    <2> QED BY <2>3, <2>4
  <1>4. ASSUME NEW t \in Tokens, Frozen(st, t)
        PROVE  new.amounts[<<"held", t>>] = st.amounts[<<"held", t>>]
    <2>1. t # c /\ t # d
      BY <1>4
    <2>2. t \in Currencies
      BY DEF Currencies
    <2>3. st.amounts[<<"held", t>>] \in Int
      BY <1>2, <2>2, AmountTypes
    <2>4. new.amounts[<<"held", t>>] = st.amounts[<<"held", t>>] + (0 + 0)
      BY <1>1, <2>1, <2>2
    <2> QED BY <2>3, <2>4
  <1> QED BY <1>1, <1>3, <1>4, OrderOp

\* What one order has of a currency.
LEMMA HasOf ==
  ASSUME NEW st, NEW o \in OrderIds, NEW h, NEW data, data = st.data[o],
         NEW ask, ask = st.amounts[<<"ask", o>>], NEW give, give = st.amounts[<<"give", o>>]
  PROVE  /\ data = NoData => Has(st, h)[o] = 0
         /\ data # NoData => Has(st, h)[o] = (IF data.giveCurrency = h THEN give ELSE 0)
                                          + (IF data.askCurrency = h THEN data.ask - ask ELSE 0)
  BY DEF Has

\* What an order that is filled loses of a currency.
LEMMA FillTakes ==
  ASSUME NEW A \in Int, NEW ask \in Int, NEW give \in Int, NEW fill \in Int, NEW filled \in Int,
         NEW c, NEW d, NEW h
  PROVE  (IF h = c THEN -fill ELSE 0) + (IF h = d THEN filled ELSE 0)
           = ((IF d = h THEN give ELSE 0) + (IF c = h THEN A - ask ELSE 0))
             - ((IF d = h THEN give + (-filled) ELSE 0)
                  + (IF c = h THEN A - (ask + (-fill)) ELSE 0))
  OBVIOUS

\* A frozen token is no currency of the order.
LEMMA NoFrozenCurrency ==
  ASSUME NEW st, NEW c, NEW d, \A t \in {c, d} \ {Coin} : ~Frozen(st, t)
  PROVE  \A t \in Tokens : Frozen(st, t) => t # c /\ t # d
  BY TokensOrdersAssumption

\* An order is filled, at either of the prices.
LEMMA FillOK ==
  ASSUME NEW st, Good(st), NEW o \in OrderIds, NEW data, data = st.data[o], data # NoData,
         \A t \in {data.askCurrency, data.giveCurrency} \ {Coin} : ~Frozen(st, t),
         NEW ask, ask = st.amounts[<<"ask", o>>], NEW give, give = st.amounts[<<"give", o>>],
         NEW fill \in Nat, fill > 0, fill <= ask, NEW filled,
         filled = FilledAmount(ask, give, fill) \/ filled = FilledAmount(data.ask, data.give, fill),
         NEW z, IsNonce(o, z), NEW am,
         am = z ++ To("ask", o, -fill) ++ To("give", o, -filled)
                ++ To("held", data.askCurrency, -fill) ++ To("held", data.giveCurrency, filled)
  PROVE  Does(st, "FillOrder", o, NoDataDelta, am)
  <1> DEFINE change == Change(NoDataDelta, am)
             new == Apply(st, change)
             c == data.askCurrency
             d == data.giveCurrency
  <1>1. st \in StateSet /\ o \in DataKeys /\ GoodOrder(st, o)
    BY Keys DEF Good
  <1>2. data \in OrderType /\ c # d /\ AtPrice(data.ask, data.give, ask, give)
    <2>1. data \in {NoData} \cup OrderType /\ c # d /\ AtPrice(data.ask, data.give, ask, give)
      BY <1>1 DEF GoodOrder
    <2> QED BY <2>1
  <1>3. data.ask \in Nat /\ data.ask > 0 /\ data.give \in Nat
    BY <1>2, OrderFields
  <1>4. ask \in Nat /\ give \in Nat
    <2>1. ask \in Int /\ give \in Int
      BY <1>1, AmountTypes
    <2>2. <<"ask", o>> \in AmountKeys /\ <<"give", o>> \in AmountKeys
      BY Keys
    <2>3. ask >= 0 /\ give >= 0
      BY <2>2 DEF Good
    <2> QED BY <2>1, <2>3
  <1>5. filled \in Nat /\ AtPrice(data.ask, data.give, ask - fill, give - filled)
    BY <1>2, <1>3, <1>4, PriceKept
  <1>6. -fill \in Int /\ -filled \in Int
    BY <1>5
  <1>7. z \in [AmountKeys -> Int]
    BY DEF IsNonce
  <1>8. Five(am, o, z, -fill, -filled, c, -fill, d, filled)
    BY <1>5, <1>6, <1>7, FiveAmounts
  <1>9. /\ change \in DeltaSet /\ Matches(st, change) /\ new \in StateSet
        /\ \A k \in DataKeys : new.data[k] = st.data[k]
        /\ \A k \in AmountKeys : new.amounts[k] = st.amounts[k] + am[k]
    <2>1. am \in [AmountKeys -> Int]
      BY <1>8 DEF Five
    <2> QED BY <1>1, <2>1, AmountsChange
  <1>10. SUFFICES ASSUME \A k \in AmountKeys : new.amounts[k] >= 0
             PROVE  OpOK(st, "FillOrder", o, NoDataDelta, am)
    BY <1>9 DEF Does
  <1> HIDE DEF new, change
  <1>11. Adds(st, new, o, z, -fill, -filled, c, -fill, d, filled)
    BY <1>8, <1>9 DEF Adds, Five
  <1>12. new.data[o] = data
    BY <1>1, <1>9
  <1>13. /\ new.amounts[<<"ask", o>>] = ask + (-fill)
         /\ new.amounts[<<"give", o>>] = give + (-filled)
    BY <1>5, <1>6, <1>9, <1>11, OrderAmounts
  <1>14. Takes(st, new, o, c, -fill, d, filled)
    <2> SUFFICES ASSUME NEW h \in Currencies
                 PROVE  (IF h = c THEN -fill ELSE 0) + (IF h = d THEN filled ELSE 0)
                           = Has(st, h)[o] - Has(new, h)[o]
      BY DEF Takes
    <2>1. Has(st, h)[o] = (IF d = h THEN give ELSE 0) + (IF c = h THEN data.ask - ask ELSE 0)
      BY HasOf
    <2>2. Has(new, h)[o] = (IF d = h THEN give + (-filled) ELSE 0)
                         + (IF c = h THEN data.ask - (ask + (-fill)) ELSE 0)
      BY <1>12, <1>13, HasOf
    <2>3. data.ask \in Int /\ ask \in Int /\ give \in Int /\ fill \in Int /\ filled \in Int
      BY <1>3, <1>4, <1>5
    <2> HIDE DEF c, d
    <2> QED BY <2>1, <2>2, <2>3, FillTakes
  <1>15. \A t \in Tokens : Frozen(st, t) => t # c /\ t # d
    BY NoFrozenCurrency
  <1>16. GoodOrder(new, o)
    <2>1. give + (-filled) = give - filled /\ ask + (-fill) = ask - fill
      BY <1>4, <1>5
    <2> QED BY <1>2, <1>5, <1>12, <1>13, <2>1 DEF GoodOrder
  <1>17. \A k \in DataKeys \ {o} : new.data[k] = st.data[k]
    BY <1>9
  <1> HIDE DEF c, d
  <1>18. Good(new) /\ LockedStays(st, new) /\ FrozenStays(st, new)
    BY <1>5, <1>6, <1>9, <1>10, <1>11, <1>14, <1>15, <1>16, <1>17, OrderChanged
  <1>19. AllowedIn(new, [op |-> "FillOrder", id |-> o, change |-> change])
    BY DEF AllowedIn
  <1> QED BY <1>1, <1>18, <1>19 DEF OpOK, new, change, OrderOps

\* An order is concluded: what it has goes to holders.
LEMMA ConcludeOK ==
  ASSUME NEW st, Good(st), NEW o \in OrderIds, NEW data, data = st.data[o], data # NoData,
         \A t \in {data.askCurrency, data.giveCurrency} \ {Coin} : ~Frozen(st, t),
         NEW ask, ask = st.amounts[<<"ask", o>>], NEW give, give = st.amounts[<<"give", o>>],
         NEW p, p = data.ask - ask, NEW z, IsNonce(o, z), NEW am,
         am = z ++ To("ask", o, -ask) ++ To("give", o, -give)
                ++ To("held", data.askCurrency, p)
                ++ To("held", data.giveCurrency, give),
         NEW del, del = DataOf(o, DataDelta(data, NoData))
  PROVE  Does(st, "ConcludeOrder", o, del, am)
  <1> DEFINE change == Change(del, am)
             new == Apply(st, change)
             c == data.askCurrency
             d == data.giveCurrency
  <1>1. st \in StateSet /\ o \in DataKeys /\ GoodOrder(st, o) /\ NoData \in DataValues
    BY Keys DEF Good, DataValues
  <1>2. data \in OrderType
    <2>1. data \in {NoData} \cup OrderType
      BY <1>1 DEF GoodOrder
    <2> QED BY <2>1
  <1>3. data.ask \in Nat
    BY <1>2, OrderFields
  <1>4. ask \in Int /\ give \in Int
    BY <1>1, AmountTypes
  <1>5. p \in Int /\ -ask \in Int /\ -give \in Int
    BY <1>3, <1>4
  <1>6. z \in [AmountKeys -> Int]
    BY DEF IsNonce
  <1>8. Five(am, o, z, -ask, -give, c, p, d, give)
    BY <1>4, <1>5, <1>6, FiveAmounts
  <1>9. /\ change \in DeltaSet /\ Matches(st, change) /\ new \in StateSet
        /\ \A k \in DataKeys : new.data[k] = IF k = o THEN NoData ELSE st.data[k]
        /\ \A k \in AmountKeys : new.amounts[k] = st.amounts[k] + am[k]
    <2>1. am \in [AmountKeys -> Int] /\ del = DataOf(o, DataDelta(st.data[o], NoData))
      BY <1>8 DEF Five
    <2> QED BY <1>1, <2>1, DataChange
  <1>10. SUFFICES ASSUME \A k \in AmountKeys : new.amounts[k] >= 0
             PROVE  OpOK(st, "ConcludeOrder", o, del, am)
    BY <1>9 DEF Does
  <1> HIDE DEF new, change
  <1>11. Adds(st, new, o, z, -ask, -give, c, p, d, give)
    BY <1>8, <1>9 DEF Adds, Five
  <1>12. new.data[o] = NoData
    BY <1>1, <1>9
  <1>13. new.amounts[<<"ask", o>>] = 0 /\ new.amounts[<<"give", o>>] = 0
    <2>1. /\ new.amounts[<<"ask", o>>] = ask + (-ask)
          /\ new.amounts[<<"give", o>>] = give + (-give)
      BY <1>4, <1>5, <1>9, <1>11, OrderAmounts
    <2> QED BY <1>4, <2>1
  <1>14. Takes(st, new, o, c, p, d, give)
    <2> SUFFICES ASSUME NEW h \in Currencies
                 PROVE  (IF h = c THEN p ELSE 0) + (IF h = d THEN give ELSE 0)
                           = Has(st, h)[o] - Has(new, h)[o]
      BY DEF Takes
    <2>1. Has(st, h)[o] = (IF d = h THEN give ELSE 0) + (IF c = h THEN p ELSE 0)
      BY HasOf
    <2>2. Has(new, h)[o] = 0
      BY <1>12 DEF Has
    <2> HIDE DEF c, d
    <2> QED BY <1>4, <1>5, <2>1, <2>2
  <1>15. \A t \in Tokens : Frozen(st, t) => t # c /\ t # d
    BY NoFrozenCurrency
  <1>16. GoodOrder(new, o)
    BY <1>12, <1>13 DEF GoodOrder
  <1>17. \A k \in DataKeys \ {o} : new.data[k] = st.data[k]
    BY <1>9
  <1> HIDE DEF c, d
  <1>18. Good(new) /\ LockedStays(st, new) /\ FrozenStays(st, new)
    BY <1>4, <1>5, <1>9, <1>10, <1>11, <1>14, <1>15, <1>16, <1>17, OrderChanged
  <1>19. AllowedIn(new, [op |-> "ConcludeOrder", id |-> o, change |-> change])
    BY <1>12, <1>13 DEF AllowedIn
  <1> QED BY <1>1, <1>18, <1>19 DEF OpOK, new, change, OrderOps

\* An order is made: what it gives comes from holders.
LEMMA CreateOK ==
  ASSUME NEW st, Good(st), NEW o \in OrderIds, st.data[o] = NoData,
         NEW x \in OrderType, x.askCurrency # x.giveCurrency,
         \A t \in {x.askCurrency, x.giveCurrency} \ {Coin} : ~Frozen(st, t),
         NEW am,
         am = To("ask", o, x.ask) ++ To("give", o, x.give)
                ++ To("held", x.giveCurrency, -x.give),
         NEW del, del = DataOf(o, DataDelta(st.data[o], x))
  PROVE  Does(st, "CreateOrder", o, del, am)
  <1> DEFINE change == Change(del, am)
             new == Apply(st, change)
             c == x.askCurrency
             d == x.giveCurrency
             a == To("ask", o, x.ask)
             b == To("give", o, x.give)
             e == To("held", d, -x.give)
             z == NoAmounts
  <1>1. st \in StateSet /\ o \in DataKeys /\ GoodOrder(st, o) /\ x \in DataValues
    BY Keys DEF Good, DataValues
  <1>2. x.ask \in Nat /\ x.give \in Nat /\ x # NoData
    BY OrderFields
  <1>3. st.amounts[<<"ask", o>>] = 0 /\ st.amounts[<<"give", o>>] = 0
    BY <1>1 DEF GoodOrder
  <1>4. x.ask \in Int /\ x.give \in Int /\ -x.give \in Int
    BY <1>2
  <1>5. /\ a \in [AmountKeys -> Int] /\ \A k \in AmountKeys : a[k] = IF k = <<"ask", o>> THEN x.ask ELSE 0
        /\ b \in [AmountKeys -> Int] /\ \A k \in AmountKeys : b[k] = IF k = <<"give", o>> THEN x.give ELSE 0
        /\ e \in [AmountKeys -> Int] /\ \A k \in AmountKeys : e[k] = IF k = <<"held", d>> THEN -x.give ELSE 0
    BY <1>4, AddOne
  <1>6. am = (a ++ b) ++ e
    OBVIOUS
  <1> HIDE DEF a, b, e
  <1>7. am \in [AmountKeys -> Int] /\ \A k \in AmountKeys : am[k] = (a[k] + b[k]) + e[k]
    <2>1. a ++ b \in [AmountKeys -> Int] /\ \A k \in AmountKeys : (a ++ b)[k] = a[k] + b[k]
      BY <1>5, AddBoth
    <2> QED BY <1>5, <1>6, <2>1, AddBoth
  <1>8. IsNonce(o, z) /\ \A k \in AmountKeys : z[k] = 0
    BY AddNone DEF IsNonce
  <1>9. /\ change \in DeltaSet /\ Matches(st, change) /\ new \in StateSet
        /\ \A k \in DataKeys : new.data[k] = IF k = o THEN x ELSE st.data[k]
        /\ \A k \in AmountKeys : new.amounts[k] = st.amounts[k] + am[k]
    BY <1>1, <1>7, DataChange
  <1>10. SUFFICES ASSUME \A k \in AmountKeys : new.amounts[k] >= 0
             PROVE  OpOK(st, "CreateOrder", o, del, am)
    BY <1>9 DEF Does
  <1> HIDE DEF new, change, z
  <1>11. Adds(st, new, o, z, x.ask, x.give, c, 0, d, -x.give)
    <2> SUFFICES ASSUME NEW k \in AmountKeys
                 PROVE  new.amounts[k] = st.amounts[k] + ((((z[k] + (IF k = <<"ask", o>> THEN x.ask ELSE 0))
                         + (IF k = <<"give", o>> THEN x.give ELSE 0))
                         + (IF k = <<"held", c>> THEN 0 ELSE 0))
                         + (IF k = <<"held", d>> THEN -x.give ELSE 0))
      BY DEF Adds
    <2>1. /\ a[k] = IF k = <<"ask", o>> THEN x.ask ELSE 0
          /\ b[k] = IF k = <<"give", o>> THEN x.give ELSE 0
          /\ e[k] = IF k = <<"held", d>> THEN -x.give ELSE 0
          /\ a[k] \in Int /\ b[k] \in Int /\ e[k] \in Int
      BY <1>5
    <2>2. (a[k] + b[k]) + e[k] = (((0 + a[k]) + b[k]) + 0) + e[k]
      BY <2>1
    <2> QED BY <1>7, <1>8, <1>9, <2>1, <2>2
  <1>12. new.data[o] = x
    BY <1>1, <1>9
  <1>13. new.amounts[<<"ask", o>>] = x.ask /\ new.amounts[<<"give", o>>] = x.give
    <2>1. 0 \in Int
      OBVIOUS
    <2>2. /\ new.amounts[<<"ask", o>>] = st.amounts[<<"ask", o>>] + x.ask
          /\ new.amounts[<<"give", o>>] = st.amounts[<<"give", o>>] + x.give
      BY <1>4, <1>8, <1>9, <1>11, <2>1, OrderAmounts
    <2> QED BY <1>3, <1>4, <2>2
  <1>14. Takes(st, new, o, c, 0, d, -x.give)
    <2> SUFFICES ASSUME NEW h \in Currencies
                 PROVE  (IF h = c THEN 0 ELSE 0) + (IF h = d THEN -x.give ELSE 0)
                           = Has(st, h)[o] - Has(new, h)[o]
      BY DEF Takes
    <2>1. Has(st, h)[o] = 0
      BY DEF Has
    <2>2. Has(new, h)[o] = (IF d = h THEN x.give ELSE 0) + (IF c = h THEN x.ask - x.ask ELSE 0)
      BY <1>2, <1>12, <1>13, HasOf
    <2> HIDE DEF c, d
    <2> QED BY <1>4, <2>1, <2>2
  <1>15. \A t \in Tokens : Frozen(st, t) => t # c /\ t # d
    BY NoFrozenCurrency
  <1>16. GoodOrder(new, o)
    <2>1. AtPrice(x.ask, x.give, x.ask, x.give)
      BY <1>2 DEF AtPrice
    <2> QED BY <1>2, <1>12, <1>13, <2>1 DEF GoodOrder
  <1>17. \A k \in DataKeys \ {o} : new.data[k] = st.data[k]
    BY <1>9
  <1> HIDE DEF c, d
  <1>18. Good(new) /\ LockedStays(st, new) /\ FrozenStays(st, new)
    <2> DEFINE p == 0
               q == -x.give
               ask == x.ask
               give == x.give
    <2>1. new \in StateSet /\ IsNonce(o, z)
      BY <1>8, <1>9
    <2>2. /\ p \in Int /\ q \in Int /\ ask \in Int /\ give \in Int
          /\ Adds(st, new, o, z, ask, give, c, p, d, q) /\ Takes(st, new, o, c, p, d, q)
      BY <1>4, <1>11, <1>14
    <2> HIDE DEF p, q, ask, give
    <2> QED BY <1>10, <1>15, <1>16, <1>17, <2>1, <2>2, OrderChanged
  <1>19. AllowedIn(new, [op |-> "CreateOrder", id |-> o, change |-> change])
    BY <1>2, <1>12, <1>13 DEF AllowedIn
  <1> QED BY <1>1, <1>18, <1>19 DEF OpOK, new, change, OrderOps

\* An order is frozen.
LEMMA FreezeOK ==
  ASSUME NEW st, Good(st), NEW o \in OrderIds, NEW data, data = st.data[o], data # NoData,
         NEW x \in OrderType, x.ask = data.ask, x.give = data.give,
         x.askCurrency = data.askCurrency, x.giveCurrency = data.giveCurrency, NEW del, del = DataOf(o, DataDelta(data, x)),
         NEW am, am = NoAmounts
  PROVE  Does(st, "FreezeOrder", o, del, am)
  <1> DEFINE change == Change(del, am)
             new == Apply(st, change)
  <1>1. st \in StateSet /\ o \in DataKeys /\ GoodOrder(st, o)
    BY Keys DEF Good
  <1>4. x # NoData /\ x \in DataValues
    BY OrderFields DEF DataValues
  <1>5. /\ change \in DeltaSet /\ Matches(st, change) /\ new \in StateSet
        /\ \A k \in DataKeys : new.data[k] = IF k = o THEN x ELSE st.data[k]
        /\ \A k \in AmountKeys : new.amounts[k] = st.amounts[k] + am[k]
    <2>1. am \in [AmountKeys -> Int] /\ del = DataOf(o, DataDelta(st.data[o], x))
      BY AddNone
    <2> QED BY <1>1, <1>4, <2>1, DataChange
  <1>6. SUFFICES ASSUME \A k \in AmountKeys : new.amounts[k] >= 0
             PROVE  OpOK(st, "FreezeOrder", o, del, am)
    BY <1>5 DEF Does
  <1> HIDE DEF new, change
  <1>7. new.data[o] = x
    BY <1>1, <1>5
  <1>8. ASSUME NEW k \in AmountKeys PROVE new.amounts[k] = st.amounts[k]
    <2>1. st.amounts[k] \in Int
      BY <1>1 DEF StateSet
    <2> QED BY <1>5, <2>1, AddNone
  <1>9. ASSUME NEW h \in Currencies
        PROVE  new.amounts[<<"held", h>>] - st.amounts[<<"held", h>>] = Has(st, h)[o] - Has(new, h)[o]
    <2>1. new.amounts[<<"held", h>>] = st.amounts[<<"held", h>>]
          /\ new.amounts[<<"ask", o>>] = st.amounts[<<"ask", o>>]
          /\ new.amounts[<<"give", o>>] = st.amounts[<<"give", o>>]
      BY <1>8, Keys
    <2>2. Has(new, h)[o] = Has(st, h)[o]
      BY <1>4, <1>7, <2>1 DEF Has
    <2>3. Has(st, h)[o] \in Int
      <3>1. \A b \in OrderIds : GoodOrder(st, b)
        BY DEF Good
      <3> QED BY <1>1, <3>1, HasType
    <2>4. st.amounts[<<"held", h>>] \in Int
      BY <1>1, AmountTypes
    <2> QED BY <2>1, <2>2, <2>3, <2>4
  <1>10. GoodOrder(new, o)
    <2>1. new.amounts[<<"ask", o>>] = st.amounts[<<"ask", o>>]
          /\ new.amounts[<<"give", o>>] = st.amounts[<<"give", o>>]
      BY <1>8, Keys
    <2> QED BY <1>1, <1>4, <1>7, <2>1 DEF GoodOrder
  <1>11. \A k \in DataKeys \ {o} : new.data[k] = st.data[k]
    BY <1>5
  <1>12. /\ \A b \in OrderIds \ {o} : /\ new.amounts[<<"ask", b>>] = st.amounts[<<"ask", b>>]
                                      /\ new.amounts[<<"give", b>>] = st.amounts[<<"give", b>>]
         /\ \A t \in Tokens : new.amounts[<<"supply", t>>] = st.amounts[<<"supply", t>>]
         /\ \A t \in Tokens : Frozen(st, t) => new.amounts[<<"held", t>>] = st.amounts[<<"held", t>>]
    BY <1>8, Keys
  <1>13. Good(new) /\ LockedStays(st, new) /\ FrozenStays(st, new)
    BY <1>5, <1>6, <1>9, <1>10, <1>11, <1>12, OrderOp
  <1>14. AllowedIn(new, [op |-> "FreezeOrder", id |-> o, change |-> change])
    BY <1>4, <1>7 DEF AllowedIn
  <1> QED BY <1>1, <1>13, <1>14 DEF OpOK, new, change, OrderOps
----------------------------------------------------------------------------
(* The invariant. *)

\* No operations, and one more.
LEMMA LinkedNone ==
  ASSUME NEW s \in StateSet
  PROVE  Linked(s, <<>>, s)
  <1> DEFINE w == [i \in {0} |-> s]
  <1>1. Through(s, <<>>, s, w)
    BY DEF Through
  <1>2. LockedStays(s, s)
    BY DEF LockedStays
  <1>3. <<>> \in Seq(UndoSet)
    OBVIOUS
  <1> QED BY <1>1, <1>2, <1>3 DEF Linked

LEMMA LinkedMore ==
  ASSUME NEW s, NEW us, NEW t, Linked(s, us, t), NEW u \in UndoSet, NEW new \in StateSet,
         Step(t, u, new), LockedStays(t, new)
  PROVE  Linked(s, Append(us, u), new)
  <1> DEFINE n == Len(us)
             vs == Append(us, u)
  <1>1. us \in Seq(UndoSet) /\ n \in Nat
    BY DEF Linked
  <1>2. PICK w : Through(s, us, t, w)
    BY DEF Linked
  <1> DEFINE x == [i \in 0 .. (n + 1) |-> IF i <= n THEN w[i] ELSE new]
  <1>3. vs \in Seq(UndoSet) /\ Len(vs) = n + 1 /\ vs[n + 1] = u /\ \A i \in 1 .. n : vs[i] = us[i]
    BY <1>1
  <1>4. /\ w[0] = s /\ w[n] = t
        /\ \A i \in 1 .. n : Step(w[i - 1], us[i], w[i])
        /\ \A i \in 0 .. n : w[i] \in StateSet
    BY <1>2 DEF Through
  <1>5. x[n + 1] = new /\ \A i \in 0 .. n : x[i] = w[i]
    BY <1>1
  <1> HIDE DEF x, n, vs
  <1>6. x[0] = s /\ x[n + 1] = new
    BY <1>1, <1>4, <1>5
  <1>7. ASSUME NEW i \in 1 .. (n + 1)
        PROVE  Step(x[i - 1], vs[i], x[i])
    <2>1. CASE i = n + 1
      <3>1. i - 1 = n /\ n \in 0 .. n
        BY <1>1, <2>1
      <3>2. x[i - 1] = t /\ vs[i] = u /\ x[i] = new
        BY <1>3, <1>4, <1>5, <2>1, <3>1
      <3> QED BY <3>2
    <2>2. CASE i # n + 1
      <3>1. i \in 1 .. n /\ i \in 0 .. n /\ i - 1 \in 0 .. n
        BY <1>1, <2>2
      <3> QED BY <1>3, <1>4, <1>5, <3>1
    <2> QED BY <2>1, <2>2
  <1>8. ASSUME NEW i \in 0 .. (n + 1)
        PROVE  x[i] \in StateSet
    <2>1. CASE i = n + 1
      BY <1>5, <2>1
    <2>2. CASE i # n + 1
      <3>1. i \in 0 .. n
        BY <1>1, <2>2
      <3> QED BY <1>4, <1>5, <3>1
    <2> QED BY <2>1, <2>2
  <1>9. Through(s, vs, new, x)
    BY <1>3, <1>6, <1>7, <1>8 DEF Through
  <1>10. LockedStays(s, new)
    BY DEF Linked, LockedStays
  <1> QED BY <1>3, <1>9, <1>10 DEF Linked, vs

\* The blocks: each leads from the database that is saved with it to the next one.
AfterBlock(i) == IF i = Len(chain) THEN accounts ELSE saved[i + 1]

Blocks ==
  /\ chain \in Seq(Seq(UndoSet)) /\ saved \in Seq(StateSet) /\ Len(saved) = Len(chain)
  /\ \A i \in 1 .. Len(chain) : Good(saved[i]) /\ Linked(saved[i], chain[i], AfterBlock(i))

\* Every state is good, and the operations of the verifier and of the blocks lead from one
\* to the next.
TokensInv ==
  /\ Good(accounts) /\ Good(View(verifier))
  /\ verifier \in VerifierSet
  /\ Reads(verifier, View(verifier))
  /\ Linked(accounts, verifier.undos, View(verifier))
  /\ Blocks

\* An operation that fits keeps the invariant.
LEMMA Operated ==
  ASSUME TokensInv, NEW op, NEW id, NEW data, NEW am,
         Does(View(verifier), op, id, data, am),
         Operate(Operation(verifier, op, id, data, am))
  PROVE  /\ TokensInv'
         /\ LockedStays(View(verifier), View(verifier)')
         /\ FrozenStays(View(verifier), View(verifier)')
  <1> DEFINE change == Change(data, am)
             u == [op |-> op, id |-> id, change |-> change]
             d == Merge(verifier.delta, change)
             v == Operation(verifier, op, id, data, am)
             st == View(verifier)
             new == Apply(st, change)
  <1>1. /\ accounts \in StateSet /\ verifier.delta \in DeltaSet /\ ~verifier.failed
        /\ Matches(accounts, verifier.delta) /\ st = Apply(accounts, verifier.delta)
        /\ verifier.undos \in Seq(UndoSet)
        /\ st \in StateSet
    BY DEF TokensInv, Good, Reads, View, VerifierSet
  <1>2. change \in DeltaSet /\ Matches(st, change)
    BY DEF Does
  <1> HIDE DEF change
  <1>3. d \in DeltaSet /\ Mergeable(verifier.delta, change) /\ Matches(accounts, d) /\ Apply(accounts, d) = new
    BY <1>1, <1>2, MergeIsApplyBoth
  <1>4. v = [delta |-> d, undos |-> Append(verifier.undos, u), failed |-> FALSE]
    <2>1. v = [delta |-> d, undos |-> Append(verifier.undos, u),
               failed |-> verifier.failed \/ ~Mergeable(verifier.delta, change)]
      BY DEF Operation, Change, change
    <2> HIDE DEF d, u
    <2> QED BY <1>1, <1>3, <2>1
  <1> HIDE DEF d, u
  <1>5. v.delta = d /\ v.undos = Append(verifier.undos, u) /\ ~v.failed
    BY <1>4
  <1>6. /\ \A k \in AmountKeys : View(v).amounts[k] >= 0
        /\ verifier' = v /\ accounts' = accounts /\ chain' = chain /\ saved' = saved
    BY DEF Operate
  <1>7. View(v) = new
    BY <1>3, <1>5 DEF View
  <1>8. OpOK(st, op, id, data, am)
    BY <1>6, <1>7 DEF Does, change
  <1>9. /\ op \in TokenOps \cup OrderOps /\ id \in DataKeys
        /\ AllowedIn(new, u) /\ Good(new) /\ LockedStays(st, new) /\ FrozenStays(st, new)
    BY <1>8 DEF OpOK, u, change
  <1>10. u \in UndoSet /\ u.change = change
    BY <1>2, <1>9 DEF UndoSet, u
  <1>11. Step(st, u, new)
    BY <1>2, <1>9, <1>10 DEF Step
  <1>12. new \in StateSet
    BY <1>9 DEF Good
  <1>13. Linked(accounts, verifier.undos, st)
    BY DEF TokensInv
  <1> HIDE DEF st, new
  <1>14. Linked(accounts, v.undos, new)
    BY <1>5, <1>9, <1>10, <1>11, <1>12, <1>13, LinkedMore
  <1>15. v \in VerifierSet
    <2>1. Append(verifier.undos, u) \in Seq(UndoSet)
      BY <1>1, <1>10
    <2> QED BY <1>3, <1>4, <2>1 DEF VerifierSet
  <1> HIDE DEF v
  <1>16. View(verifier)' = new
    BY <1>6, <1>7 DEF View
  <1>17. Reads(verifier, View(verifier))'
    BY <1>3, <1>5, <1>6 DEF Reads
  <1>18. Blocks'
    BY <1>6 DEF TokensInv, Blocks, AfterBlock
  <1>19. TokensInv'
    BY <1>6, <1>9, <1>14, <1>15, <1>16, <1>17, <1>18 DEF TokensInv
  <1> QED BY <1>9, <1>16, <1>19 DEF st

\* What a step of the verifier keeps.
Kept ==
  /\ TokensInv'
  /\ LockedStays(View(verifier), View(verifier)')
  /\ FrozenStays(View(verifier), View(verifier)')

\* A token is issued, or its data changed.
LEMMA TokenChanged ==
  ASSUME TokensInv, NEW t \in Tokens, NEW x \in TokenType, NEW op, NEW am, IsNonce(t, am),
         op \in {"IssueToken", "LockSupply", "FreezeToken", "UnfreezeToken", "ChangeToken"},
         x.locked => x.supply.kind = "Lockable",
         Exists(verifier, t) /\ GetData(verifier, t).locked => x.locked,
         op = "LockSupply" => x.locked,
         op = "FreezeToken" => IsFrozen(x),
         op \in {"UnfreezeToken", "ChangeToken"} => ~IsFrozen(x),
         Operate(Operation(verifier, op, t, Changed(verifier, t, x), am))
  PROVE  Kept
  <1>1. PICK st : st = View(verifier)
    OBVIOUS
  <1>2. PICK data : data = Changed(verifier, t, x)
    OBVIOUS
  <1>3. data = DataOf(t, DataDelta(st.data[t], x)) /\ Good(st)
        /\ (st.data[t] # NoData /\ st.data[t].locked => x.locked)
    BY <1>1, <1>2 DEF Changed, GetData, TokensInv, Exists
  <1>4. Does(st, op, t, data, am)
    BY <1>3, TokenDataOp
  <1> QED BY <1>1, <1>2, <1>4, Operated DEF Kept

\* The data of a token that is there.
LEMMA TokenThere ==
  ASSUME TokensInv, NEW t \in Tokens, Exists(verifier, t)
  PROVE  /\ GetData(verifier, t) \in TokenType
         /\ GetData(verifier, t).locked => GetData(verifier, t).supply.kind = "Lockable"
  <1>1. GoodToken(View(verifier), t)
    BY DEF TokensInv, Good
  <1>2. GetData(verifier, t) \in {NoData} \cup TokenType /\ GetData(verifier, t) # NoData
    BY <1>1 DEF GoodToken, GetData, Exists
  <1>3. GetData(verifier, t).locked => GetData(verifier, t).supply.kind = "Lockable"
    BY <1>1 DEF GoodToken, GetData, Exists, Locked
  <1> QED BY <1>2, <1>3

LEMMA IssueTokenStep ==
  ASSUME TokensInv, NEW t \in Tokens, NEW s \in Supplies, NEW f \in {"NotFreezable", "Freezable"},
         NEW a \in Authorities, IssueToken(t, s, f, a)
  PROVE  Kept
  <1> DEFINE x == [supply |-> s, locked |-> FALSE, frozen |-> f, authority |-> a]
  <1>1. /\ ~Exists(verifier, t)
        /\ Operate(Operation(verifier, "IssueToken", t, Changed(verifier, t, x), NoAmounts))
    BY DEF IssueToken
  <1>2. x \in TokenType /\ x.locked = FALSE
    BY DEF TokenType, FrozenStates
  <1>3. IsNonce(t, NoAmounts)
    BY Nonces
  <1> HIDE DEF x
  <1> QED BY <1>1, <1>2, <1>3, TokenChanged

LEMMA LockTokenSupplyStep ==
  ASSUME TokensInv, NEW t \in Tokens, LockTokenSupply(t)
  PROVE  Kept
  <1> DEFINE d == GetData(verifier, t)
             x == [d EXCEPT !.locked = TRUE]
  <1>1. /\ Exists(verifier, t) /\ d.supply.kind = "Lockable"
        /\ Operate(Operation(verifier, "LockSupply", t, Changed(verifier, t, x), Spend(t)))
    BY DEF LockTokenSupply, ChangeToken
  <1>2. d \in TokenType
    BY <1>1, TokenThere
  <1>3. x \in TokenType /\ x.locked = TRUE /\ x.supply = d.supply
    BY <1>2 DEF TokenType
  <1>4. IsNonce(t, Spend(t))
    BY Nonces
  <1> HIDE DEF x
  <1> QED BY <1>1, <1>3, <1>4, TokenChanged

LEMMA FreezeTokenStep ==
  ASSUME TokensInv, NEW t \in Tokens, NEW how, FreezeToken(t, how)
  PROVE  Kept
  <1> DEFINE d == GetData(verifier, t)
             x == [d EXCEPT !.frozen = how]
  <1>1. /\ Exists(verifier, t) /\ how \in {"Unfreezable", "ForGood"}
        /\ Operate(Operation(verifier, "FreezeToken", t, Changed(verifier, t, x), Spend(t)))
    BY DEF FreezeToken, ChangeToken
  <1>2. d \in TokenType /\ (d.locked => d.supply.kind = "Lockable")
    BY <1>1, TokenThere
  <1>3. x \in TokenType /\ x.locked = d.locked /\ x.supply = d.supply /\ x.frozen = how
    BY <1>1, <1>2 DEF TokenType, FrozenStates
  <1>4. IsFrozen(x)
    BY <1>1, <1>3 DEF IsFrozen
  <1>5. IsNonce(t, Spend(t))
    BY Nonces
  <1> HIDE DEF x
  <1> QED BY <1>1, <1>2, <1>3, <1>4, <1>5, TokenChanged

LEMMA UnfreezeTokenStep ==
  ASSUME TokensInv, NEW t \in Tokens, UnfreezeToken(t)
  PROVE  Kept
  <1> DEFINE d == GetData(verifier, t)
             x == [d EXCEPT !.frozen = "Freezable"]
  <1>1. /\ Exists(verifier, t)
        /\ Operate(Operation(verifier, "UnfreezeToken", t, Changed(verifier, t, x), Spend(t)))
    BY DEF UnfreezeToken, ChangeToken
  <1>2. d \in TokenType /\ (d.locked => d.supply.kind = "Lockable")
    BY <1>1, TokenThere
  <1>3. x \in TokenType /\ x.locked = d.locked /\ x.supply = d.supply /\ x.frozen = "Freezable"
    BY <1>2 DEF TokenType, FrozenStates
  <1>4. ~IsFrozen(x)
    BY <1>3 DEF IsFrozen
  <1>5. IsNonce(t, Spend(t))
    BY Nonces
  <1> HIDE DEF x
  <1> QED BY <1>1, <1>2, <1>3, <1>4, <1>5, TokenChanged

LEMMA ChangeTokenAuthorityStep ==
  ASSUME TokensInv, NEW t \in Tokens, NEW a \in Authorities, ChangeTokenAuthority(t, a)
  PROVE  Kept
  <1> DEFINE d == GetData(verifier, t)
             x == [d EXCEPT !.authority = a]
  <1>1. /\ Exists(verifier, t) /\ ~IsFrozen(d)
        /\ Operate(Operation(verifier, "ChangeToken", t, Changed(verifier, t, x), Spend(t)))
    BY DEF ChangeTokenAuthority, ChangeToken
  <1>2. d \in TokenType /\ (d.locked => d.supply.kind = "Lockable")
    BY <1>1, TokenThere
  <1>3. x \in TokenType /\ x.locked = d.locked /\ x.supply = d.supply /\ x.frozen = d.frozen
    BY <1>2 DEF TokenType
  <1>4. ~IsFrozen(x)
    BY <1>1, <1>3 DEF IsFrozen
  <1>5. IsNonce(t, Spend(t))
    BY Nonces
  <1> HIDE DEF x
  <1> QED BY <1>1, <1>2, <1>3, <1>4, <1>5, TokenChanged

\* Tokens are minted, or unminted.
LEMMA TokenMinted ==
  ASSUME TokensInv, NEW t \in Tokens, NEW n \in Int, NEW op \in {"MintTokens", "UnmintTokens"},
         Exists(verifier, t), ~GetData(verifier, t).locked, ~IsFrozen(GetData(verifier, t)),
         Operate(Operation(verifier, op, t, NoDataDelta,
                   Spend(t) ++ To("supply", t, n) ++ To("held", t, n)))
  PROVE  Kept
  <1>1. PICK st : st = View(verifier)
    OBVIOUS
  <1>2. PICK am : am = Spend(t) ++ To("supply", t, n) ++ To("held", t, n)
    OBVIOUS
  <1>3. Good(st) /\ st.data[t] # NoData /\ ~st.data[t].locked /\ ~IsFrozen(st.data[t])
    BY <1>1 DEF GetData, TokensInv, Exists
  <1>4. Does(st, op, t, NoDataDelta, am)
    BY <1>2, <1>3, TokenAmountOp
  <1> QED BY <1>1, <1>2, <1>4, Operated DEF Kept

LEMMA MintTokensStep ==
  ASSUME TokensInv, NEW t \in Tokens, NEW amount \in Amounts, MintTokens(t, amount)
  PROVE  Kept
  <1>1. /\ Exists(verifier, t) /\ ~IsFrozen(GetData(verifier, t))
        /\ GetData(verifier, t).supply.kind = "Lockable" => ~GetData(verifier, t).locked
        /\ Operate(Operation(verifier, "MintTokens", t, NoDataDelta,
             Spend(t) ++ To("supply", t, amount) ++ To("held", t, amount)))
    BY DEF MintTokens
  <1>2. ~GetData(verifier, t).locked
    BY <1>1, TokenThere
  <1>3. amount \in Int
    BY TokensOrdersAssumption
  <1> QED BY <1>1, <1>2, <1>3, TokenMinted

LEMMA UnmintTokensStep ==
  ASSUME TokensInv, NEW t \in Tokens, NEW amount \in Amounts, UnmintTokens(t, amount)
  PROVE  Kept
  <1>1. /\ Exists(verifier, t) /\ ~IsFrozen(GetData(verifier, t)) /\ ~GetData(verifier, t).locked
        /\ Operate(Operation(verifier, "UnmintTokens", t, NoDataDelta,
             Spend(t) ++ To("supply", t, -amount) ++ To("held", t, -amount)))
    BY DEF UnmintTokens
  <1>2. amount \in Int
    BY TokensOrdersAssumption
  <1>3. PICK n : n = -amount /\ n \in Int
    BY <1>2
  <1> QED BY <1>1, <1>3, TokenMinted

LEMMA CreateOrderStep ==
  ASSUME TokensInv, NEW o \in OrderIds, NEW offer \in Offers, CreateOrder(o, offer)
  PROVE  Kept
  <1> DEFINE x == [ask |-> offer.ask, give |-> offer.give, askCurrency |-> offer.askCurrency,
                   giveCurrency |-> offer.giveCurrency, frozen |-> FALSE]
  <1>1. PICK st : st = View(verifier)
    OBVIOUS
  <1>2. PICK am : am = To("ask", o, offer.ask) ++ To("give", o, offer.give)
                         ++ To("held", offer.giveCurrency, -offer.give)
    OBVIOUS
  <1>3. PICK del : del = Changed(verifier, o, x)
    OBVIOUS
  <1>4. /\ ~Exists(verifier, o)
        /\ \A c \in {offer.askCurrency, offer.giveCurrency} \ {Coin} : ~TokenFrozen(verifier, c)
        /\ Operate(Operation(verifier, "CreateOrder", o, del, am))
    BY <1>2, <1>3 DEF CreateOrder
  <1>5. offer \in OfferType /\ offer.askCurrency # offer.giveCurrency
    BY TokensOrdersAssumption
  <1>6. /\ x \in OrderType /\ x.ask = offer.ask /\ x.give = offer.give
        /\ x.askCurrency = offer.askCurrency /\ x.giveCurrency = offer.giveCurrency
    BY <1>5 DEF OrderType, OfferType
  <1> HIDE DEF x
  <1>7. Good(st) /\ st.data[o] = NoData /\ del = DataOf(o, DataDelta(st.data[o], x))
    BY <1>1, <1>3, <1>4 DEF TokensInv, Exists, GetData, Changed
  <1>8. \A t \in {x.askCurrency, x.giveCurrency} \ {Coin} : ~Frozen(st, t)
    BY <1>1, <1>4, <1>6 DEF TokenFrozen, Exists, GetData, Frozen
  <1>9. am = To("ask", o, x.ask) ++ To("give", o, x.give) ++ To("held", x.giveCurrency, -x.give)
    BY <1>2, <1>6
  <1>10. Does(st, "CreateOrder", o, del, am)
    BY <1>5, <1>6, <1>7, <1>8, <1>9, CreateOK
  <1> QED BY <1>1, <1>4, <1>10, Operated DEF Kept

LEMMA FillOrderStep ==
  ASSUME TokensInv, NEW o \in OrderIds, NEW fill \in Amounts, FillOrder(o, fill)
  PROVE  Kept
  <1>1. PICK st : st = View(verifier)
    OBVIOUS
  <1>2. PICK data : data = GetData(verifier, o)
    OBVIOUS
  <1>3. PICK filled : filled = Filled(verifier, o, fill)
    OBVIOUS
  <1>4. PICK z : z = SpendOrder(o)
    OBVIOUS
  <1>5. PICK am : am = z ++ To("ask", o, -fill) ++ To("give", o, -filled)
                         ++ To("held", data.askCurrency, -fill)
                         ++ To("held", data.giveCurrency, filled)
    OBVIOUS
  <1>6. PICK ask, give : ask = st.amounts[<<"ask", o>>] /\ give = st.amounts[<<"give", o>>]
    OBVIOUS
  <1>7. /\ data # NoData /\ NotFrozen(verifier, o)
        /\ GetAmount(verifier, "ask", o) >= fill
        /\ Operate(Operation(verifier, "FillOrder", o, NoDataDelta, am))
    BY <1>2, <1>3, <1>4, <1>5 DEF FillOrder, Exists
  <1>8. Good(st) /\ data = st.data[o]
    BY <1>1, <1>2 DEF TokensInv, GetData
  <1>9. \A t \in {data.askCurrency, data.giveCurrency} \ {Coin} : ~Frozen(st, t)
    BY <1>1, <1>2, <1>7 DEF NotFrozen, CurrenciesOf, TokenFrozen, Exists, GetData, Frozen
  <1>10. fill \in Nat /\ fill > 0
    BY TokensOrdersAssumption
  <1>11. fill <= ask
    <2>1. ask \in Int
      <3>1. st \in StateSet
        BY <1>8 DEF Good
      <3> QED BY <1>6, <3>1, AmountTypes
    <2>2. ask >= fill
      BY <1>1, <1>6, <1>7 DEF GetAmount
    <2> QED BY <1>10, <2>1, <2>2
  <1>12. filled = FilledAmount(ask, give, fill) \/ filled = FilledAmount(data.ask, data.give, fill)
    BY <1>1, <1>2, <1>3, <1>6 DEF Filled, GetAmount
  <1>13. IsNonce(o, z)
    BY <1>4, Nonces DEF SpendOrder
  <1>14. Does(st, "FillOrder", o, NoDataDelta, am)
    BY <1>5, <1>6, <1>7, <1>8, <1>9, <1>10, <1>11, <1>12, <1>13, FillOK
  <1> QED BY <1>1, <1>7, <1>14, Operated DEF Kept

LEMMA ConcludeOrderStep ==
  ASSUME TokensInv, NEW o \in OrderIds, ConcludeOrder(o)
  PROVE  Kept
  <1>1. PICK st : st = View(verifier)
    OBVIOUS
  <1>2. PICK data : data = GetData(verifier, o)
    OBVIOUS
  <1>3. PICK ask, give : ask = GetAmount(verifier, "ask", o) /\ give = GetAmount(verifier, "give", o)
    OBVIOUS
  <1>4. PICK z : z = SpendOrder(o)
    OBVIOUS
  <1>5. PICK p : p = Proceeds(verifier, o)
    OBVIOUS
  <1>6. PICK am : am = z ++ To("ask", o, -ask) ++ To("give", o, -give)
                         ++ To("held", data.askCurrency, p) ++ To("held", data.giveCurrency, give)
    OBVIOUS
  <1>7. PICK del : del = Changed(verifier, o, NoData)
    OBVIOUS
  <1>8. /\ data # NoData /\ NotFrozen(verifier, o)
        /\ Operate(Operation(verifier, "ConcludeOrder", o, del, am))
    BY <1>2, <1>3, <1>4, <1>5, <1>6, <1>7 DEF ConcludeOrder, Exists
  <1>9. /\ Good(st) /\ data = st.data[o]
        /\ ask = st.amounts[<<"ask", o>>] /\ give = st.amounts[<<"give", o>>]
        /\ p = data.ask - ask /\ del = DataOf(o, DataDelta(data, NoData))
    BY <1>1, <1>2, <1>3, <1>5, <1>7 DEF TokensInv, GetData, GetAmount, Proceeds, Changed
  <1>10. \A t \in {data.askCurrency, data.giveCurrency} \ {Coin} : ~Frozen(st, t)
    BY <1>1, <1>2, <1>8 DEF NotFrozen, CurrenciesOf, TokenFrozen, Exists, GetData, Frozen
  <1>11. IsNonce(o, z)
    BY <1>4, Nonces DEF SpendOrder
  <1>12. Does(st, "ConcludeOrder", o, del, am)
    BY <1>6, <1>8, <1>9, <1>10, <1>11, ConcludeOK
  <1> QED BY <1>1, <1>8, <1>12, Operated DEF Kept

LEMMA FreezeOrderStep ==
  ASSUME TokensInv, NEW o \in OrderIds, FreezeOrder(o)
  PROVE  Kept
  <1>1. PICK st : st = View(verifier)
    OBVIOUS
  <1>2. PICK data : data = GetData(verifier, o)
    OBVIOUS
  <1>3. PICK x : x = [data EXCEPT !.frozen = TRUE]
    OBVIOUS
  <1>4. PICK del : del = Changed(verifier, o, x)
    OBVIOUS
  <1>5. data # NoData /\ Operate(Operation(verifier, "FreezeOrder", o, del, NoAmounts))
    BY <1>2, <1>3, <1>4 DEF FreezeOrder, Exists
  <1>6. Good(st) /\ data = st.data[o] /\ del = DataOf(o, DataDelta(data, x)) /\ GoodOrder(st, o)
    BY <1>1, <1>2, <1>4 DEF TokensInv, GetData, Changed, Good
  <1>7. data \in OrderType
    <2>1. data \in {NoData} \cup OrderType
      BY <1>6 DEF GoodOrder
    <2> QED BY <1>5, <2>1
  <1>8. /\ x \in OrderType /\ x.ask = data.ask /\ x.give = data.give
        /\ x.askCurrency = data.askCurrency /\ x.giveCurrency = data.giveCurrency
    BY <1>3, <1>7 DEF OrderType
  <1>9. Does(st, "FreezeOrder", o, del, NoAmounts)
    <2>1. data # NoData
      BY <1>5
    <2> QED BY <1>6, <1>8, <2>1, FreezeOK
  <1> QED BY <1>1, <1>5, <1>9, Operated DEF Kept

\* What a verifier reads that can be flushed.
LEMMA ReadsApplies ==
  ASSUME accounts \in StateSet, NEW v, NEW st, Reads(v, st), Good(st)
  PROVE  Applies(accounts, v.delta) /\ ~v.failed /\ Apply(accounts, v.delta) = st
  <1>1. v.delta \in DeltaSet /\ ~v.failed /\ Matches(accounts, v.delta) /\ Apply(accounts, v.delta) = st
    BY DEF Reads, View
  <1>2. ASSUME NEW k \in DOMAIN accounts.amounts
        PROVE  accounts.amounts[k] + v.delta.amounts[k] >= 0
    <2>1. k \in AmountKeys
      BY DEF StateSet
    <2>2. st.amounts[k] = accounts.amounts[k] + v.delta.amounts[k]
      BY <1>1, <2>1, ApplyType
    <2> QED BY <2>1, <2>2 DEF Good
  <1>3. Applies(accounts, v.delta)
    BY <1>1, <1>2 DEF Applies, Matches, DataMatches
  <1> QED BY <1>1, <1>3

\* It becomes the database, and the verifier is a new one.
LEMMA Flushed ==
  ASSUME accounts \in StateSet, NEW v, NEW st, Reads(v, st), Good(st), Flush(v)
  PROVE  accounts' = st /\ verifier' = NewVerifier
  <1>1. Applies(accounts, v.delta) /\ ~v.failed /\ Apply(accounts, v.delta) = st
    BY ReadsApplies
  <1>2. verifier' = [NewVerifier EXCEPT !.failed = FALSE]
    BY <1>1 DEF Flush
  <1>3. NewVerifier = [delta |-> NewVerifier.delta, undos |-> <<>>, failed |-> FALSE]
    BY NewChanges
  <1>4. verifier' = NewVerifier
    BY <1>2, <1>3
  <1> QED BY <1>1, <1>4 DEF Flush

\* With a new verifier the invariant is about the database and the blocks only.
LEMMA NewInv ==
  ASSUME NEW st, Good(st), accounts = st, verifier = NewVerifier, Blocks
  PROVE  TokensInv /\ View(verifier) = st
  <1>1. st \in StateSet
    BY DEF Good
  <1>2. Reads(NewVerifier, accounts) /\ NewVerifier \in VerifierSet /\ NewVerifier.undos = <<>>
    BY <1>1, NewReads
  <1>3. View(verifier) = st
    BY <1>2 DEF Reads
  <1>4. Linked(st, <<>>, st)
    BY <1>1, LinkedNone
  <1> QED BY <1>2, <1>3, <1>4 DEF TokensInv

LEMMA NewInvNext ==
  ASSUME NEW st, Good(st), accounts' = st, verifier' = NewVerifier, Blocks'
  PROVE  TokensInv' /\ View(verifier)' = st
  <1>1. st \in StateSet
    BY DEF Good
  <1>2. /\ NewVerifier \in VerifierSet /\ NewVerifier.undos = <<>> /\ ~NewVerifier.failed
        /\ NewVerifier.delta \in DeltaSet
        /\ Matches(st, NewVerifier.delta) /\ Apply(st, NewVerifier.delta) = st
    BY <1>1, NewChanges
  <1>3. View(verifier)' = st
    BY <1>2 DEF View
  <1>4. Linked(st, <<>>, st)
    BY <1>1, LinkedNone
  <1>5. Reads(verifier, View(verifier))'
    BY <1>2, <1>3 DEF Reads
  <1> QED BY <1>2, <1>3, <1>4, <1>5 DEF TokensInv

LEMMA ConnectBlockStep ==
  ASSUME TokensInv, ConnectBlock
  PROVE  TokensInv' /\ View(verifier)' = View(verifier)
  <1>1. PICK st : st = View(verifier)
    OBVIOUS
  <1>2. PICK n : n = Len(chain)
    OBVIOUS
  <1>3. Good(accounts) /\ Good(st) /\ accounts \in StateSet /\ Reads(verifier, st)
        /\ Linked(accounts, verifier.undos, st) /\ Blocks /\ verifier.undos \in Seq(UndoSet)
    BY <1>1 DEF TokensInv, Good, VerifierSet
  <1>4. accounts' = st /\ verifier' = NewVerifier
    BY <1>3, Flushed DEF ConnectBlock
  <1>5. chain' = Append(chain, verifier.undos) /\ saved' = Append(saved, accounts)
    BY DEF ConnectBlock
  <1>6. chain \in Seq(Seq(UndoSet)) /\ saved \in Seq(StateSet) /\ Len(saved) = n /\ n \in Nat
    BY <1>2, <1>3 DEF Blocks
  <1>7. /\ chain' \in Seq(Seq(UndoSet)) /\ saved' \in Seq(StateSet)
        /\ Len(chain') = n + 1 /\ Len(saved') = n + 1
        /\ chain'[n + 1] = verifier.undos /\ saved'[n + 1] = accounts
        /\ \A i \in 1 .. n : chain'[i] = chain[i] /\ saved'[i] = saved[i]
    BY <1>2, <1>3, <1>5, <1>6
  <1>8. ASSUME NEW i \in 1 .. (n + 1)
        PROVE  Good(saved'[i]) /\ Linked(saved'[i], chain'[i], AfterBlock(i)')
    <2>1. CASE i = n + 1
      <3>1. AfterBlock(i)' = st
        BY <1>4, <1>7, <2>1 DEF AfterBlock
      <3> QED BY <1>3, <1>7, <2>1, <3>1
    <2>2. CASE i # n + 1
      <3>1. i \in 1 .. n
        BY <1>6, <2>2
      <3>2. Good(saved[i]) /\ Linked(saved[i], chain[i], AfterBlock(i))
        BY <1>2, <1>3, <3>1 DEF Blocks
      <3>3. AfterBlock(i)' = saved'[i + 1]
        BY <1>7, <2>2 DEF AfterBlock
      <3>4. AfterBlock(i) = saved'[i + 1]
        <4>1. CASE i = n
          BY <1>2, <1>7, <4>1 DEF AfterBlock
        <4>2. CASE i # n
          <5>1. i + 1 \in 1 .. n
            BY <1>6, <3>1, <4>2
          <5> QED BY <1>2, <1>7, <4>2, <5>1 DEF AfterBlock
        <4> QED BY <4>1, <4>2
      <3> QED BY <1>7, <3>1, <3>2, <3>3, <3>4
    <2> QED BY <2>1, <2>2
  <1>9. Blocks'
    BY <1>7, <1>8 DEF Blocks
  <1> QED BY <1>1, <1>3, <1>4, <1>9, NewInvNext

LEMMA AbandonBlockStep ==
  ASSUME TokensInv, AbandonBlock
  PROVE  TokensInv' /\ LockedStays(View(verifier)', View(verifier)) /\ chain' = chain
         /\ verifier'.undos = <<>>
  <1>1. Good(accounts) /\ Blocks /\ Linked(accounts, verifier.undos, View(verifier)) /\ accounts \in StateSet
    BY DEF TokensInv, Good
  <1>2. verifier' = NewVerifier /\ accounts' = accounts /\ chain' = chain /\ saved' = saved
    BY DEF AbandonBlock
  <1>3. Blocks'
    BY <1>1, <1>2 DEF Blocks, AfterBlock
  <1>4. PICK st : st = accounts
    OBVIOUS
  <1>5. TokensInv' /\ View(verifier)' = st
    BY <1>1, <1>2, <1>3, <1>4, NewInvNext
  <1>6. verifier'.undos = <<>>
    BY <1>1, <1>2, NewChanges
  <1> QED BY <1>1, <1>2, <1>4, <1>5, <1>6 DEF Linked

\* The last block, and the others.
LEMMA LastBlock ==
  ASSUME Blocks, chain # <<>>
  PROVE  LET n == Len(chain)
         IN  /\ n \in Nat /\ n >= 1
             /\ Last(chain) = chain[n] /\ Last(saved) = saved[n]
             /\ Good(saved[n]) /\ Linked(saved[n], chain[n], accounts)
             /\ Front(chain) \in Seq(Seq(UndoSet)) /\ Front(saved) \in Seq(StateSet)
             /\ Len(Front(chain)) = n - 1 /\ Len(Front(saved)) = n - 1
             /\ \A i \in 1 .. (n - 1) : Front(chain)[i] = chain[i] /\ Front(saved)[i] = saved[i]
  <1> DEFINE n == Len(chain)
  <1>1. chain \in Seq(Seq(UndoSet)) /\ saved \in Seq(StateSet) /\ Len(saved) = n
    BY DEF Blocks
  <1>2. n \in Nat /\ n >= 1
    BY <1>1
  <1>3. Last(chain) = chain[n] /\ Last(saved) = saved[n]
    BY <1>1 DEF Last
  <1>4. n \in 1 .. n
    BY <1>2
  <1>5. Good(saved[n]) /\ Linked(saved[n], chain[n], accounts)
    BY <1>4 DEF Blocks, AfterBlock
  <1>6. /\ Front(chain) \in Seq(Seq(UndoSet)) /\ Len(Front(chain)) = n - 1
        /\ \A i \in 1 .. (n - 1) : Front(chain)[i] = chain[i]
    BY <1>1, <1>2 DEF Front
  <1>7. /\ Front(saved) \in Seq(StateSet) /\ Len(Front(saved)) = n - 1
        /\ \A i \in 1 .. (n - 1) : Front(saved)[i] = saved[i]
    BY <1>1, <1>2 DEF Front
  <1> QED BY <1>2, <1>3, <1>5, <1>6, <1>7

LEMMA DisconnectBlockStep ==
  ASSUME TokensInv, DisconnectBlock
  PROVE  TokensInv' /\ LockedStays(View(verifier)', View(verifier))
         /\ verifier'.undos = <<>>
  <1>1. PICK n : n = Len(chain)
    OBVIOUS
  <1>2. /\ Blocks /\ chain # <<>> /\ verifier.undos = <<>> /\ accounts \in StateSet
        /\ Linked(accounts, verifier.undos, View(verifier))
    BY DEF TokensInv, DisconnectBlock, Good
  <1>3. /\ n \in Nat /\ n >= 1 /\ Last(chain) = chain[n]
        /\ Good(saved[n]) /\ Linked(saved[n], chain[n], accounts)
        /\ Front(chain) \in Seq(Seq(UndoSet)) /\ Front(saved) \in Seq(StateSet)
        /\ Len(Front(chain)) = n - 1 /\ Len(Front(saved)) = n - 1
        /\ \A i \in 1 .. (n - 1) : Front(chain)[i] = chain[i] /\ Front(saved)[i] = saved[i]
    BY <1>1, <1>2, LastBlock
  <1>4. PICK s : s = saved[n]
    OBVIOUS
  <1>5. Good(s) /\ s \in StateSet /\ Linked(s, chain[n], accounts)
    BY <1>3, <1>4 DEF Good
  <1>6. Reads(Disconnected(chain[n]), s)
    BY <1>2, <1>5, BlockTakenBack
  <1>7. Flush(Disconnected(chain[n])) /\ chain' = Front(chain) /\ saved' = Front(saved)
    BY <1>3 DEF DisconnectBlock
  <1>8. accounts' = s /\ verifier' = NewVerifier
    BY <1>2, <1>5, <1>6, <1>7, Flushed
  <1>9. ASSUME NEW i \in 1 .. (n - 1)
        PROVE  Good(saved'[i]) /\ Linked(saved'[i], chain'[i], AfterBlock(i)')
    <2>1. i \in 1 .. n /\ i + 1 \in 1 .. n /\ i # n
      BY <1>3
    <2>2. Good(saved[i]) /\ Linked(saved[i], chain[i], saved[i + 1])
      BY <1>1, <1>2, <2>1 DEF Blocks, AfterBlock
    <2>3. AfterBlock(i)' = saved[i + 1]
      <3>1. Len(chain') = n - 1
        BY <1>3, <1>7
      <3>2. CASE i = n - 1
        <4>1. i + 1 = n
          BY <1>3, <3>2
        <4> QED BY <1>4, <1>8, <3>1, <3>2, <4>1 DEF AfterBlock
      <3>3. CASE i # n - 1
        <4>1. i + 1 \in 1 .. (n - 1)
          BY <1>3, <3>3
        <4>2. saved'[i + 1] = saved[i + 1]
          BY <1>3, <1>7, <4>1
        <4> QED BY <3>1, <3>3, <4>2 DEF AfterBlock
      <3> QED BY <3>2, <3>3
    <2> QED BY <1>3, <1>7, <2>2, <2>3
  <1>10. Blocks'
    BY <1>3, <1>7, <1>9 DEF Blocks
  <1>11. TokensInv' /\ View(verifier)' = s
    BY <1>5, <1>8, <1>10, NewInvNext
  <1>12. View(verifier) = accounts
    <2>1. PICK w : Through(accounts, <<>>, View(verifier), w)
      BY <1>2 DEF Linked
    <2> QED BY <2>1 DEF Through
  <1>13. verifier'.undos = <<>>
    BY <1>5, <1>8, NewChanges
  <1> QED BY <1>5, <1>11, <1>12, <1>13 DEF Linked

\* The first state.
LEMMA TokensInitInv ==
  ASSUME TokensInit
  PROVE  TokensInv
  <1> DEFINE data == [k \in DataKeys |-> NoData]
             am == To("held", Coin, Coins)
  <1>1. PICK st : st = accounts
    OBVIOUS
  <1>2. st = [data |-> data, amounts |-> am] /\ verifier = NewVerifier /\ chain = <<>> /\ saved = <<>>
    BY <1>1 DEF TokensInit
  <1>3. Coins \in Int /\ Coins >= 0 /\ IsFiniteSet(OrderIds) /\ Coin \notin Tokens
    BY TokensOrdersAssumption
  <1>4. /\ am \in [AmountKeys -> Int]
        /\ \A k \in AmountKeys : am[k] = IF k = <<"held", Coin>> THEN Coins ELSE 0
    BY <1>3, AddOne
  <1>5. data \in [DataKeys -> DataValues]
    BY DEF DataValues
  <1> HIDE DEF am
  <1>6. st \in StateSet
    BY <1>2, <1>4, <1>5 DEF StateSet
  <1>7. /\ \A k \in DataKeys : st.data[k] = NoData
        /\ \A k \in AmountKeys : st.amounts[k] = IF k = <<"held", Coin>> THEN Coins ELSE 0
    BY <1>2, <1>4
  <1>8. \A k \in AmountKeys : st.amounts[k] >= 0
    BY <1>3, <1>7
  <1>9. \A t \in Tokens : GoodToken(st, t)
    BY <1>7, Keys DEF GoodToken, Locked
  <1>10. ASSUME NEW o \in OrderIds PROVE GoodOrder(st, o)
    <2>1. st.data[o] = NoData /\ st.amounts[<<"ask", o>>] = 0 /\ st.amounts[<<"give", o>>] = 0
      BY <1>7, Keys
    <2> QED BY <2>1 DEF GoodOrder
  <1>11. ASSUME NEW c PROVE SumFunction(Has(st, c)) = 0
    <2>1. DOMAIN Has(st, c) = OrderIds /\ \A o \in OrderIds : Has(st, c)[o] = 0
      BY <1>7, Keys DEF Has
    <2> QED BY <1>3, <2>1, SumOfZeros
  <1>12. Balanced(st)
    <2>1. \A t \in Tokens : st.amounts[<<"supply", t>>] = 0 /\ st.amounts[<<"held", t>>] = 0
      BY <1>3, <1>7, Keys
    <2>2. st.amounts[<<"held", Coin>>] = Coins
      BY <1>7, Keys DEF Currencies
    <2> QED BY <1>3, <1>11, <2>1, <2>2 DEF Balanced
  <1>13. Good(st)
    BY <1>6, <1>8, <1>9, <1>10, <1>12 DEF Good
  <1>14. Blocks
    BY <1>2 DEF Blocks
  <1> QED BY <1>1, <1>2, <1>13, <1>14, NewInv

LEMMA TokenCommandStep ==
  ASSUME TokensInv, NEW t \in Tokens, TokenCommand(t)
  PROVE  Kept
  BY IssueTokenStep, MintTokensStep, UnmintTokensStep, LockTokenSupplyStep, FreezeTokenStep,
     UnfreezeTokenStep, ChangeTokenAuthorityStep DEF TokenCommand

LEMMA OrderCommandStep ==
  ASSUME TokensInv, NEW o \in OrderIds, OrderCommand(o)
  PROVE  Kept
  BY CreateOrderStep, FillOrderStep, ConcludeOrderStep, FreezeOrderStep DEF OrderCommand

\* A step that changes nothing.
LEMMA TokensStutter ==
  ASSUME TokensInv, UNCHANGED tokensVars
  PROVE  TokensInv' /\ View(verifier)' = View(verifier) /\ chain' = chain /\ verifier' = verifier
  <1>1. accounts' = accounts /\ verifier' = verifier /\ chain' = chain /\ saved' = saved
    BY DEF tokensVars
  <1>2. View(verifier)' = View(verifier)
    BY <1>1 DEF View
  <1>3. Blocks'
    BY <1>1 DEF TokensInv, Blocks, AfterBlock
  <1>4. Reads(verifier, View(verifier))'
    BY <1>1, <1>2 DEF TokensInv, Reads
  <1> QED BY <1>1, <1>2, <1>3, <1>4 DEF TokensInv

\* Every reachable state of the accounting is good: whatever operations, blocks and
\* disconnected blocks led to it.
THEOREM TokensInvariant == TokensSpec => []TokensInv
  <1>1. TokensInit => TokensInv
    BY TokensInitInv
  <1>2. TokensInv /\ [TokensNext]_tokensVars => TokensInv'
    <2> SUFFICES ASSUME TokensInv, [TokensNext]_tokensVars PROVE TokensInv'
      OBVIOUS
    <2>1. ASSUME NEW t \in Tokens, TokenCommand(t) PROVE TokensInv'
      BY <2>1, TokenCommandStep DEF Kept
    <2>2. ASSUME NEW o \in OrderIds, OrderCommand(o) PROVE TokensInv'
      BY <2>2, OrderCommandStep DEF Kept
    <2>3. CASE ConnectBlock
      BY <2>3, ConnectBlockStep
    <2>4. CASE AbandonBlock
      BY <2>4, AbandonBlockStep
    <2>5. CASE DisconnectBlock
      BY <2>5, DisconnectBlockStep
    <2>6. CASE UNCHANGED tokensVars
      BY <2>6, TokensStutter
    <2> QED BY <2>1, <2>2, <2>3, <2>4, <2>5, <2>6 DEF TokensNext
  <1> QED BY <1>1, <1>2, PTL DEF TokensSpec

\* What OrdersAreFair says of the verifier is what Good says of the state it reads.
LEMMA GoodIsFair ==
  ASSUME TokensInv
  PROVE  OrdersAreFair
  <1>1. PICK st : st = View(verifier)
    OBVIOUS
  <1>2. /\ Good(accounts) /\ Good(st) /\ verifier \in VerifierSet /\ Reads(verifier, st) /\ Blocks
    BY <1>1 DEF TokensInv
  <1>3. ASSUME NEW s, Good(s)
        PROVE  s.amounts \in [AmountKeys -> Nat]
    <2>1. s.amounts \in [AmountKeys -> Int] /\ \A k \in AmountKeys : s.amounts[k] >= 0
      BY <1>3 DEF Good, StateSet
    <2> QED BY <2>1
  <1>4. TokensTypeOK
    <2>1. View(verifier).amounts \in [AmountKeys -> Nat] /\ accounts.amounts \in [AmountKeys -> Nat]
      BY <1>1, <1>2, <1>3
    <2>2. \A t \in Tokens : GetData(verifier, t) \in {NoData} \cup TokenType
      BY <1>1, <1>2 DEF Good, GoodToken, GetData
    <2>3. \A o \in OrderIds : GetData(verifier, o) \in {NoData} \cup OrderType
      BY <1>1, <1>2 DEF Good, GoodOrder, GetData
    <2>4. verifier.failed \in BOOLEAN
      BY <1>2 DEF VerifierSet
    <2>5. Len(saved) = Len(chain)
      BY <1>2 DEF Blocks
    <2> QED BY <2>1, <2>2, <2>3, <2>4, <2>5 DEF TokensTypeOK
  <1>5. NeverFails
    BY <1>2 DEF Reads, NeverFails
  <1>6. Conserved
    <2>1. ASSUME NEW c PROVE InOrders(verifier, c) = SumFunction(Has(st, c))
      BY <1>1 DEF InOrders, Has, Exists, GetData, GetAmount
    <2>2. Balanced(st)
      BY <1>2 DEF Good
    <2>3. ASSUME NEW kind, NEW id PROVE GetAmount(verifier, kind, id) = st.amounts[<<kind, id>>]
      BY <1>1 DEF GetAmount
    <2> QED BY <2>1, <2>2, <2>3 DEF Conserved, Balanced
  <1>7. SoldAtPrice
    BY <1>1, <1>2 DEF Good, GoodOrder, AtPrice, SoldAtPrice, Exists, GetData, GetAmount
  <1> QED BY <1>4, <1>5, <1>6, <1>7 DEF OrdersAreFair

\* No operation or undo that cannot fail reports an error, no amount is negative, orders
\* neither make nor lose money, and none is sold under its price: for every number of
\* tokens, orders, operations and blocks, and wherever the fork to version 1 is.
THEOREM OrdersFair == TokensSpec => []OrdersAreFair
  <1>1. TokensInv => OrdersAreFair
    BY GoodIsFair
  <1> QED BY <1>1, TokensInvariant, PTL

\* The last block can always be undone, and undoing it gives back the database it was
\* connected to.
THEOREM BlockCanBeUndone == TokensSpec => []LastBlockCanBeUndone
  <1>1. TokensInv => LastBlockCanBeUndone
    <2> SUFFICES ASSUME TokensInv, chain # <<>>
                 PROVE  LET v == Disconnected(Last(chain))
                        IN  /\ ~v.failed
                            /\ Applies(accounts, v.delta)
                            /\ Apply(accounts, v.delta) = Last(saved)
      BY DEF LastBlockCanBeUndone
    <2>1. PICK us, s : us = Last(chain) /\ s = Last(saved)
      OBVIOUS
    <2>2. Blocks /\ accounts \in StateSet
      BY DEF TokensInv, Good
    <2>3. Good(s) /\ s \in StateSet /\ Linked(s, us, accounts)
      BY <2>1, <2>2, LastBlock DEF Good
    <2>4. PICK v : v = Disconnected(us)
      OBVIOUS
    <2>5. Reads(v, s)
      BY <2>2, <2>3, <2>4, BlockTakenBack
    <2>6. Applies(accounts, v.delta) /\ ~v.failed /\ Apply(accounts, v.delta) = s
      BY <2>2, <2>3, <2>5, ReadsApplies
    <2> QED BY <2>1, <2>4, <2>6
  <1> QED BY <1>1, TokensInvariant, PTL

\* A locked supply never changes, and a frozen token is not moved by the next transaction.
THEOREM RestrictedTokensStay == TokensSpec => RestrictedStays
  <1>1. TokensInv /\ [TokensNext]_tokensVars =>
          [\A t \in Tokens :
             /\ TokenLocked(verifier, t) /\ TokenLocked(verifier, t)'
                => GetAmount(verifier, "supply", t)' = GetAmount(verifier, "supply", t)
             /\ /\ chain' = chain
                /\ Len(verifier'.undos) > Len(verifier.undos)
                /\ TokenFrozen(verifier, t)
                => /\ GetAmount(verifier, "supply", t)' = GetAmount(verifier, "supply", t)
                   /\ GetAmount(verifier, "held", t)' = GetAmount(verifier, "held", t)]_tokensVars
    <2> SUFFICES ASSUME TokensInv, TokensNext, NEW t \in Tokens
                 PROVE  /\ TokenLocked(verifier, t) /\ TokenLocked(verifier, t)'
                           => GetAmount(verifier, "supply", t)' = GetAmount(verifier, "supply", t)
                        /\ /\ chain' = chain
                           /\ Len(verifier'.undos) > Len(verifier.undos)
                           /\ TokenFrozen(verifier, t)
                           => /\ GetAmount(verifier, "supply", t)' = GetAmount(verifier, "supply", t)
                              /\ GetAmount(verifier, "held", t)' = GetAmount(verifier, "held", t)
      OBVIOUS
    <2>1. PICK s, n : s = View(verifier) /\ n = View(verifier)'
      OBVIOUS
    <2>2. /\ TokenLocked(verifier, t) <=> Locked(s, t)
          /\ TokenLocked(verifier, t)' <=> Locked(n, t)
          /\ TokenFrozen(verifier, t) <=> Frozen(s, t)
      BY <2>1 DEF TokenLocked, TokenFrozen, Locked, Frozen, Exists, GetData
    <2>3. \A kind : /\ GetAmount(verifier, kind, t) = s.amounts[<<kind, t>>]
                    /\ GetAmount(verifier, kind, t)' = n.amounts[<<kind, t>>]
      BY <2>1 DEF GetAmount
    <2> SUFFICES /\ Locked(s, t) /\ Locked(n, t) => n.amounts[<<"supply", t>>] = s.amounts[<<"supply", t>>]
                 /\ chain' = chain /\ Len(verifier'.undos) > Len(verifier.undos) /\ Frozen(s, t)
                    => /\ n.amounts[<<"supply", t>>] = s.amounts[<<"supply", t>>]
                       /\ n.amounts[<<"held", t>>] = s.amounts[<<"held", t>>]
      BY <2>2, <2>3
    <2>4. verifier.undos \in Seq(UndoSet)
      BY DEF TokensInv, VerifierSet
    <2>5. CASE Kept
      BY <2>1, <2>5 DEF Kept, LockedStays, FrozenStays
    <2>6. CASE ConnectBlock
      <3>1. n = s
        BY <2>1, <2>6, ConnectBlockStep
      <3>2. chain' # chain
        <4>1. chain \in Seq(Seq(UndoSet)) /\ chain' = Append(chain, verifier.undos)
          BY <2>6 DEF TokensInv, Blocks, ConnectBlock
        <4>2. Len(chain') = Len(chain) + 1 /\ Len(chain) \in Nat
          BY <2>4, <4>1
        <4> QED BY <4>2
      <3> QED BY <3>1
    <2>7. CASE AbandonBlock \/ DisconnectBlock
      <3>1. LockedStays(n, s) /\ verifier'.undos = <<>>
        BY <2>1, <2>7, AbandonBlockStep, DisconnectBlockStep
      <3>2. ~(Len(verifier'.undos) > Len(verifier.undos))
        BY <2>4, <3>1
      <3>3. Locked(n, t) => n.amounts[<<"supply", t>>] = s.amounts[<<"supply", t>>]
        BY <3>1 DEF LockedStays
      <3> QED BY <3>2, <3>3
    <2> QED BY <2>5, <2>6, <2>7, TokenCommandStep, OrderCommandStep DEF TokensNext
  <1> QED BY <1>1, TokensInvariant, PTL DEF TokensSpec, RestrictedStays
=============================================================================
