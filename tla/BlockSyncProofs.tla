--------------------------- MODULE BlockSyncProofs ---------------------------
(***************************************************************************)
(* HonestPeersNotBlamed and EndsAgree for any tree of blocks, any network  *)
(* and any limits.  The invariant SyncInv looks at one direction of a      *)
(* connection at a time: n loads blocks from p.  What n has asked for, what *)
(* p has queued and what is on its way are parts of one list (Accounted),  *)
(* and the headers on their way start at a block that n has or that comes  *)
(* before them (Lists).                                                    *)
(***************************************************************************)
EXTENDS BlockSync, TLAPS, FiniteSetTheorems, WellFoundedInduction

-----------------------------------------------------------------------------
(***************************************************************************)
(* The invariant                                                           *)
(***************************************************************************)

\* Each block is the child of the one before it, and the first one of a block in K.
Linked(q) == \A i \in 2 .. Len(q) : Parent[q[i]] = q[i - 1]
Chained(q, K) == q \in Seq(Block) /\ Linked(q) /\ (q # <<>> => Parent[q[1]] \in K)

Within(q, L) == \A i \in 1 .. Len(q) : q[i] \in L
Elements(q) == {q[i] : i \in 1 .. Len(q)}

\* The blocks on their way in c before position i.
Before(c, i) == {c[j].block : j \in {k \in 1 .. Len(c) : k < i /\ c[k].type = "BlockResponse"}}
Coming(c) == Before(c, Len(c) + 1)

\* Locators on their way from a node that has the blocks K.
Locators(a, K) == \A i \in 1 .. Len(a) : a[i].type = "HeaderListRequest" => a[i].locator \subseteq K

\* Headers from a node that has the blocks L.
GoodHeaders(headers, L, off) ==
  /\ headers \in Seq(Block) /\ Len(headers) <= HeaderLimit /\ Linked(headers) /\ Within(headers, L)
  /\ headers # <<>> => ~off

Connects(headers, K) == headers # <<>> => Parent[headers[1]] \in K

\* Headers on their way to a node that has the blocks K from one that has L.
Lists(c, K, L, off) ==
  \A i \in 1 .. Len(c) : c[i].type = "HeaderList" =>
    GoodHeaders(c[i].headers, L, off) /\ Connects(c[i].headers, K \cup Before(c, i))

\* What the first node has requested from the second one or is about to request.
Wanted(s, K, L, off) ==
  /\ Chained(s.requested, K) /\ Within(s.requested, L) /\ Len(s.requested) <= BlockLimit
  /\ Chained(s.pending, K \cup Elements(s.requested)) /\ Within(s.pending, L)
  /\ s.requested # <<>> \/ s.pending # <<>> => ~off
  /\ s.requested # <<>> => s.expectsBlocks

NoRequest(a) == \A i \in 1 .. Len(a) : a[i].type # "BlockListRequest"
OneRequest(a, ids) ==
  \E i \in 1 .. Len(a) : /\ a[i].type = "BlockListRequest" /\ a[i].ids = ids
                         /\ \A j \in (1 .. Len(a)) \ {i} : a[j].type # "BlockListRequest"

\* The request is on its way; or it is in the queue and the blocks are on their way; or it was
\* refused as a duplicate.
Asked(requested, queue, a, c) ==
  requested # <<>> /\ OneRequest(a, requested) /\ Carries(c, <<>>) /\ queue = <<>>
Served(requested, queue, a, c) ==
  NoRequest(a) /\ \E bs \in Seq(Block) : Carries(c, bs) /\ requested = bs \o queue
Refused(requested, queue, a, c) ==
  requested # <<>> /\ NoRequest(a) /\ Carries(c, <<>>) /\ queue = <<>>

Accounted(requested, queue, a, c, dup) ==
  \/ Asked(requested, queue, a, c)
  \/ Served(requested, queue, a, c)
  \/ dup /\ Refused(requested, queue, a, c)

\* The best block that was sent to a node that has the blocks K.
SentTo(best, c, K) == best = NoBlock \/ best \in K \/ best \in Coming(c)

\* The best block that both have.
BothHave(best, K, L) == best = NoBlock \/ (best \in K /\ best \in L)

\* The second node has told the first one that there is no more, or will be asked.
Asks(sentAll, requested, a, c) ==
  \/ sentAll
  \/ requested # <<>>
  \/ \E i \in 1 .. Len(a) : a[i].type = "HeaderListRequest"
  \/ \E i \in 1 .. Len(c) : c[i].type = "HeaderList" /\ Len(c[i].headers) = HeaderLimit

\* A node with the blocks K and the manager s loads from one with L and q: a is on its way to the
\* second node and c to the first one.  The second one is in initial block download if off, and
\* was blamed if dup.
Loads(K, L, s, q, a, c, off, dup, ask) ==
  /\ Locators(a, K)
  /\ Lists(c, K, L, off)
  /\ Wanted(s, K, L, off)
  /\ Accounted(s.requested, q.queue, a, c, dup)
  /\ SentTo(q.bestSent, c, K)
  /\ BothHave(s.peersBest, K, L)
  /\ ask => Asks(q.sentAll, s.requested, a, c)

Duplicates == "DuplicatedBlockRequest" \in errors

Direction(n, p) ==
  Loads(known[n], known[p], sync[n][p], sync[p][n], chan[n][p], chan[p][n],
        p \in ibd, Duplicates, IsUp(n, p) /\ p \notin network.inIbd)

SyncInv ==
  /\ network \in Networks
  /\ TypeOK
  /\ errors \subseteq {"DuplicatedBlockRequest"}
  /\ ibd \subseteq network.inIbd
  /\ \A n, p \in Node : {n, p} \in Links => Direction(n, p)

\* Every set of numbers has a least element.
LEMMA LeastNat ==
  ASSUME NEW S \in SUBSET Nat, S # {}
  PROVE  \E m \in S : \A n \in S : m <= n
  <1> DEFINE R == OpToRel(<, Nat)
  <1>1. IsWellFoundedOn(R, Nat)
    BY NatLessThanWellFounded
  <1>2. \A x, y \in Nat : x < y => <<x, y>> \in R
    BY DEF OpToRel
  <1> HIDE DEF R
  <1>3. PICK m \in S : \A n \in S : ~(<<n, m>> \in R)
    BY <1>1, WFMin
  <1>4. \A n \in S : ~(n < m)
    BY <1>2, <1>3, Zenon
  <1>5. m \in Nat /\ S \subseteq Nat
    OBVIOUS
  <1> QED BY <1>4, <1>5

-----------------------------------------------------------------------------
(***************************************************************************)
(* The tree                                                                *)
(***************************************************************************)

\* The largest number of a bounded set.
LEMMA MaxIs ==
  ASSUME NEW N \in Nat, NEW hs \in SUBSET (0 .. N), hs # {}
  PROVE  MaxHeight(hs) \in hs /\ \A k \in hs : k <= MaxHeight(hs)
  <1> DEFINE T == {N - h : h \in hs}
  <1>1. T \in SUBSET Nat /\ T # {}
    <2>1. PICK h \in hs : TRUE
      OBVIOUS
    <2>2. N - h \in T
      OBVIOUS
    <2>3. \A k \in hs : N - k \in Nat
      OBVIOUS
    <2> QED BY <2>2, <2>3
  <1> HIDE DEF T
  <1>2. PICK m \in T : \A k \in T : m <= k
    BY <1>1, LeastNat
  <1> USE DEF T
  <1>3. PICK h \in hs : m = N - h
    OBVIOUS
  <1>4. ASSUME NEW k \in hs PROVE k <= h
    <2>1. m <= N - k
      BY <1>2
    <2> QED BY <1>3, <2>1
  <1> QED BY <1>4 DEF MaxHeight

\* A set of blocks with all their ancestors.
Closed(K) == K \subseteq GenBlock /\ \A b \in K \ {Genesis} : Parent[b] \in K

LEMMA AncestorsIn ==
  ASSUME NEW K, Closed(K), NEW b \in K, NEW h \in 0 .. Height[b]
  PROVE  Ancestor[b][h] \in K
  <1> DEFINE T == {k \in Nat : k <= Height[b] /\ Ancestor[b][Height[b] - k] \notin K}
  <1>1. b \in GenBlock /\ Height[b] \in Nat
    BY TreeAssumption DEF Closed
  <1>2. Ancestor[b] \in [0 .. Height[b] -> GenBlock] /\ Ancestor[b][Height[b]] = b
    BY <1>1, AncestorAssumption
  <1>3. T = {}
    <2> SUFFICES ASSUME T # {} PROVE FALSE
      OBVIOUS
    <2>1. T \in SUBSET Nat
      OBVIOUS
    <2> HIDE DEF T
    <2>2. PICK m \in T : \A k \in T : m <= k
      BY <2>1, LeastNat
    <2> USE DEF T
    <2>3. m # 0
      BY <1>1, <1>2
    <2>4. PICK g : g = Height[b] - (m - 1)
      OBVIOUS
    <2>5. g \in 0 .. Height[b] /\ g > 0 /\ g - 1 = Height[b] - m /\ m - 1 \in Nat /\ m - 1 <= Height[b]
      BY <1>1, <2>3, <2>4
    <2>6. Ancestor[b][g] \in K
      BY <2>2, <2>4, <2>5
    <2>7. Ancestor[b][g] \in Block /\ Parent[Ancestor[b][g]] = Ancestor[b][g - 1]
      BY <1>1, <2>5, AncestorAssumption
    <2>8. Ancestor[b][g] # Genesis
      BY <2>7, TreeAssumption
    <2>9. Ancestor[b][g - 1] \in K
      BY <2>6, <2>7, <2>8 DEF Closed
    <2> QED BY <2>5, <2>9
  <1>4. PICK k : k = Height[b] - h
    OBVIOUS
  <1>5. k \in Nat /\ k <= Height[b] /\ h = Height[b] - k
    BY <1>1, <1>4
  <1> QED BY <1>3, <1>5

\* The headers above a block of the chain.
HeadersFrom(hs, t, h) ==
  /\ hs \in Seq(Block) /\ Len(hs) <= HeaderLimit /\ Linked(hs)
  /\ \A i \in 1 .. Len(hs) : \E k \in 0 .. Height[t] : hs[i] = Ancestor[t][k]
  /\ hs # <<>> => Parent[hs[1]] = Ancestor[t][h]
  /\ hs = <<>> => h = Height[t]

LEMMA HeadersIs ==
  ASSUME NEW t \in GenBlock, NEW h \in 0 .. Height[t], HeaderLimit \in Nat \ {0}
  PROVE  HeadersFrom(HeadersAbove(t, h), t, h)
  <1>1. PICK limit : limit = IF h + HeaderLimit < Height[t] THEN h + HeaderLimit ELSE Height[t]
    OBVIOUS
  <1>2. PICK hs : hs = HeadersAbove(t, h)
    OBVIOUS
  <1>3. Height[t] \in Nat
    BY TreeAssumption
  <1>4. PICK n : n = limit - h
    OBVIOUS
  <1>5. /\ n \in Nat /\ n <= HeaderLimit /\ h + n <= Height[t]
        /\ n = 0 => h = Height[t]
    BY <1>1, <1>3, <1>4
  <1>6. hs = [i \in 1 .. n |-> Ancestor[t][h + i]]
    BY <1>1, <1>2, <1>4 DEF HeadersAbove
  <1>7. ASSUME NEW i \in 1 .. n
        PROVE  /\ h + i \in 0 .. Height[t] /\ h + i > 0
               /\ hs[i] = Ancestor[t][h + i] /\ hs[i] \in Block
               /\ Parent[hs[i]] = Ancestor[t][(h + i) - 1]
    <2>1. h + i \in 0 .. Height[t] /\ h + i > 0
      BY <1>3, <1>5
    <2> QED BY <1>6, <2>1, AncestorAssumption
  <1>8. hs \in Seq(Block) /\ Len(hs) = n
    <2>1. \A i \in 1 .. n : Ancestor[t][h + i] \in Block
      BY <1>7
    <2>2. hs \in [1 .. n -> Block]
      BY <1>6, <2>1
    <2> QED BY <1>5, <2>2
  <1>9. Linked(hs)
    <2> SUFFICES ASSUME NEW i \in 2 .. n PROVE Parent[hs[i]] = hs[i - 1]
      BY <1>8 DEF Linked
    <2>1. i \in 1 .. n /\ i - 1 \in 1 .. n /\ (h + i) - 1 = h + (i - 1)
      BY <1>5
    <2> QED BY <1>7, <2>1
  <1>10. hs # <<>> => Parent[hs[1]] = Ancestor[t][h]
    <2> SUFFICES ASSUME hs # <<>> PROVE Parent[hs[1]] = Ancestor[t][h]
      OBVIOUS
    <2>1. 1 \in 1 .. n /\ (h + 1) - 1 = h
      BY <1>5, <1>8
    <2> QED BY <1>7, <2>1
  <1>11. hs = <<>> => h = Height[t]
    BY <1>5, <1>8
  <1>12. \A i \in 1 .. Len(hs) : \E k \in 0 .. Height[t] : hs[i] = Ancestor[t][k]
    BY <1>7, <1>8
  <1> QED BY <1>2, <1>5, <1>8, <1>9, <1>10, <1>11, <1>12 DEF HeadersFrom

\* A good list of headers, from the chain of the tip.
LEMMA HeadersGood ==
  ASSUME NEW L, Closed(L), NEW t \in L, NEW h \in 0 .. Height[t], HeaderLimit \in Nat \ {0}, NEW off, ~off,
         NEW hs, HeadersFrom(hs, t, h)
  PROVE  GoodHeaders(hs, L, off)
  <1>1. Within(hs, L)
    BY AncestorsIn DEF HeadersFrom, Within
  <1> QED BY <1>1 DEF HeadersFrom, GoodHeaders

\* Where the headers for a locator start.
LEMMA LocatorFits ==
  ASSUME NEW t \in GenBlock, NEW locator \in SUBSET GenBlock, NEW K, locator \subseteq K, Genesis \in K,
         NEW hs, hs = HeadersByLocator(t, locator), HeaderLimit \in Nat \ {0}
  PROVE  \E h \in 0 .. Height[t] : HeadersFrom(hs, t, h) /\ Ancestor[t][h] \in K
  <1> DEFINE S == {0} \cup {Height[b] : b \in {c \in locator : InMainChain(c, t)}}
  <1>1. Height[t] \in Nat /\ Ancestor[t][0] = Genesis
    BY TreeAssumption, AncestorAssumption
  <1>2. \A b \in locator : InMainChain(b, t) => Height[b] \in 0 .. Height[t] /\ Ancestor[t][Height[b]] = b
    BY TreeAssumption DEF InMainChain, IsAncestorOrSelf
  <1>3. S \in SUBSET (0 .. Height[t]) /\ S # {}
    BY <1>1, <1>2
  <1>4. PICK h : h = MaxHeight(S)
    OBVIOUS
  <1>5. hs = HeadersAbove(t, h)
    BY <1>4 DEF HeadersByLocator
  <1> HIDE DEF S
  <1>6. h \in S
    BY <1>1, <1>3, <1>4, MaxIs
  <1> USE DEF S
  <1>7. h \in 0 .. Height[t] /\ Ancestor[t][h] \in K
    BY <1>1, <1>2, <1>6
  <1> QED BY <1>5, <1>7, HeadersIs

\* Where the headers of an announcement start.
LEMMA ForkFits ==
  ASSUME NEW t \in GenBlock, NEW K, Closed(K), Genesis \in K, NEW bs \in SUBSET K,
         NEW hs, hs = HeadersSinceFork(t, bs), HeaderLimit \in Nat \ {0}
  PROVE  \E h \in 0 .. Height[t] : HeadersFrom(hs, t, h) /\ Ancestor[t][h] \in K
  <1> DEFINE S == {0} \cup {LastCommonHeight(b, t) : b \in bs}
  <1>1. Height[t] \in Nat /\ Ancestor[t][0] = Genesis
    BY TreeAssumption, AncestorAssumption
  <1>2. ASSUME NEW b \in bs
        PROVE  /\ LastCommonHeight(b, t) \in 0 .. Height[t]
               /\ LastCommonHeight(b, t) \in 0 .. Height[b]
               /\ Ancestor[b][LastCommonHeight(b, t)] = Ancestor[t][LastCommonHeight(b, t)]
    <2> DEFINE T == {h \in 0 .. Height[b] : h \leq Height[t] /\ Ancestor[b][h] = Ancestor[t][h]}
    <2>1. b \in GenBlock /\ Height[b] \in Nat /\ Ancestor[b][0] = Genesis
      BY TreeAssumption, AncestorAssumption DEF Closed
    <2>2. 0 \in T /\ T \in SUBSET (0 .. Height[b])
      BY <1>1, <2>1
    <2>3. LastCommonHeight(b, t) = MaxHeight(T)
      BY DEF LastCommonHeight
    <2> HIDE DEF T
    <2>4. MaxHeight(T) \in T
      BY <2>1, <2>2, MaxIs
    <2> USE DEF T
    <2> QED BY <1>1, <2>3, <2>4
  <1>3. S \in SUBSET (0 .. Height[t]) /\ S # {}
    BY <1>1, <1>2
  <1>4. PICK h : h = MaxHeight(S)
    OBVIOUS
  <1>5. hs = HeadersAbove(t, h)
    BY <1>4 DEF HeadersSinceFork
  <1> HIDE DEF S
  <1>6. h \in S
    BY <1>1, <1>3, <1>4, MaxIs
  <1> USE DEF S
  <1>7. h \in 0 .. Height[t] /\ Ancestor[t][h] \in K
    <2>1. CASE h = 0
      BY <1>1, <2>1
    <2>2. CASE \E b \in bs : h = LastCommonHeight(b, t)
      BY <1>2, <2>2, AncestorsIn
    <2> QED BY <1>6, <2>1, <2>2
  <1> QED BY <1>5, <1>7, HeadersIs

\* A locator lists blocks that the node has.
LEMMA LocatorIn ==
  ASSUME NEW K, Closed(K), NEW t \in K
  PROVE  Locator(t) \subseteq K /\ Locator(t) \subseteq GenBlock
  <1>1. \A h \in 0 .. Height[t] : Ancestor[t][h] \in K
    BY AncestorsIn
  <1> QED BY <1>1 DEF Locator, Closed

LEMMA GenesisIn ==
  ASSUME NEW K, Closed(K), NEW t \in K
  PROVE  Genesis \in K
  <1>1. t \in GenBlock
    BY DEF Closed
  <1>2. 0 \in 0 .. Height[t] /\ Ancestor[t][0] = Genesis
    BY <1>1, TreeAssumption, AncestorAssumption
  <1> QED BY <1>2, AncestorsIn

-----------------------------------------------------------------------------
(***************************************************************************)
(* Messages that leave a channel and enter it                              *)
(***************************************************************************)

\* A channel without its first message.
LEMMA TailIs ==
  ASSUME NEW S, NEW c \in Seq(S), c # <<>>
  PROVE  /\ Tail(c) \in Seq(S) /\ Head(c) = c[1] /\ Head(c) \in S /\ Len(c) \in Nat /\ Len(c) >= 1
         /\ Len(Tail(c)) = Len(c) - 1 /\ \A i \in 1 .. (Len(c) - 1) : Tail(c)[i] = c[i + 1]
  OBVIOUS

\* A channel with one more message.
LEMMA MoreIs ==
  ASSUME NEW S, NEW c \in Seq(S), NEW m \in S
  PROVE  /\ Append(c, m) \in Seq(S) /\ Len(c) \in Nat /\ Len(Append(c, m)) = Len(c) + 1
         /\ \A i \in 1 .. Len(c) : Append(c, m)[i] = c[i]
         /\ Append(c, m)[Len(c) + 1] = m
         /\ c \o <<m>> = Append(c, m) /\ c \o <<>> = c
  OBVIOUS

LEMMA LocatorsTail ==
  ASSUME NEW S, NEW a \in Seq(S), a # <<>>, NEW K, Locators(a, K)
  PROVE  Locators(Tail(a), K)
  <1> SUFFICES ASSUME NEW i \in 1 .. (Len(a) - 1), Tail(a)[i].type = "HeaderListRequest"
               PROVE  Tail(a)[i].locator \subseteq K
    BY TailIs DEF Locators
  <1>1. Tail(a)[i] = a[i + 1] /\ i + 1 \in 1 .. Len(a)
    BY TailIs
  <1> QED BY <1>1 DEF Locators

LEMMA LocatorsMore ==
  ASSUME NEW S, NEW a \in Seq(S), NEW m \in S, NEW K, Locators(a, K),
         m.type = "HeaderListRequest" => m.locator \subseteq K
  PROVE  Locators(Append(a, m), K)
  <1> SUFFICES ASSUME NEW i \in 1 .. (Len(a) + 1), Append(a, m)[i].type = "HeaderListRequest"
               PROVE  Append(a, m)[i].locator \subseteq K
    BY MoreIs DEF Locators
  <1>1. CASE i = Len(a) + 1
    BY <1>1, MoreIs
  <1>2. CASE i \in 1 .. Len(a)
    BY <1>2, MoreIs DEF Locators
  <1> QED BY <1>1, <1>2, MoreIs

\* The blocks before a message.
LEMMA BeforeTail ==
  ASSUME NEW S, NEW c \in Seq(S), c # <<>>, NEW K, NEW K2, K \subseteq K2,
         Head(c).type = "BlockResponse" => Head(c).block \in K2, NEW i \in Nat
  PROVE  K \cup Before(c, i + 1) \subseteq K2 \cup Before(Tail(c), i)
  <1> SUFFICES ASSUME NEW j \in 1 .. Len(c), j < i + 1, c[j].type = "BlockResponse"
               PROVE  c[j].block \in K2 \cup Before(Tail(c), i)
    BY DEF Before
  <1>1. CASE j = 1
    BY <1>1, TailIs
  <1>2. CASE j # 1
    <2>1. PICK k : k = j - 1
      OBVIOUS
    <2>2. k \in 1 .. Len(Tail(c)) /\ k < i /\ Tail(c)[k] = c[j]
      <3>1. Len(c) \in Nat /\ Len(Tail(c)) = Len(c) - 1
        BY TailIs
      <3>2. k \in 1 .. (Len(c) - 1) /\ k + 1 = j /\ k < i
        BY <1>2, <2>1, <3>1
      <3>3. Tail(c)[k] = c[k + 1]
        BY <3>2, TailIs
      <3> QED BY <3>1, <3>2, <3>3
    <2> QED BY <2>2 DEF Before
  <1> QED BY <1>1, <1>2

LEMMA BeforeMore ==
  ASSUME NEW S, NEW c \in Seq(S), NEW m \in S
  PROVE  /\ \A i \in 1 .. (Len(c) + 1) : Before(Append(c, m), i) = Before(c, i)
         /\ Coming(c) \subseteq Coming(Append(c, m))
         /\ m.type = "BlockResponse" => m.block \in Coming(Append(c, m))
  <1>1. PICK d : d = Append(c, m)
    OBVIOUS
  <1>2. /\ Len(c) \in Nat /\ Len(d) = Len(c) + 1 /\ d[Len(c) + 1] = m
        /\ \A i \in 1 .. Len(c) : d[i] = c[i]
    BY <1>1, MoreIs
  <1>3. ASSUME NEW i \in 1 .. (Len(c) + 1) PROVE Before(d, i) = Before(c, i)
    <2>1. {k \in 1 .. Len(d) : k < i /\ d[k].type = "BlockResponse"}
            = {k \in 1 .. Len(c) : k < i /\ c[k].type = "BlockResponse"}
      BY <1>2
    <2>2. \A j \in {k \in 1 .. Len(c) : k < i /\ c[k].type = "BlockResponse"} : d[j] = c[j]
      BY <1>2
    <2> QED BY <2>1, <2>2 DEF Before
  <1>4. Coming(c) \subseteq Coming(d)
    <2> SUFFICES ASSUME NEW j \in 1 .. Len(c), c[j].type = "BlockResponse"
                 PROVE  c[j].block \in Coming(d)
      BY DEF Coming, Before
    <2>1. j \in 1 .. Len(d) /\ j < Len(d) + 1 /\ d[j] = c[j]
      BY <1>2
    <2> QED BY <2>1 DEF Coming, Before
  <1>5. ASSUME m.type = "BlockResponse" PROVE m.block \in Coming(d)
    <2>1. Len(d) \in 1 .. Len(d) /\ Len(d) < Len(d) + 1 /\ d[Len(d)] = m
      BY <1>2
    <2> QED BY <1>5, <2>1 DEF Coming, Before
  <1> QED BY <1>1, <1>3, <1>4, <1>5

LEMMA ListsTail ==
  ASSUME NEW S, NEW c \in Seq(S), c # <<>>, NEW K, NEW K2, K \subseteq K2,
         Head(c).type = "BlockResponse" => Head(c).block \in K2,
         NEW L, NEW off, Lists(c, K, L, off)
  PROVE  Lists(Tail(c), K2, L, off)
  <1> SUFFICES ASSUME NEW i \in 1 .. (Len(c) - 1), Tail(c)[i].type = "HeaderList"
               PROVE  /\ GoodHeaders(Tail(c)[i].headers, L, off)
                      /\ Connects(Tail(c)[i].headers, K2 \cup Before(Tail(c), i))
    BY TailIs DEF Lists
  <1>1. Tail(c)[i] = c[i + 1] /\ i + 1 \in 1 .. Len(c) /\ i \in Nat
    BY TailIs
  <1>2. GoodHeaders(c[i + 1].headers, L, off) /\ Connects(c[i + 1].headers, K \cup Before(c, i + 1))
    BY <1>1 DEF Lists
  <1>3. K \cup Before(c, i + 1) \subseteq K2 \cup Before(Tail(c), i)
    BY <1>1, BeforeTail
  <1> QED BY <1>1, <1>2, <1>3 DEF Connects

LEMMA ListsMore ==
  ASSUME NEW S, NEW c \in Seq(S), NEW m \in S, NEW K, NEW L, NEW off, Lists(c, K, L, off),
         m.type = "HeaderList" => GoodHeaders(m.headers, L, off) /\ Connects(m.headers, K \cup Coming(c))
  PROVE  Lists(Append(c, m), K, L, off)
  <1>1. PICK d : d = Append(c, m)
    OBVIOUS
  <1>2. /\ Len(c) \in Nat /\ Len(d) = Len(c) + 1 /\ d[Len(c) + 1] = m
        /\ \A i \in 1 .. Len(c) : d[i] = c[i]
    BY <1>1, MoreIs
  <1>3. \A i \in 1 .. (Len(c) + 1) : Before(d, i) = Before(c, i)
    BY <1>1, BeforeMore
  <1> SUFFICES ASSUME NEW i \in 1 .. Len(d), d[i].type = "HeaderList"
               PROVE  GoodHeaders(d[i].headers, L, off) /\ Connects(d[i].headers, K \cup Before(d, i))
    BY <1>1 DEF Lists
  <1>4. CASE i = Len(c) + 1
    <2>1. Before(d, i) = Coming(c)
      BY <1>2, <1>3, <1>4 DEF Coming
    <2> QED BY <1>2, <1>4, <2>1
  <1>5. CASE i \in 1 .. Len(c)
    BY <1>2, <1>3, <1>5 DEF Lists
  <1> QED BY <1>2, <1>4, <1>5

\* What a node that gets more blocks knows of the headers on their way.
LEMMA ListsGrow ==
  ASSUME NEW c, NEW K, NEW K2, K \subseteq K2, NEW L, NEW L2, L \subseteq L2, NEW off, NEW off2, off2 => off,
         Lists(c, K, L, off)
  PROVE  Lists(c, K2, L2, off2)
  BY DEF Lists, GoodHeaders, Connects, Within

\* Requests on their way.
LEMMA NoRequestTail ==
  ASSUME NEW S, NEW a \in Seq(S), a # <<>>, NoRequest(a)
  PROVE  NoRequest(Tail(a))
  <1> SUFFICES ASSUME NEW i \in 1 .. (Len(a) - 1) PROVE Tail(a)[i].type # "BlockListRequest"
    BY TailIs DEF NoRequest
  <1>1. Tail(a)[i] = a[i + 1] /\ i + 1 \in 1 .. Len(a)
    BY TailIs
  <1> QED BY <1>1 DEF NoRequest

LEMMA NoRequestMore ==
  ASSUME NEW S, NEW a \in Seq(S), NEW m \in S, m.type # "BlockListRequest", NoRequest(a)
  PROVE  NoRequest(Append(a, m))
  <1> SUFFICES ASSUME NEW i \in 1 .. (Len(a) + 1) PROVE Append(a, m)[i].type # "BlockListRequest"
    BY MoreIs DEF NoRequest
  <1>1. CASE i = Len(a) + 1
    BY <1>1, MoreIs
  <1>2. CASE i \in 1 .. Len(a)
    BY <1>2, MoreIs DEF NoRequest
  <1> QED BY <1>1, <1>2, MoreIs

LEMMA OneRequestTail ==
  ASSUME NEW S, NEW a \in Seq(S), a # <<>>, NEW ids, OneRequest(a, ids), Head(a).type # "BlockListRequest"
  PROVE  OneRequest(Tail(a), ids)
  <1>1. PICK i \in 1 .. Len(a) : /\ a[i].type = "BlockListRequest" /\ a[i].ids = ids
                                 /\ \A j \in (1 .. Len(a)) \ {i} : a[j].type # "BlockListRequest"
    BY DEF OneRequest
  <1>2. PICK k : k = i - 1
    OBVIOUS
  <1>3. Len(a) \in Nat /\ Len(Tail(a)) = Len(a) - 1 /\ Head(a) = a[1] /\ \A j \in 1 .. (Len(a) - 1) : Tail(a)[j] = a[j + 1]
    BY TailIs
  <1>4. k \in 1 .. (Len(a) - 1) /\ k + 1 = i
    BY <1>1, <1>2, <1>3
  <1>5. Tail(a)[k] = a[i]
    BY <1>3, <1>4
  <1>6. \A j \in (1 .. Len(Tail(a))) \ {k} : Tail(a)[j].type # "BlockListRequest"
    <2> TAKE j \in (1 .. Len(Tail(a))) \ {k}
    <2>1. j + 1 \in (1 .. Len(a)) \ {i} /\ Tail(a)[j] = a[j + 1]
      BY <1>3, <1>4
    <2> QED BY <1>1, <2>1
  <1> QED BY <1>1, <1>3, <1>4, <1>5, <1>6 DEF OneRequest

LEMMA OneRequestMore ==
  ASSUME NEW S, NEW a \in Seq(S), NEW m \in S, m.type # "BlockListRequest", NEW ids, OneRequest(a, ids)
  PROVE  OneRequest(Append(a, m), ids)
  <1>1. PICK i \in 1 .. Len(a) : /\ a[i].type = "BlockListRequest" /\ a[i].ids = ids
                                 /\ \A j \in (1 .. Len(a)) \ {i} : a[j].type # "BlockListRequest"
    BY DEF OneRequest
  <1>2. PICK d : d = Append(a, m)
    OBVIOUS
  <1>3. /\ Len(a) \in Nat /\ Len(d) = Len(a) + 1 /\ d[Len(a) + 1] = m
        /\ \A j \in 1 .. Len(a) : d[j] = a[j]
    BY <1>2, MoreIs
  <1>4. \A j \in (1 .. Len(d)) \ {i} : d[j].type # "BlockListRequest"
    <2> TAKE j \in (1 .. Len(d)) \ {i}
    <2>1. CASE j = Len(a) + 1
      BY <1>3, <2>1
    <2>2. CASE j \in 1 .. Len(a)
      BY <1>1, <1>3, <2>2
    <2> QED BY <1>3, <2>1, <2>2
  <1>5. i \in 1 .. Len(d) /\ d[i] = a[i]
    BY <1>3
  <1> QED BY <1>1, <1>2, <1>4, <1>5 DEF OneRequest

LEMMA OneRequestNew ==
  ASSUME NEW S, NEW a \in Seq(S), NEW m \in S, m.type = "BlockListRequest", NoRequest(a)
  PROVE  OneRequest(Append(a, m), m.ids)
  <1>1. PICK d : d = Append(a, m)
    OBVIOUS
  <1>2. /\ Len(a) \in Nat /\ Len(d) = Len(a) + 1 /\ d[Len(a) + 1] = m
        /\ \A j \in 1 .. Len(a) : d[j] = a[j]
    BY <1>1, MoreIs
  <1>3. \A j \in (1 .. Len(d)) \ {Len(d)} : d[j].type # "BlockListRequest"
    BY <1>2 DEF NoRequest
  <1>4. Len(d) \in 1 .. Len(d) /\ d[Len(d)] = m
    BY <1>2
  <1> QED BY <1>1, <1>3, <1>4 DEF OneRequest

\* The request that arrives is the only one.
LEMMA OneRequestTaken ==
  ASSUME NEW S, NEW a \in Seq(S), a # <<>>, NEW ids, OneRequest(a, ids), Head(a).type = "BlockListRequest"
  PROVE  Head(a).ids = ids /\ NoRequest(Tail(a))
  <1>1. PICK i \in 1 .. Len(a) : /\ a[i].type = "BlockListRequest" /\ a[i].ids = ids
                                 /\ \A j \in (1 .. Len(a)) \ {i} : a[j].type # "BlockListRequest"
    BY DEF OneRequest
  <1>2. Len(a) \in Nat /\ Len(a) >= 1 /\ Len(Tail(a)) = Len(a) - 1 /\ Head(a) = a[1] /\ \A j \in 1 .. (Len(a) - 1) : Tail(a)[j] = a[j + 1]
    BY TailIs
  <1>3. i = 1
    BY <1>1, <1>2
  <1>4. \A j \in 1 .. (Len(a) - 1) : Tail(a)[j].type # "BlockListRequest"
    <2> TAKE j \in 1 .. (Len(a) - 1)
    <2>1. j + 1 \in (1 .. Len(a)) \ {i} /\ Tail(a)[j] = a[j + 1]
      BY <1>2, <1>3
    <2> QED BY <1>1, <2>1
  <1> QED BY <1>1, <1>2, <1>3, <1>4 DEF NoRequest

LEMMA SomeRequest ==
  ASSUME NEW S, NEW a \in Seq(S), a # <<>>, Head(a).type = "BlockListRequest"
  PROVE  ~NoRequest(a)
  BY TailIs DEF NoRequest

\* Blocks on their way.
At(msgs, blocks, at) ==
  /\ at \in [1 .. Len(blocks) -> PositionsOf(msgs, "BlockResponse")]
  /\ \A i, j \in 1 .. Len(blocks) : i < j => at[i] < at[j]
  /\ \A k \in PositionsOf(msgs, "BlockResponse") : \E i \in 1 .. Len(blocks) : at[i] = k
  /\ \A i \in 1 .. Len(blocks) : blocks[i] = msgs[at[i]].block

LEMMA CarriesAt ==
  ASSUME NEW c, NEW bs
  PROVE  Carries(c, bs) <=> \E at : At(c, bs, at)
  BY DEF Carries, At

\* No blocks are on their way.
LEMMA CarriesNone ==
  ASSUME NEW S, NEW c \in Seq(S)
  PROVE  Carries(c, <<>>) <=> \A i \in 1 .. Len(c) : c[i].type # "BlockResponse"
  <1>1. Len(<<>>) = 0
    OBVIOUS
  <1>2. ASSUME Carries(c, <<>>) PROVE \A i \in 1 .. Len(c) : c[i].type # "BlockResponse"
    <2>1. PICK at : At(c, <<>>, at)
      BY <1>2, CarriesAt
    <2>2. PositionsOf(c, "BlockResponse") = {}
      BY <1>1, <2>1 DEF At
    <2> QED BY <2>2 DEF PositionsOf
  <1>3. ASSUME \A i \in 1 .. Len(c) : c[i].type # "BlockResponse" PROVE Carries(c, <<>>)
    <2>1. PositionsOf(c, "BlockResponse") = {}
      BY <1>3 DEF PositionsOf
    <2>2. At(c, <<>>, <<>>)
      BY <1>1, <2>1 DEF At
    <2> QED BY <2>2, CarriesAt
  <1> QED BY <1>2, <1>3

\* A block is sent.
LEMMA CarriesNew ==
  ASSUME NEW S, NEW c \in Seq(S), NEW m \in S, m.type = "BlockResponse", NEW T, NEW bs \in Seq(T), m.block \in T,
         Carries(c, bs)
  PROVE  Carries(Append(c, m), Append(bs, m.block))
  <1>1. PICK d : d = Append(c, m)
    OBVIOUS
  <1>2. /\ Len(c) \in Nat /\ Len(d) = Len(c) + 1 /\ d[Len(c) + 1] = m
        /\ \A i \in 1 .. Len(c) : d[i] = c[i]
    BY <1>1, MoreIs
  <1>3. PICK b : b = m.block
    OBVIOUS
  <1>4. PICK es : es = Append(bs, b)
    OBVIOUS
  <1>5. PICK n : n = Len(bs)
    OBVIOUS
  <1>6. /\ n \in Nat /\ Len(es) = n + 1 /\ es[n + 1] = b
        /\ \A i \in 1 .. n : es[i] = bs[i]
    BY <1>3, <1>4, <1>5
  <1>7. PICK at : At(c, bs, at)
    BY CarriesAt
  <1>8. /\ \A i \in 1 .. n : at[i] \in 1 .. Len(c) /\ c[at[i]].type = "BlockResponse" /\ bs[i] = c[at[i]].block
        /\ \A i, j \in 1 .. n : i < j => at[i] < at[j]
        /\ \A k \in 1 .. Len(c) : c[k].type = "BlockResponse" => \E i \in 1 .. n : at[i] = k
    BY <1>5, <1>7 DEF At, PositionsOf
  <1> DEFINE to == [i \in 1 .. (n + 1) |-> IF i = n + 1 THEN Len(c) + 1 ELSE at[i]]
  <1>9. to[n + 1] = Len(c) + 1 /\ \A i \in 1 .. n : to[i] = at[i]
    BY <1>6
  <1>10. to = [i \in 1 .. (n + 1) |-> to[i]]
    OBVIOUS
  <1> HIDE DEF to
  <1>11. \A i \in 1 .. (n + 1) : to[i] \in 1 .. Len(d) /\ d[to[i]].type = "BlockResponse" /\ es[i] = d[to[i]].block
    <2> TAKE i \in 1 .. (n + 1)
    <2>1. CASE i = n + 1
      BY <1>2, <1>3, <1>6, <1>9, <2>1
    <2>2. CASE i \in 1 .. n
      <3>1. to[i] = at[i] /\ at[i] \in 1 .. Len(c) /\ d[at[i]] = c[at[i]]
        BY <1>2, <1>8, <1>9, <2>2
      <3> QED BY <1>2, <1>6, <1>8, <2>2, <3>1
    <2> QED BY <1>6, <2>1, <2>2
  <1>12. \A i, j \in 1 .. (n + 1) : i < j => to[i] < to[j]
    <2> SUFFICES ASSUME NEW i \in 1 .. (n + 1), NEW j \in 1 .. (n + 1), i < j PROVE to[i] < to[j]
      OBVIOUS
    <2>1. i \in 1 .. n
      BY <1>6
    <2>2. to[i] = at[i] /\ at[i] \in 1 .. Len(c)
      BY <1>8, <1>9, <2>1
    <2>3. CASE j = n + 1
      BY <1>2, <1>9, <2>2, <2>3
    <2>4. CASE j \in 1 .. n
      BY <1>8, <1>9, <2>1, <2>2, <2>4
    <2> QED BY <1>6, <2>3, <2>4
  <1>13. \A k \in 1 .. Len(d) : d[k].type = "BlockResponse" => \E i \in 1 .. (n + 1) : to[i] = k
    <2> SUFFICES ASSUME NEW k \in 1 .. Len(d), d[k].type = "BlockResponse" PROVE \E i \in 1 .. (n + 1) : to[i] = k
      OBVIOUS
    <2>1. CASE k = Len(c) + 1
      <3>1. n + 1 \in 1 .. (n + 1)
        BY <1>6
      <3> QED BY <1>9, <2>1, <3>1
    <2>2. CASE k \in 1 .. Len(c)
      <3>1. PICK i \in 1 .. n : at[i] = k
        BY <1>2, <1>8, <2>2
      <3>2. i \in 1 .. (n + 1) /\ to[i] = k
        BY <1>6, <1>9, <3>1
      <3> QED BY <3>2
    <2> QED BY <1>2, <2>1, <2>2
  <1>14. At(d, es, to)
    <2>1. to \in [1 .. (n + 1) -> PositionsOf(d, "BlockResponse")]
      BY <1>10, <1>11 DEF PositionsOf
    <2> QED BY <1>6, <1>11, <1>12, <1>13, <2>1 DEF At, PositionsOf
  <1> QED BY <1>1, <1>3, <1>4, <1>14, CarriesAt

\* Another message is sent.
LEMMA CarriesMore ==
  ASSUME NEW S, NEW c \in Seq(S), NEW m \in S, m.type # "BlockResponse", NEW bs, Carries(c, bs)
  PROVE  Carries(Append(c, m), bs)
  <1>1. PICK d : d = Append(c, m)
    OBVIOUS
  <1>2. /\ Len(c) \in Nat /\ Len(d) = Len(c) + 1 /\ d[Len(c) + 1] = m
        /\ \A i \in 1 .. Len(c) : d[i] = c[i]
    BY <1>1, MoreIs
  <1>3. PICK at : At(c, bs, at)
    BY CarriesAt
  <1>4. PositionsOf(d, "BlockResponse") = PositionsOf(c, "BlockResponse")
    BY <1>2 DEF PositionsOf
  <1>5. \A i \in 1 .. Len(bs) : d[at[i]] = c[at[i]]
    BY <1>2, <1>3 DEF At, PositionsOf
  <1>6. At(d, bs, at)
    BY <1>3, <1>4, <1>5 DEF At
  <1> QED BY <1>1, <1>6, CarriesAt

\* A message that is not a block arrives.
LEMMA CarriesOther ==
  ASSUME NEW S, NEW c \in Seq(S), c # <<>>, Head(c).type # "BlockResponse", NEW T, NEW bs \in Seq(T), Carries(c, bs)
  PROVE  Carries(Tail(c), bs)
  <1>1. PICK d : d = Tail(c)
    OBVIOUS
  <1>2. /\ Len(c) \in Nat /\ Len(c) >= 1 /\ Len(d) = Len(c) - 1 /\ Head(c) = c[1]
        /\ \A i \in 1 .. (Len(c) - 1) : d[i] = c[i + 1]
    BY <1>1, TailIs
  <1>3. PICK n : n = Len(bs) /\ n \in Nat
    OBVIOUS
  <1>4. PICK at : At(c, bs, at)
    BY CarriesAt
  <1>5. /\ \A i \in 1 .. n : at[i] \in 1 .. Len(c) /\ c[at[i]].type = "BlockResponse" /\ bs[i] = c[at[i]].block
        /\ \A i, j \in 1 .. n : i < j => at[i] < at[j]
        /\ \A k \in 1 .. Len(c) : c[k].type = "BlockResponse" => \E i \in 1 .. n : at[i] = k
    BY <1>3, <1>4 DEF At, PositionsOf
  <1> DEFINE to == [i \in 1 .. n |-> at[i] - 1]
  <1>6. to = [i \in 1 .. n |-> to[i]] /\ \A i \in 1 .. n : to[i] = at[i] - 1
    OBVIOUS
  <1> HIDE DEF to
  <1>7. \A i \in 1 .. n : to[i] \in 1 .. Len(d) /\ d[to[i]] = c[at[i]]
    <2> TAKE i \in 1 .. n
    <2>1. at[i] \in 1 .. Len(c) /\ at[i] # 1
      BY <1>2, <1>5
    <2>2. to[i] \in 1 .. (Len(c) - 1) /\ to[i] + 1 = at[i]
      BY <1>2, <1>6, <2>1
    <2>3. d[to[i]] = c[to[i] + 1]
      BY <1>2, <2>2
    <2> QED BY <1>2, <2>2, <2>3
  <1>8. \A i, j \in 1 .. n : i < j => to[i] < to[j]
    <2> SUFFICES ASSUME NEW i \in 1 .. n, NEW j \in 1 .. n, i < j PROVE to[i] < to[j]
      OBVIOUS
    <2>1. at[i] < at[j] /\ at[i] \in Int /\ at[j] \in Int /\ to[i] = at[i] - 1 /\ to[j] = at[j] - 1
      BY <1>2, <1>5, <1>6
    <2> QED BY <2>1
  <1>9. \A k \in 1 .. Len(d) : d[k].type = "BlockResponse" => \E i \in 1 .. n : to[i] = k
    <2> SUFFICES ASSUME NEW k \in 1 .. Len(d), d[k].type = "BlockResponse" PROVE \E i \in 1 .. n : to[i] = k
      OBVIOUS
    <2>1. k + 1 \in 1 .. Len(c) /\ d[k] = c[k + 1]
      BY <1>2
    <2>2. PICK i \in 1 .. n : at[i] = k + 1
      BY <1>5, <2>1
    <2>3. to[i] = k
      BY <1>6, <2>2
    <2> QED BY <2>3
  <1>10. At(d, bs, to)
    <2>1. to \in [1 .. n -> PositionsOf(d, "BlockResponse")]
      BY <1>5, <1>6, <1>7 DEF PositionsOf
    <2>2. \A i \in 1 .. n : bs[i] = d[to[i]].block
      BY <1>5, <1>7
    <2> QED BY <1>3, <1>8, <1>9, <2>1, <2>2 DEF At, PositionsOf
  <1> QED BY <1>1, <1>10, CarriesAt

\* A block arrives: it is the first one.
LEMMA CarriesFirst ==
  ASSUME NEW S, NEW c \in Seq(S), c # <<>>, Head(c).type = "BlockResponse", NEW T, NEW bs \in Seq(T), Carries(c, bs)
  PROVE  bs # <<>> /\ Head(bs) = Head(c).block /\ Carries(Tail(c), Tail(bs))
  <1>1. PICK d : d = Tail(c)
    OBVIOUS
  <1>2. /\ Len(c) \in Nat /\ Len(c) >= 1 /\ Len(d) = Len(c) - 1 /\ Head(c) = c[1]
        /\ \A i \in 1 .. (Len(c) - 1) : d[i] = c[i + 1]
    BY <1>1, TailIs
  <1>3. PICK n : n = Len(bs) /\ n \in Nat
    OBVIOUS
  <1>4. PICK at : At(c, bs, at)
    BY CarriesAt
  <1>5. /\ \A i \in 1 .. n : at[i] \in 1 .. Len(c) /\ c[at[i]].type = "BlockResponse" /\ bs[i] = c[at[i]].block
        /\ \A i, j \in 1 .. n : i < j => at[i] < at[j]
        /\ \A k \in 1 .. Len(c) : c[k].type = "BlockResponse" => \E i \in 1 .. n : at[i] = k
    BY <1>3, <1>4 DEF At, PositionsOf
  <1>6. PICK f \in 1 .. n : at[f] = 1
    BY <1>2, <1>5
  <1>7. n >= 1 /\ 1 \in 1 .. n
    BY <1>3, <1>6
  <1>8. at[1] = 1
    <2>1. CASE f = 1
      BY <1>6, <2>1
    <2>2. CASE f # 1
      <3>1. 1 < f
        BY <1>3, <2>2
      <3>2. at[1] < at[f] /\ at[1] \in 1 .. Len(c)
        BY <1>5, <1>7, <3>1
      <3> QED BY <1>2, <1>6, <3>2
    <2> QED BY <2>1, <2>2
  <1>9. bs # <<>> /\ Head(bs) = bs[1] /\ bs[1] = c[1].block
    BY <1>3, <1>5, <1>7, <1>8
  <1>10. PICK es : es = Tail(bs)
    OBVIOUS
  <1>11. Len(es) = n - 1 /\ \A i \in 1 .. (n - 1) : es[i] = bs[i + 1]
    BY <1>3, <1>9, <1>10, TailIs
  <1> DEFINE to == [i \in 1 .. (n - 1) |-> at[i + 1] - 1]
  <1>12. to = [i \in 1 .. (n - 1) |-> to[i]] /\ \A i \in 1 .. (n - 1) : to[i] = at[i + 1] - 1
    OBVIOUS
  <1> HIDE DEF to
  <1>13. ASSUME NEW i \in 1 .. (n - 1)
         PROVE  i + 1 \in 1 .. n /\ to[i] \in 1 .. Len(d) /\ d[to[i]] = c[at[i + 1]]
    <2>1. i + 1 \in 1 .. n /\ 1 < i + 1
      BY <1>3
    <2>2. at[i + 1] \in 1 .. Len(c) /\ at[1] < at[i + 1]
      BY <1>5, <1>7, <2>1
    <2>3. to[i] \in 1 .. (Len(c) - 1) /\ to[i] + 1 = at[i + 1]
      BY <1>2, <1>8, <1>12, <2>2
    <2>4. d[to[i]] = c[to[i] + 1]
      BY <1>2, <2>3
    <2> QED BY <1>2, <2>1, <2>3, <2>4
  <1>14. \A i, j \in 1 .. (n - 1) : i < j => to[i] < to[j]
    <2> SUFFICES ASSUME NEW i \in 1 .. (n - 1), NEW j \in 1 .. (n - 1), i < j PROVE to[i] < to[j]
      OBVIOUS
    <2>1. i + 1 \in 1 .. n /\ j + 1 \in 1 .. n /\ i + 1 < j + 1
      BY <1>3
    <2>2. at[i + 1] < at[j + 1] /\ at[i + 1] \in Int /\ at[j + 1] \in Int
      BY <1>2, <1>5, <2>1
    <2>3. to[i] = at[i + 1] - 1 /\ to[j] = at[j + 1] - 1
      BY <1>12
    <2> QED BY <2>2, <2>3
  <1>15. \A k \in 1 .. Len(d) : d[k].type = "BlockResponse" => \E i \in 1 .. (n - 1) : to[i] = k
    <2> SUFFICES ASSUME NEW k \in 1 .. Len(d), d[k].type = "BlockResponse" PROVE \E i \in 1 .. (n - 1) : to[i] = k
      OBVIOUS
    <2>1. k + 1 \in 1 .. Len(c) /\ d[k] = c[k + 1]
      BY <1>2
    <2>2. PICK j \in 1 .. n : at[j] = k + 1
      BY <1>5, <2>1
    <2>3. j # 1
      BY <1>2, <1>8, <2>2
    <2>4. PICK i : i = j - 1
      OBVIOUS
    <2>5. i \in 1 .. (n - 1) /\ i + 1 = j
      BY <1>3, <2>3, <2>4
    <2>6. to[i] = k
      BY <1>2, <1>12, <2>2, <2>5
    <2> QED BY <2>5, <2>6
  <1>16. At(d, es, to)
    <2>1. \A i \in 1 .. (n - 1) : d[to[i]].type = "BlockResponse" /\ es[i] = d[to[i]].block
      <3> TAKE i \in 1 .. (n - 1)
      <3>1. i + 1 \in 1 .. n /\ d[to[i]] = c[at[i + 1]] /\ es[i] = bs[i + 1]
        BY <1>11, <1>13
      <3>2. PICK j : j = i + 1 /\ j \in 1 .. n
        BY <3>1
      <3>3. c[at[j]].type = "BlockResponse" /\ bs[j] = c[at[j]].block
        BY <1>5, <3>2
      <3> QED BY <3>1, <3>2, <3>3
    <2>2. to \in [1 .. (n - 1) -> PositionsOf(d, "BlockResponse")]
      BY <1>12, <1>13, <2>1 DEF PositionsOf
    <2> QED BY <1>11, <1>14, <1>15, <2>1, <2>2 DEF At, PositionsOf
  <1> QED BY <1>1, <1>2, <1>9, <1>10, <1>16, CarriesAt

\* The blocks on their way are those that Coming has.
LEMMA CarriesComing ==
  ASSUME NEW S, NEW c \in Seq(S), NEW bs, Carries(c, bs)
  PROVE  Coming(c) = Elements(bs)
  <1>1. PICK at : At(c, bs, at)
    BY CarriesAt
  <1>2. \A k \in 1 .. Len(c) : k < Len(c) + 1
    OBVIOUS
  <1>3. Coming(c) = {c[j].block : j \in PositionsOf(c, "BlockResponse")}
    BY <1>2 DEF Coming, Before, PositionsOf
  <1>4. \A k \in PositionsOf(c, "BlockResponse") : c[k].block \in Elements(bs)
    BY <1>1 DEF At, Elements
  <1>5. \A i \in 1 .. Len(bs) : bs[i] \in Coming(c)
    BY <1>1, <1>3 DEF At
  <1> QED BY <1>3, <1>4, <1>5 DEF Elements

-----------------------------------------------------------------------------
(***************************************************************************)
(* Headers that are requested or pending                                   *)
(***************************************************************************)

\* A part of a sequence.
LEMMA PartIs ==
  ASSUME NEW S, NEW q \in Seq(S), NEW m \in 0 .. Len(q)
  PROVE  /\ SubSeq(q, m + 1, Len(q)) \in Seq(S) /\ Len(SubSeq(q, m + 1, Len(q))) = Len(q) - m
         /\ \A i \in 1 .. (Len(q) - m) : SubSeq(q, m + 1, Len(q))[i] = q[m + i]
         /\ SubSeq(q, 1, m) \in Seq(S) /\ Len(SubSeq(q, 1, m)) = m
         /\ \A i \in 1 .. m : SubSeq(q, 1, m)[i] = q[i]
  OBVIOUS

\* The blocks after the first m, and the first m.
LEMMA ChainedPart ==
  ASSUME NEW K, NEW q, Chained(q, K), NEW L, Within(q, L), NEW m \in 0 .. Len(q)
  PROVE  /\ Chained(SubSeq(q, m + 1, Len(q)), K \cup Elements(SubSeq(q, 1, m)))
         /\ Within(SubSeq(q, m + 1, Len(q)), L)
         /\ Chained(SubSeq(q, 1, m), K) /\ Within(SubSeq(q, 1, m), L)
  <1>1. PICK r, f, n : r = SubSeq(q, m + 1, Len(q)) /\ f = SubSeq(q, 1, m) /\ n = Len(q)
    OBVIOUS
  <1>2. q \in Seq(Block) /\ Linked(q) /\ n \in Nat /\ (q # <<>> => Parent[q[1]] \in K)
    BY <1>1 DEF Chained
  <1>3. /\ r \in Seq(Block) /\ Len(r) = n - m /\ \A i \in 1 .. (n - m) : r[i] = q[m + i]
        /\ f \in Seq(Block) /\ Len(f) = m /\ \A i \in 1 .. m : f[i] = q[i]
    BY <1>1, <1>2, PartIs
  <1>4. m \in 0 .. n /\ m \in Nat
    BY <1>1, <1>2
  <1>5. \A i \in 2 .. n : Parent[q[i]] = q[i - 1]
    BY <1>1, <1>2 DEF Linked
  <1>6. Linked(r)
    <2> SUFFICES ASSUME NEW i \in 2 .. (n - m) PROVE Parent[r[i]] = r[i - 1]
      BY <1>3 DEF Linked
    <2>1. i \in 1 .. (n - m) /\ i - 1 \in 1 .. (n - m) /\ m + i \in 2 .. n /\ (m + i) - 1 = m + (i - 1)
      BY <1>2, <1>4
    <2>2. r[i] = q[m + i] /\ r[i - 1] = q[m + (i - 1)]
      BY <1>3, <2>1
    <2>3. Parent[q[m + i]] = q[(m + i) - 1]
      BY <1>5, <2>1
    <2> QED BY <2>1, <2>2, <2>3
  <1>7. Linked(f)
    <2> SUFFICES ASSUME NEW i \in 2 .. m PROVE Parent[f[i]] = f[i - 1]
      BY <1>3 DEF Linked
    <2>1. i \in 1 .. m /\ i - 1 \in 1 .. m /\ i \in 2 .. n
      BY <1>2, <1>4
    <2> QED BY <1>3, <1>5, <2>1
  <1>8. r # <<>> => Parent[r[1]] \in K \cup Elements(f)
    <2> SUFFICES ASSUME r # <<>> PROVE Parent[r[1]] \in K \cup Elements(f)
      OBVIOUS
    <2>1. n - m >= 1 /\ 1 \in 1 .. (n - m) /\ q # <<>>
      BY <1>1, <1>2, <1>3, <1>4
    <2>2. r[1] = q[m + 1]
      BY <1>3, <2>1
    <2>3. CASE m = 0
      BY <1>2, <2>1, <2>2, <2>3
    <2>4. CASE m # 0
      <3>1. m + 1 \in 2 .. n /\ (m + 1) - 1 = m /\ m \in 1 .. m
        BY <1>2, <1>4, <2>1, <2>4
      <3>2. Parent[q[m + 1]] = q[m]
        BY <1>5, <3>1
      <3>3. q[m] = f[m] /\ f[m] \in Elements(f)
        BY <1>3, <3>1 DEF Elements
      <3> QED BY <2>2, <3>2, <3>3
    <2> QED BY <2>3, <2>4
  <1>9. f # <<>> => Parent[f[1]] \in K
    <2> SUFFICES ASSUME f # <<>> PROVE Parent[f[1]] \in K
      OBVIOUS
    <2>1. 1 \in 1 .. m /\ q # <<>>
      BY <1>1, <1>2, <1>3, <1>4
    <2> QED BY <1>2, <1>3, <2>1
  <1>10. Within(r, L)
    <2> SUFFICES ASSUME NEW i \in 1 .. (n - m) PROVE r[i] \in L
      BY <1>3 DEF Within
    <2>1. m + i \in 1 .. n
      BY <1>2, <1>4
    <2> QED BY <1>1, <1>3, <2>1 DEF Within
  <1>11. Within(f, L)
    <2> SUFFICES ASSUME NEW i \in 1 .. m PROVE f[i] \in L
      BY <1>3 DEF Within
    <2>1. i \in 1 .. n
      BY <1>2, <1>4
    <2> QED BY <1>1, <1>3, <2>1 DEF Within
  <1> QED BY <1>1, <1>3, <1>6, <1>7, <1>8, <1>9, <1>10, <1>11 DEF Chained

\* More is known.
LEMMA ChainedGrows ==
  ASSUME NEW q, NEW K, NEW K2, K \subseteq K2, Chained(q, K)
  PROVE  Chained(q, K2)
  BY DEF Chained

\* Without the first block.
LEMMA ChainedTail ==
  ASSUME NEW K, NEW q, Chained(q, K), q # <<>>, NEW L, Within(q, L)
  PROVE  /\ Parent[Head(q)] \in K /\ Head(q) \in Block /\ Head(q) \in L
         /\ Chained(Tail(q), K \cup {Head(q)}) /\ Within(Tail(q), L) /\ Tail(q) \in Seq(Block)
         /\ Elements(q) = {Head(q)} \cup Elements(Tail(q)) /\ Len(Tail(q)) < Len(q)
  <1>1. PICK r, n : r = Tail(q) /\ n = Len(q)
    OBVIOUS
  <1>2. q \in Seq(Block) /\ Linked(q) /\ Parent[q[1]] \in K
    BY DEF Chained
  <1>3. /\ r \in Seq(Block) /\ Head(q) = q[1] /\ q[1] \in Block /\ n \in Nat /\ n >= 1
        /\ Len(r) = n - 1 /\ \A i \in 1 .. (n - 1) : r[i] = q[i + 1]
    BY <1>1, <1>2, TailIs
  <1>4. Linked(r) /\ (r # <<>> => Parent[r[1]] = q[1])
    <2>1. \A i \in 2 .. n : Parent[q[i]] = q[i - 1]
      BY <1>1, <1>2 DEF Linked
    <2>2. ASSUME NEW i \in 2 .. (n - 1) PROVE Parent[r[i]] = r[i - 1]
      <3>1. i \in 1 .. (n - 1) /\ i - 1 \in 1 .. (n - 1) /\ i + 1 \in 2 .. n /\ (i + 1) - 1 = i /\ (i - 1) + 1 = i
        BY <1>3
      <3>2. r[i] = q[i + 1] /\ r[i - 1] = q[i]
        BY <1>3, <3>1
      <3> QED BY <2>1, <3>1, <3>2
    <2>3. ASSUME r # <<>> PROVE Parent[r[1]] = q[1]
      <3>1. 1 \in 1 .. (n - 1) /\ 2 \in 2 .. n
        BY <1>3, <2>3
      <3>2. r[1] = q[2] /\ Parent[q[2]] = q[1]
        BY <1>3, <2>1, <3>1
      <3> QED BY <3>2
    <2> QED BY <1>3, <2>2, <2>3 DEF Linked
  <1>5. Within(r, L) /\ q[1] \in L
    <2>1. \A i \in 1 .. n : q[i] \in L
      BY <1>1 DEF Within
    <2>2. \A i \in 1 .. (n - 1) : i + 1 \in 1 .. n
      BY <1>3
    <2> QED BY <1>3, <2>1, <2>2 DEF Within
  <1>6. Elements(q) = {q[1]} \cup Elements(r)
    <2>1. ASSUME NEW i \in 1 .. n PROVE q[i] \in {q[1]} \cup Elements(r)
      <3>1. CASE i = 1
        BY <3>1
      <3>2. CASE i # 1
        <4>1. i - 1 \in 1 .. (n - 1) /\ (i - 1) + 1 = i
          BY <1>3, <3>2
        <4>2. r[i - 1] = q[i]
          BY <1>3, <4>1
        <4> QED BY <1>3, <4>1, <4>2 DEF Elements
      <3> QED BY <3>1, <3>2
    <2>2. ASSUME NEW i \in 1 .. (n - 1) PROVE r[i] \in Elements(q)
      <3>1. i + 1 \in 1 .. n
        BY <1>3
      <3> QED BY <1>1, <1>3, <3>1 DEF Elements
    <2>3. q[1] \in Elements(q)
      BY <1>1, <1>3 DEF Elements
    <2> QED BY <1>1, <1>3, <2>1, <2>2, <2>3 DEF Elements
  <1> QED BY <1>1, <1>2, <1>3, <1>4, <1>5, <1>6 DEF Chained

\* The headers at the beginning that are known.
LEMMA LeadingIs ==
  ASSUME NEW S, NEW hs \in Seq(S), NEW K
  PROVE  LeadingKnown(hs, K) \in 0 .. Len(hs) /\ \A j \in 1 .. LeadingKnown(hs, K) : hs[j] \in K
  <1> DEFINE T == {i \in 0 .. Len(hs) : \A j \in 1 .. i : hs[j] \in K}
  <1>1. T \in SUBSET (0 .. Len(hs)) /\ 0 \in T /\ Len(hs) \in Nat
    OBVIOUS
  <1>2. LeadingKnown(hs, K) = MaxHeight(T)
    BY DEF LeadingKnown
  <1> HIDE DEF T
  <1>3. MaxHeight(T) \in T
    BY <1>1, MaxIs
  <1> QED BY <1>2, <1>3 DEF T

\* The headers that are left after them.
LEMMA LeadingLeft ==
  ASSUME NEW K, NEW hs, Chained(hs, K), NEW L, Within(hs, L), NEW k, k = LeadingKnown(hs, K),
         NEW new, new = SubSeq(hs, k + 1, Len(hs))
  PROVE  /\ Chained(new, K) /\ Within(new, L) /\ k \in 0 .. Len(hs)
         /\ k # 0 => hs[k] \in K /\ hs[k] \in L
  <1>1. hs \in Seq(Block) /\ Len(hs) \in Nat
    BY DEF Chained
  <1>2. k \in 0 .. Len(hs) /\ \A j \in 1 .. k : hs[j] \in K
    BY <1>1, LeadingIs
  <1>3. PICK f : f = SubSeq(hs, 1, k)
    OBVIOUS
  <1>4. Chained(new, K \cup Elements(f)) /\ Within(new, L)
    BY <1>2, <1>3, ChainedPart
  <1>5. Len(f) = k /\ \A i \in 1 .. k : f[i] = hs[i]
    BY <1>1, <1>2, <1>3, PartIs
  <1>6. K \cup Elements(f) = K
    BY <1>2, <1>5 DEF Elements
  <1>7. k # 0 => k \in 1 .. k /\ k \in 1 .. Len(hs)
    BY <1>1, <1>2
  <1> QED BY <1>2, <1>4, <1>6, <1>7 DEF Within

\* The first batch of the headers, and the others.
LEMMA BatchIs ==
  ASSUME NEW K, NEW hs, Chained(hs, K), NEW L, Within(hs, L), hs # <<>>, BlockLimit \in Nat \ {0}
  PROVE  /\ FirstBatch(hs) # <<>> /\ Len(FirstBatch(hs)) <= BlockLimit /\ FirstBatch(hs) \in Seq(Block)
         /\ Chained(FirstBatch(hs), K) /\ Within(FirstBatch(hs), L)
         /\ Len(hs) > BlockLimit =>
              /\ Chained(SubSeq(hs, BlockLimit + 1, Len(hs)), K \cup Elements(FirstBatch(hs)))
              /\ Within(SubSeq(hs, BlockLimit + 1, Len(hs)), L)
  <1>1. hs \in Seq(Block) /\ Len(hs) \in Nat /\ Len(hs) >= 1
    BY DEF Chained
  <1>2. PICK m : m = IF Len(hs) > BlockLimit THEN BlockLimit ELSE Len(hs)
    OBVIOUS
  <1>3. m \in 0 .. Len(hs) /\ m >= 1 /\ m <= BlockLimit /\ (Len(hs) > BlockLimit => m = BlockLimit)
    BY <1>1, <1>2
  <1>4. FirstBatch(hs) = SubSeq(hs, 1, m)
    BY <1>2 DEF FirstBatch
  <1>5. SubSeq(hs, 1, m) \in Seq(Block) /\ Len(SubSeq(hs, 1, m)) = m
    BY <1>1, <1>3, PartIs
  <1>6. /\ Chained(SubSeq(hs, m + 1, Len(hs)), K \cup Elements(SubSeq(hs, 1, m)))
        /\ Within(SubSeq(hs, m + 1, Len(hs)), L)
        /\ Chained(SubSeq(hs, 1, m), K) /\ Within(SubSeq(hs, 1, m), L)
    BY <1>3, ChainedPart
  <1>7. SubSeq(hs, 1, m) # <<>>
    BY <1>3, <1>5
  <1> QED BY <1>3, <1>4, <1>5, <1>6, <1>7

-----------------------------------------------------------------------------
(***************************************************************************)
(* One direction of a connection, step by step                             *)
(***************************************************************************)

\* Both nodes may get blocks, and the second one may end its initial block download.
LEMMA LoadsGrow ==
  ASSUME NEW K, NEW L, NEW K2, NEW L2, K \subseteq K2, L \subseteq L2, NEW s, NEW q, NEW a, NEW c,
         NEW off, NEW off2, off2 => off, NEW dup, NEW dup2, dup => dup2, NEW ask, NEW ask2, ask2 => ask,
         Loads(K, L, s, q, a, c, off, dup, ask)
  PROVE  Loads(K2, L2, s, q, a, c, off2, dup2, ask2)
  <1>1. Locators(a, K2)
    BY DEF Loads, Locators
  <1>2. Lists(c, K2, L2, off2)
    BY ListsGrow DEF Loads
  <1>3. Wanted(s, K2, L2, off2)
    <2>1. K \cup Elements(s.requested) \subseteq K2 \cup Elements(s.requested)
      OBVIOUS
    <2>2. Wanted(s, K, L, off)
      BY DEF Loads
    <2>3. Chained(s.requested, K2) /\ Chained(s.pending, K2 \cup Elements(s.requested))
      BY <2>1, <2>2, ChainedGrows DEF Wanted
    <2>4. Within(s.requested, L2) /\ Within(s.pending, L2)
      BY <2>2 DEF Wanted, Within
    <2> QED BY <2>2, <2>3, <2>4 DEF Wanted
  <1>4. Accounted(s.requested, q.queue, a, c, dup2)
    BY DEF Loads, Accounted
  <1>5. SentTo(q.bestSent, c, K2) /\ BothHave(s.peersBest, K2, L2)
    BY DEF Loads, SentTo, BothHave
  <1>6. ask2 => Asks(q.sentAll, s.requested, a, c)
    BY DEF Loads
  <1> QED BY <1>1, <1>2, <1>3, <1>4, <1>5, <1>6 DEF Loads

\* A list of headers after which the node asks for more.
FullList(m) == m.type = "HeaderList" /\ Len(m.headers) = HeaderLimit

\* The first node takes a message that is not a block.
LEMMA ClientTakes ==
  ASSUME NEW K, NEW L, NEW s, NEW q, NEW a, NEW c \in Seq(Messages), c # <<>>, Head(c).type # "BlockResponse",
         NEW off, NEW dup, NEW ask, Loads(K, L, s, q, a, c, off, dup, ask)
  PROVE  Loads(K, L, s, q, a, Tail(c), off, dup, ask /\ ~FullList(Head(c)))
  <1>1. Lists(Tail(c), K, L, off)
    BY ListsTail DEF Loads
  <1>2. Accounted(s.requested, q.queue, a, Tail(c), dup)
    <2>1. <<>> \in Seq(Block)
      OBVIOUS
    <2>2. Carries(c, <<>>) => Carries(Tail(c), <<>>)
      BY <2>1, CarriesOther
    <2>3. \A bs \in Seq(Block) : Carries(c, bs) => Carries(Tail(c), bs)
      BY CarriesOther
    <2>4. Accounted(s.requested, q.queue, a, c, dup)
      BY DEF Loads
    <2> QED BY <2>2, <2>3, <2>4, Zenon DEF Accounted, Asked, Served, Refused
  <1>3. SentTo(q.bestSent, Tail(c), K)
    <2>1. Len(c) \in Nat /\ Len(Tail(c)) + 1 = Len(c)
      BY TailIs
    <2>2. K \cup Before(c, Len(c) + 1) \subseteq K \cup Before(Tail(c), Len(c))
      BY <2>1, BeforeTail
    <2> QED BY <2>1, <2>2 DEF Loads, SentTo, Coming
  <1>4. ask /\ ~FullList(Head(c)) => Asks(q.sentAll, s.requested, a, Tail(c))
    <2> SUFFICES ASSUME ask, ~FullList(Head(c)), NEW i \in 1 .. Len(c), FullList(c[i])
                 PROVE  \E j \in 1 .. Len(Tail(c)) : FullList(Tail(c)[j])
      BY DEF Loads, Asks, FullList
    <2>1. i # 1
      BY TailIs
    <2>2. PICK j : j = i - 1
      OBVIOUS
    <2>3. Len(c) \in Nat /\ Len(Tail(c)) = Len(c) - 1 /\ \A k \in 1 .. (Len(c) - 1) : Tail(c)[k] = c[k + 1]
      BY TailIs
    <2>4. j \in 1 .. (Len(c) - 1) /\ j + 1 = i
      BY <2>1, <2>2, <2>3
    <2>5. Tail(c)[j] = c[i]
      BY <2>3, <2>4
    <2> QED BY <2>3, <2>4, <2>5
  <1> QED BY <1>1, <1>2, <1>3, <1>4 DEF Loads

\* The second node takes a message that is not a request for blocks.
LEMMA ServerTakes ==
  ASSUME NEW K, NEW L, NEW s, NEW q, NEW a \in Seq(Messages), a # <<>>, Head(a).type # "BlockListRequest", NEW c,
         NEW off, NEW dup, NEW ask, Loads(K, L, s, q, a, c, off, dup, ask)
  PROVE  Loads(K, L, s, q, Tail(a), c, off, dup, ask /\ Head(a).type # "HeaderListRequest")
  <1>1. Locators(Tail(a), K)
    BY LocatorsTail DEF Loads
  <1>2. Accounted(s.requested, q.queue, Tail(a), c, dup)
    <2>1. NoRequest(a) => NoRequest(Tail(a))
      BY NoRequestTail
    <2>2. OneRequest(a, s.requested) => OneRequest(Tail(a), s.requested)
      BY OneRequestTail
    <2>3. Accounted(s.requested, q.queue, a, c, dup)
      BY DEF Loads
    <2> QED BY <2>1, <2>2, <2>3, Zenon DEF Accounted, Asked, Served, Refused
  <1>3. ask /\ Head(a).type # "HeaderListRequest" => Asks(q.sentAll, s.requested, Tail(a), c)
    <2> SUFFICES ASSUME ask, Head(a).type # "HeaderListRequest", NEW i \in 1 .. Len(a), a[i].type = "HeaderListRequest"
                 PROVE  \E j \in 1 .. Len(Tail(a)) : Tail(a)[j].type = "HeaderListRequest"
      BY DEF Loads, Asks
    <2>1. i # 1
      BY TailIs
    <2>2. PICK j : j = i - 1
      OBVIOUS
    <2>3. Len(a) \in Nat /\ Len(Tail(a)) = Len(a) - 1 /\ \A k \in 1 .. (Len(a) - 1) : Tail(a)[k] = a[k + 1]
      BY TailIs
    <2>4. j \in 1 .. (Len(a) - 1) /\ j + 1 = i
      BY <2>1, <2>2, <2>3
    <2>5. Tail(a)[j] = a[i]
      BY <2>3, <2>4
    <2> QED BY <2>3, <2>4, <2>5
  <1> QED BY <1>1, <1>2, <1>3 DEF Loads

\* The first node sends a message that is not a request for blocks.
LEMMA ClientSends ==
  ASSUME NEW K, NEW L, NEW s, NEW q, NEW a \in Seq(Messages), NEW c, NEW m \in Messages, m.type # "BlockListRequest",
         m.type = "HeaderListRequest" => m.locator \subseteq K,
         NEW off, NEW dup, NEW ask, Loads(K, L, s, q, a, c, off, dup, ask)
  PROVE  Loads(K, L, s, q, Append(a, m), c, off, dup, ask \/ m.type = "HeaderListRequest")
  <1>1. Locators(Append(a, m), K)
    BY LocatorsMore DEF Loads
  <1>2. Accounted(s.requested, q.queue, Append(a, m), c, dup)
    <2>1. NoRequest(a) => NoRequest(Append(a, m))
      BY NoRequestMore
    <2>2. OneRequest(a, s.requested) => OneRequest(Append(a, m), s.requested)
      BY OneRequestMore
    <2>3. Accounted(s.requested, q.queue, a, c, dup)
      BY DEF Loads
    <2> QED BY <2>1, <2>2, <2>3, Zenon DEF Accounted, Asked, Served, Refused
  <1>3. ask \/ m.type = "HeaderListRequest" => Asks(q.sentAll, s.requested, Append(a, m), c)
    <2>1. PICK d : d = Append(a, m)
      OBVIOUS
    <2>2. /\ Len(a) \in Nat /\ Len(d) = Len(a) + 1 /\ d[Len(a) + 1] = m
          /\ \A i \in 1 .. Len(a) : d[i] = a[i]
      BY <2>1, MoreIs
    <2>3. \A i \in 1 .. Len(a) : i \in 1 .. Len(d)
      BY <2>2
    <2>4. Len(a) + 1 \in 1 .. Len(d)
      BY <2>2
    <2>5. CASE m.type = "HeaderListRequest"
      BY <2>1, <2>2, <2>4, <2>5 DEF Asks
    <2>6. CASE ask
      BY <2>1, <2>2, <2>3, <2>6 DEF Asks, Loads
    <2> QED BY <2>5, <2>6
  <1> QED BY <1>1, <1>2, <1>3 DEF Loads

\* A list of headers that the second node may send.
ListFits(m, c, K, L, off) ==
  m.type = "HeaderList" => GoodHeaders(m.headers, L, off) /\ Connects(m.headers, K \cup Coming(c))

\* The second node sends a message that is not a block.
LEMMA ServerSends ==
  ASSUME NEW K, NEW L, NEW s, NEW q, NEW a, NEW c \in Seq(Messages), NEW m \in Messages, m.type # "BlockResponse",
         NEW off, ListFits(m, c, K, L, off), NEW dup, NEW ask, Loads(K, L, s, q, a, c, off, dup, ask)
  PROVE  Loads(K, L, s, q, a, Append(c, m), off, dup, ask \/ FullList(m))
  <1>1. Lists(Append(c, m), K, L, off)
    <2>1. Lists(c, K, L, off)
      BY DEF Loads
    <2> QED BY <2>1, ListsMore DEF ListFits
  <1>2. Accounted(s.requested, q.queue, a, Append(c, m), dup)
    <2>1. \A bs : Carries(c, bs) => Carries(Append(c, m), bs)
      BY CarriesMore
    <2>2. Accounted(s.requested, q.queue, a, c, dup)
      BY DEF Loads
    <2> QED BY <2>1, <2>2, Zenon DEF Accounted, Asked, Served, Refused
  <1>3. SentTo(q.bestSent, Append(c, m), K)
    <2>1. Coming(c) \subseteq Coming(Append(c, m))
      BY BeforeMore
    <2> QED BY <2>1 DEF Loads, SentTo
  <1>4. ask \/ FullList(m) => Asks(q.sentAll, s.requested, a, Append(c, m))
    <2>1. PICK d : d = Append(c, m)
      OBVIOUS
    <2>2. /\ Len(c) \in Nat /\ Len(d) = Len(c) + 1 /\ d[Len(c) + 1] = m
          /\ \A i \in 1 .. Len(c) : d[i] = c[i]
      BY <2>1, MoreIs
    <2>3. \A i \in 1 .. Len(c) : i \in 1 .. Len(d)
      BY <2>2
    <2>4. Len(c) + 1 \in 1 .. Len(d)
      BY <2>2
    <2>5. CASE FullList(m)
      BY <2>1, <2>2, <2>4, <2>5 DEF Asks, FullList
    <2>6. CASE ask
      BY <2>1, <2>2, <2>3, <2>6 DEF Asks, Loads
    <2> QED BY <2>5, <2>6
  <1> QED BY <1>1, <1>2, <1>3, <1>4 DEF Loads

\* The managers change, but neither what was requested nor what is queued and sent.
LEMMA NewManagers ==
  ASSUME NEW K, NEW L, NEW s, NEW s2, NEW q, NEW q2, NEW a, NEW c, NEW off, NEW dup, NEW ask, NEW ask2,
         Loads(K, L, s, q, a, c, off, dup, ask),
         s2.requested = s.requested, Wanted(s2, K, L, off), BothHave(s2.peersBest, K, L),
         q2.queue = q.queue, q2.bestSent = q.bestSent,
         ask2 => (ask /\ q2.sentAll = q.sentAll) \/ q2.sentAll
  PROVE  Loads(K, L, s2, q2, a, c, off, dup, ask2)
  <1>1. Accounted(s2.requested, q2.queue, a, c, dup) /\ SentTo(q2.bestSent, c, K)
    BY DEF Loads
  <1>2. ask2 => Asks(q2.sentAll, s2.requested, a, c)
    BY DEF Loads, Asks
  <1> QED BY <1>1, <1>2 DEF Loads

\* Two sequences, one after the other.
LEMMA JoinIs ==
  ASSUME NEW S, NEW bs \in Seq(S), NEW q \in Seq(S)
  PROVE  /\ bs \o q \in Seq(S) /\ Len(bs) \in Nat /\ Len(q) \in Nat /\ Len(bs \o q) = Len(bs) + Len(q)
         /\ \A i \in 1 .. Len(bs) : (bs \o q)[i] = bs[i]
         /\ \A i \in 1 .. Len(q) : (bs \o q)[Len(bs) + i] = q[i]
  OBVIOUS

LEMMA SameSequence ==
  ASSUME NEW S, NEW x \in Seq(S), NEW y \in Seq(S), Len(x) = Len(y), \A i \in 1 .. Len(x) : x[i] = y[i]
  PROVE  x = y
  OBVIOUS

\* The first block of the second one moves to the end of the first one.
LEMMA JoinMoved ==
  ASSUME NEW S, NEW bs \in Seq(S), NEW q \in Seq(S), q # <<>>
  PROVE  bs \o q = Append(bs, Head(q)) \o Tail(q)
  <1>1. PICK x, y, f, r : x = bs \o q /\ f = Append(bs, Head(q)) /\ r = Tail(q) /\ y = f \o r
    OBVIOUS
  <1>2. PICK m, n : m = Len(bs) /\ n = Len(q)
    OBVIOUS
  <1>3. /\ r \in Seq(S) /\ Head(q) = q[1] /\ q[1] \in S /\ n \in Nat /\ n >= 1
        /\ Len(r) = n - 1 /\ \A i \in 1 .. (n - 1) : r[i] = q[i + 1]
    BY <1>1, <1>2, TailIs
  <1>4. /\ f \in Seq(S) /\ m \in Nat /\ Len(f) = m + 1 /\ f[m + 1] = q[1]
        /\ \A i \in 1 .. m : f[i] = bs[i]
    BY <1>1, <1>2, <1>3, MoreIs
  <1>5. /\ x \in Seq(S) /\ Len(x) = m + n /\ \A i \in 1 .. m : x[i] = bs[i]
        /\ \A i \in 1 .. n : x[m + i] = q[i]
    BY <1>1, <1>2, JoinIs
  <1>6. /\ y \in Seq(S) /\ Len(y) = Len(f) + Len(r) /\ \A i \in 1 .. Len(f) : y[i] = f[i]
        /\ \A i \in 1 .. Len(r) : y[Len(f) + i] = r[i]
    BY <1>1, <1>3, <1>4, JoinIs
  <1>7. Len(y) = m + n
    BY <1>3, <1>4, <1>6
  <1>8. ASSUME NEW i \in 1 .. (m + n) PROVE x[i] = y[i]
    <2>1. CASE i \in 1 .. m
      <3>1. i \in 1 .. Len(f)
        BY <1>4, <2>1
      <3> QED BY <1>4, <1>5, <1>6, <2>1, <3>1
    <2>2. CASE i = m + 1
      <3>1. i \in 1 .. Len(f) /\ 1 \in 1 .. n
        BY <1>3, <1>4, <2>2
      <3> QED BY <1>4, <1>5, <1>6, <2>2, <3>1
    <2>3. CASE i > m + 1
      <3>1. PICK j : j = i - (m + 1)
        OBVIOUS
      <3>2. j \in 1 .. (n - 1) /\ j + 1 \in 1 .. n /\ i = m + (j + 1) /\ i = (m + 1) + j
        BY <1>3, <1>4, <2>3, <3>1
      <3>3. x[i] = q[j + 1]
        BY <1>5, <3>2
      <3>4. y[i] = r[j]
        BY <1>3, <1>4, <1>6, <3>2
      <3> QED BY <1>3, <3>2, <3>3, <3>4
    <2> QED BY <1>3, <1>4, <2>1, <2>2, <2>3
  <1>9. x = y
    BY <1>5, <1>6, <1>7, <1>8, SameSequence
  <1> QED BY <1>1, <1>9

\* The first block of the first one leaves.
LEMMA JoinTail ==
  ASSUME NEW S, NEW bs \in Seq(S), NEW q \in Seq(S), bs # <<>>
  PROVE  bs \o q # <<>> /\ Head(bs \o q) = Head(bs) /\ Tail(bs \o q) = Tail(bs) \o q
  <1>1. PICK x, y, z, r : x = bs \o q /\ r = Tail(bs) /\ y = r \o q /\ z = Tail(x)
    OBVIOUS
  <1>2. PICK m, n : m = Len(bs) /\ n = Len(q)
    OBVIOUS
  <1>3. /\ r \in Seq(S) /\ Head(bs) = bs[1] /\ m \in Nat /\ m >= 1
        /\ Len(r) = m - 1 /\ \A i \in 1 .. (m - 1) : r[i] = bs[i + 1]
    BY <1>1, <1>2, TailIs
  <1>4. /\ x \in Seq(S) /\ n \in Nat /\ Len(x) = m + n /\ \A i \in 1 .. m : x[i] = bs[i]
        /\ \A i \in 1 .. n : x[m + i] = q[i]
    BY <1>1, <1>2, JoinIs
  <1>5. /\ y \in Seq(S) /\ Len(y) = Len(r) + n /\ \A i \in 1 .. Len(r) : y[i] = r[i]
        /\ \A i \in 1 .. n : y[Len(r) + i] = q[i]
    BY <1>1, <1>2, <1>3, JoinIs
  <1>6. x # <<>> /\ 1 \in 1 .. m
    BY <1>3, <1>4
  <1>7. /\ z \in Seq(S) /\ Head(x) = x[1]
        /\ Len(z) = Len(x) - 1 /\ \A i \in 1 .. (Len(x) - 1) : z[i] = x[i + 1]
    BY <1>1, <1>4, <1>6, TailIs
  <1>8. Len(z) = (m + n) - 1 /\ Len(y) = (m + n) - 1 /\ (m + n) - 1 = Len(x) - 1
    BY <1>3, <1>4, <1>5, <1>7
  <1>9. ASSUME NEW i \in 1 .. ((m + n) - 1) PROVE z[i] = y[i]
    <2>1. z[i] = x[i + 1]
      BY <1>7, <1>8
    <2>2. CASE i \in 1 .. (m - 1)
      <3>1. i + 1 \in 1 .. m /\ i \in 1 .. Len(r)
        BY <1>3, <2>2
      <3> QED BY <1>3, <1>4, <1>5, <2>1, <2>2, <3>1
    <2>3. CASE i > m - 1
      <3>1. PICK j : j = i - (m - 1)
        OBVIOUS
      <3>2. j \in 1 .. n /\ i = (m - 1) + j /\ i + 1 = m + j
        BY <1>3, <1>4, <2>3, <3>1
      <3>3. y[i] = q[j]
        BY <1>3, <1>5, <3>2
      <3>4. x[i + 1] = q[j]
        BY <1>4, <3>2
      <3> QED BY <2>1, <3>3, <3>4
    <2> QED BY <1>3, <1>4, <2>2, <2>3
  <1>10. z = y
    BY <1>5, <1>7, <1>8, <1>9, SameSequence
  <1> QED BY <1>1, <1>3, <1>4, <1>6, <1>7, <1>10

\* Nothing is requested: nothing is on its way.
LEMMA Idle ==
  ASSUME NEW queue, NEW a, NEW c, NEW dup, Accounted(<<>>, queue, a, c, dup), queue \in Seq(Block)
  PROVE  queue = <<>> /\ NoRequest(a) /\ Carries(c, <<>>)
  <1>1. Served(<<>>, queue, a, c)
    BY DEF Accounted, Asked, Refused
  <1>2. PICK bs \in Seq(Block) : Carries(c, bs) /\ <<>> = bs \o queue
    BY <1>1 DEF Served
  <1>3. bs = <<>> /\ queue = <<>>
    <2>1. Len(bs) \in Nat /\ Len(queue) \in Nat /\ Len(bs \o queue) = Len(bs) + Len(queue)
      BY JoinIs
    <2>2. Len(bs \o queue) = 0
      BY <1>2
    <2>3. Len(bs) = 0 /\ Len(queue) = 0
      BY <2>1, <2>2
    <2> QED BY <2>3
  <1> QED BY <1>1, <1>2, <1>3 DEF Served

\* request_blocks of the first node.
LEMMA ClientAsks ==
  ASSUME NEW K, NEW L, NEW s \in Manager, NEW q \in Manager, NEW a \in Seq(Messages), NEW c, NEW off, NEW dup,
         NEW ask, NEW ask2, Loads(K, L, s, q, a, c, off, dup, ask), BlockLimit \in Nat \ {0},
         s.requested = <<>>, NEW hs, Chained(hs, K), Within(hs, L), hs # <<>>, ~off,
         NEW m \in Messages, m = BlockListRequest(FirstBatch(hs))
  PROVE  Loads(K, L, AfterBlockRequest(s, hs), q, Append(a, m), c, off, dup, ask2)
  <1>1. PICK s2 : s2 = AfterBlockRequest(s, hs)
    OBVIOUS
  <1>2. PICK batch : batch = FirstBatch(hs)
    OBVIOUS
  <1>3. /\ s2.requested = batch /\ s2.expectsBlocks /\ s2.peersBest = s.peersBest
        /\ Len(hs) > BlockLimit => s2.pending = SubSeq(hs, BlockLimit + 1, Len(hs))
        /\ ~(Len(hs) > BlockLimit) => s2.pending = s.pending
    BY <1>1, <1>2 DEF AfterBlockRequest, Manager
  <1>4. /\ batch # <<>> /\ Len(batch) <= BlockLimit /\ batch \in Seq(Block)
        /\ Chained(batch, K) /\ Within(batch, L)
        /\ Len(hs) > BlockLimit =>
              /\ Chained(SubSeq(hs, BlockLimit + 1, Len(hs)), K \cup Elements(batch))
              /\ Within(SubSeq(hs, BlockLimit + 1, Len(hs)), L)
    BY <1>2, BatchIs
  <1>5. Wanted(s2, K, L, off)
    <2>1. Wanted(s, K, L, off)
      BY DEF Loads
    <2>2. K \cup Elements(<<>>) \subseteq K \cup Elements(batch)
      BY DEF Elements
    <2>3. Chained(s.pending, K \cup Elements(batch)) /\ Within(s.pending, L)
      BY <2>1, <2>2, ChainedGrows DEF Wanted
    <2>4. Chained(s2.pending, K \cup Elements(batch)) /\ Within(s2.pending, L)
      BY <1>3, <1>4, <2>3
    <2> QED BY <1>3, <1>4, <2>4 DEF Wanted
  <1>6. q.queue = <<>> /\ NoRequest(a) /\ Carries(c, <<>>)
    <2>1. Accounted(<<>>, q.queue, a, c, dup)
      BY DEF Loads
    <2>2. q.queue \in Seq(Block)
      BY DEF Manager
    <2> QED BY <2>1, <2>2, Idle
  <1>7. m.type = "BlockListRequest" /\ m.ids = batch
    BY <1>2 DEF BlockListRequest
  <1>8. OneRequest(Append(a, m), batch)
    BY <1>6, <1>7, OneRequestNew
  <1>9. Accounted(s2.requested, q.queue, Append(a, m), c, dup)
    BY <1>3, <1>4, <1>6, <1>8 DEF Accounted, Asked
  <1>10. Locators(Append(a, m), K)
    <2>1. Locators(a, K)
      BY DEF Loads
    <2> QED BY <1>7, <2>1, LocatorsMore
  <1>11. Asks(q.sentAll, s2.requested, Append(a, m), c)
    BY <1>3, <1>4 DEF Asks
  <1> QED BY <1>1, <1>3, <1>5, <1>9, <1>10, <1>11 DEF Loads

\* A request for blocks arrives at the second node.
LEMMA ServerAsked ==
  ASSUME NEW K, NEW L, NEW s \in Manager, NEW q \in Manager, NEW a \in Seq(Messages), a # <<>>,
         Head(a).type = "BlockListRequest", NEW c, NEW off, NEW dup, NEW ask, Loads(K, L, s, q, a, c, off, dup, ask)
  PROVE  /\ Head(a).ids = s.requested /\ s.requested # <<>> /\ ~off /\ q.queue = <<>>
         /\ Len(s.requested) <= BlockLimit /\ Within(s.requested, L) /\ NoRequest(Tail(a)) /\ Carries(c, <<>>)
  <1>1. Asked(s.requested, q.queue, a, c)
    BY SomeRequest DEF Loads, Accounted, Served, Refused
  <1>2. OneRequest(a, s.requested)
    BY <1>1 DEF Asked
  <1>3. Head(a).ids = s.requested /\ NoRequest(Tail(a))
    BY <1>2, OneRequestTaken
  <1> QED BY <1>1, <1>3 DEF Asked, Loads, Wanted

\* It queues the blocks, or refuses them as duplicates.
Queues(q, q2, ids, dup) == q2 = [q EXCEPT !.queue = @ \o ids] \/ (q2 = q /\ dup)

LEMMA ServerQueues ==
  ASSUME NEW K, NEW L, NEW s \in Manager, NEW q \in Manager, NEW a \in Seq(Messages), a # <<>>,
         Head(a).type = "BlockListRequest", NEW c, NEW off, NEW dup, NEW dup2, NEW ask,
         Loads(K, L, s, q, a, c, off, dup, ask), dup => dup2, NEW q2,
         Queues(q, q2, Head(a).ids, dup2)
  PROVE  Loads(K, L, s, q2, Tail(a), c, off, dup2, ask)
  <1>1. /\ Head(a).ids = s.requested /\ s.requested # <<>> /\ q.queue = <<>>
        /\ NoRequest(Tail(a)) /\ Carries(c, <<>>)
    BY ServerAsked
  <1>2. s.requested \in Seq(Block)
    BY DEF Manager
  <1>3. q2.bestSent = q.bestSent /\ q2.sentAll = q.sentAll
    BY DEF Manager, Queues
  <1>4. Accounted(s.requested, q2.queue, Tail(a), c, dup2)
    <2>1. CASE q2 = [q EXCEPT !.queue = @ \o Head(a).ids]
      <3>1. q2.queue = s.requested
        BY <1>1, <1>2, <2>1 DEF Manager
      <3>2. <<>> \in Seq(Block) /\ s.requested = <<>> \o s.requested
        BY <1>2
      <3>3. Served(s.requested, q2.queue, Tail(a), c)
        BY <1>1, <3>1, <3>2 DEF Served
      <3> QED BY <3>3 DEF Accounted
    <2>2. CASE q2 = q /\ dup2
      BY <1>1, <2>2 DEF Accounted, Refused
    <2> QED BY <2>1, <2>2 DEF Queues
  <1>5. Locators(Tail(a), K)
    BY LocatorsTail DEF Loads
  <1>6. Asks(q2.sentAll, s.requested, Tail(a), c)
    BY <1>1 DEF Asks
  <1> QED BY <1>3, <1>4, <1>5, <1>6 DEF Loads

\* choose_peers_best_block returns one of its arguments.
LEMMA ChooseIs ==
  ASSUME NEW old, NEW new
  PROVE  ChoosePeersBest(old, new) = old \/ ChoosePeersBest(old, new) = new
  BY DEF ChoosePeersBest

\* send_block of the second node.
LEMMA ServerSendsBlock ==
  ASSUME NEW K, NEW L, NEW s \in Manager, NEW q \in Manager, NEW a, NEW c \in Seq(Messages), NEW off, NEW dup, NEW ask,
         Loads(K, L, s, q, a, c, off, dup, ask), q.queue # <<>>,
         NEW m \in Messages, m = BlockResponse(Head(q.queue)), NEW q2,
         q2 = [q EXCEPT !.queue = Tail(@), !.bestSent = ChoosePeersBest(@, Head(q.queue))]
  PROVE  Loads(K, L, s, q2, a, Append(c, m), off, dup, ask)
  <1>1. PICK b : b = Head(q.queue)
    OBVIOUS
  <1>2. q.queue \in Seq(Block) /\ b \in Block /\ Tail(q.queue) \in Seq(Block)
    BY <1>1 DEF Manager
  <1>3. m.type = "BlockResponse" /\ m.block = b
    BY <1>1 DEF BlockResponse
  <1>4. q2.queue = Tail(q.queue) /\ q2.bestSent = ChoosePeersBest(q.bestSent, b) /\ q2.sentAll = q.sentAll
    BY <1>1 DEF Manager
  <1>5. PICK bs \in Seq(Block) : NoRequest(a) /\ Carries(c, bs) /\ s.requested = bs \o q.queue
    BY DEF Loads, Accounted, Asked, Served, Refused
  <1>6. Carries(Append(c, m), Append(bs, b))
    BY <1>2, <1>3, <1>5, CarriesNew
  <1>7. Append(bs, b) \in Seq(Block) /\ s.requested = Append(bs, b) \o Tail(q.queue)
    <2>1. s.requested = Append(bs, b) \o Tail(q.queue)
      BY <1>1, <1>2, <1>5, JoinMoved
    <2> QED BY <1>2, <2>1
  <1>8. Accounted(s.requested, q2.queue, a, Append(c, m), dup)
    BY <1>4, <1>5, <1>6, <1>7, Zenon DEF Accounted, Served
  <1>9. Lists(Append(c, m), K, L, off)
    <2>1. Lists(c, K, L, off)
      BY DEF Loads
    <2> QED BY <1>3, <2>1, ListsMore
  <1>10. SentTo(q2.bestSent, Append(c, m), K)
    <2>1. Coming(c) \subseteq Coming(Append(c, m)) /\ b \in Coming(Append(c, m))
      BY <1>3, BeforeMore
    <2>2. q2.bestSent = q.bestSent \/ q2.bestSent = b
      BY <1>4, ChooseIs
    <2> QED BY <2>1, <2>2 DEF Loads, SentTo
  <1>11. s.requested # <<>>
    BY <1>2, <1>5
  <1>12. Asks(q2.sentAll, s.requested, a, Append(c, m))
    BY <1>11 DEF Asks
  <1> QED BY <1>8, <1>9, <1>10, <1>12 DEF Loads

\* A block arrives at the first node: it is the first one that was requested.
LEMMA ClientGets ==
  ASSUME NEW K, NEW L, NEW s \in Manager, NEW q \in Manager, NEW a, NEW c \in Seq(Messages), c # <<>>,
         Head(c).type = "BlockResponse", NEW off, NEW dup, NEW ask, Loads(K, L, s, q, a, c, off, dup, ask)
  PROVE  /\ s.requested # <<>> /\ Head(s.requested) = Head(c).block
         /\ Served(Tail(s.requested), q.queue, a, Tail(c))
         /\ Coming(c) \subseteq {Head(c).block} \cup Coming(Tail(c))
  <1>1. ~Carries(c, <<>>)
    <2>1. c[1].type = "BlockResponse" /\ 1 \in 1 .. Len(c)
      BY TailIs
    <2> QED BY <2>1, CarriesNone
  <1>2. PICK bs \in Seq(Block) : NoRequest(a) /\ Carries(c, bs) /\ s.requested = bs \o q.queue
    BY <1>1 DEF Loads, Accounted, Asked, Served, Refused
  <1>3. bs # <<>> /\ Head(bs) = Head(c).block /\ Carries(Tail(c), Tail(bs))
    BY <1>2, CarriesFirst
  <1>4. q.queue \in Seq(Block)
    BY DEF Manager
  <1>5. s.requested # <<>> /\ Head(s.requested) = Head(bs) /\ Tail(s.requested) = Tail(bs) \o q.queue
    <2>1. PICK queue : queue = q.queue /\ queue \in Seq(Block)
      BY <1>4
    <2>2. bs \o queue # <<>> /\ Head(bs \o queue) = Head(bs) /\ Tail(bs \o queue) = Tail(bs) \o queue
      BY <1>3, <2>1, JoinTail
    <2> QED BY <1>2, <2>1, <2>2
  <1>6. Tail(bs) \in Seq(Block)
    BY <1>3, TailIs
  <1>7. Served(Tail(s.requested), q.queue, a, Tail(c))
    BY <1>2, <1>3, <1>5, <1>6, Zenon DEF Served
  <1>8. Coming(c) \subseteq {Head(c).block} \cup Coming(Tail(c))
    <2>1. Len(c) \in Nat /\ Len(Tail(c)) + 1 = Len(c)
      BY TailIs
    <2>2. {} \cup Before(c, Len(c) + 1) \subseteq {Head(c).block} \cup Before(Tail(c), Len(c))
      BY <2>1, BeforeTail
    <2> QED BY <2>1, <2>2 DEF Coming
  <1> QED BY <1>3, <1>5, <1>7, <1>8

\* handle_block_response of the first node.
LEMMA ClientAccepts ==
  ASSUME NEW K, NEW L, NEW s \in Manager, NEW q \in Manager, NEW a, NEW c \in Seq(Messages), c # <<>>,
         Head(c).type = "BlockResponse", NEW off, NEW dup, NEW ask, Loads(K, L, s, q, a, c, off, dup, ask),
         BlockLimit \in Nat \ {0}, NEW b, b = Head(c).block, NEW s2,
         s2 = [s EXCEPT !.requested = Tail(s.requested), !.expectsBlocks = Tail(s.requested) # <<>>,
                        !.peersBest = ChoosePeersBest(@, b)]
  PROVE  Loads(K \cup {b}, L, s2, q, a, Tail(c), off, dup, Tail(s.requested) # <<>>)
  <1>1. /\ s.requested # <<>> /\ Head(s.requested) = b
        /\ Served(Tail(s.requested), q.queue, a, Tail(c)) /\ Coming(c) \subseteq {b} \cup Coming(Tail(c))
    <2>1. /\ s.requested # <<>> /\ Head(s.requested) = Head(c).block
          /\ Served(Tail(s.requested), q.queue, a, Tail(c))
          /\ Coming(c) \subseteq {Head(c).block} \cup Coming(Tail(c))
      BY ClientGets, Zenon
    <2> QED BY <2>1
  <1>2. PICK rest : rest = Tail(s.requested)
    OBVIOUS
  <1>3. /\ s2.requested = rest /\ s2.pending = s.pending /\ (rest # <<>> => s2.expectsBlocks)
        /\ s2.peersBest = ChoosePeersBest(s.peersBest, b)
    BY <1>2 DEF Manager
  <1>4. Wanted(s, K, L, off)
    BY DEF Loads
  <1>5. /\ Chained(rest, K \cup {b}) /\ Within(rest, L) /\ b \in L /\ rest \in Seq(Block)
        /\ Elements(s.requested) = {b} \cup Elements(rest) /\ Len(rest) < Len(s.requested)
    <2>1. PICK req : req = s.requested /\ Chained(req, K) /\ req # <<>> /\ Within(req, L)
      BY <1>1, <1>4 DEF Wanted
    <2>2. /\ Parent[Head(req)] \in K /\ Head(req) \in Block /\ Head(req) \in L
          /\ Chained(Tail(req), K \cup {Head(req)}) /\ Within(Tail(req), L) /\ Tail(req) \in Seq(Block)
          /\ Elements(req) = {Head(req)} \cup Elements(Tail(req)) /\ Len(Tail(req)) < Len(req)
      BY <2>1, ChainedTail
    <2> QED BY <1>1, <1>2, <2>1, <2>2
  <1>6. Len(rest) <= BlockLimit
    <2>1. Len(rest) \in Nat /\ Len(s.requested) \in Nat /\ Len(s.requested) <= BlockLimit
      BY <1>4, <1>5 DEF Manager, Wanted
    <2> QED BY <1>5, <2>1
  <1>7. Wanted(s2, K \cup {b}, L, off)
    <2>1. K \cup Elements(s.requested) = (K \cup {b}) \cup Elements(rest)
      BY <1>5
    <2> QED BY <1>1, <1>3, <1>4, <1>5, <1>6, <2>1 DEF Wanted
  <1>8. Locators(a, K \cup {b})
    BY DEF Loads, Locators
  <1>9. Lists(Tail(c), K \cup {b}, L, off)
    <2>1. Lists(c, K, L, off)
      BY DEF Loads
    <2> QED BY <2>1, ListsTail
  <1>10. SentTo(q.bestSent, Tail(c), K \cup {b})
    BY <1>1 DEF Loads, SentTo
  <1>11. BothHave(s2.peersBest, K \cup {b}, L)
    <2>1. s2.peersBest = s.peersBest \/ s2.peersBest = b
      BY <1>3, ChooseIs
    <2> QED BY <1>5, <2>1 DEF Loads, BothHave
  <1>12. rest # <<>> => Asks(q.sentAll, s2.requested, a, Tail(c))
    BY <1>3 DEF Asks
  <1> QED BY <1>1, <1>2, <1>3, <1>7, <1>8, <1>9, <1>10, <1>11, <1>12 DEF Loads, Accounted

-----------------------------------------------------------------------------
(***************************************************************************)
(* The network                                                             *)
(***************************************************************************)

\* Messages of each type.
LEMMA MessageIs ==
  /\ \A l \in SUBSET GenBlock : HeaderListRequest(l) \in Messages
  /\ \A hs \in Seq(Block) : HeaderList(hs) \in Messages /\ BlockListRequest(hs) \in Messages
  /\ \A b \in Block : BlockResponse(b) \in Messages
  /\ \A m \in Messages : /\ m.type = "HeaderListRequest" => m.locator \in SUBSET GenBlock
                         /\ m.type = "HeaderList" => m.headers \in Seq(Block)
                         /\ m.type = "BlockListRequest" => m.ids \in Seq(Block)
                         /\ m.type = "BlockResponse" => m.block \in Block /\ m = BlockResponse(m.block)
  BY DEF Messages, HeaderListRequest, HeaderList, BlockListRequest, BlockResponse

\* The part of TypeOK that is about the chainstates.
ChainstateOK ==
  /\ known \in [Node -> SUBSET GenBlock]
  /\ \A n \in Node : \A b \in known[n] \ {Genesis} : Parent[b] \in known[n]
  /\ tip \in [Node -> GenBlock]
  /\ \A n \in Node : tip[n] \in known[n]
  /\ ibd \subseteq Node
  /\ events \in [Node -> [Node -> Seq(Block)]]

\* The two ends of a connection, and the flags of both directions.
Ends(n, p, K, L, s, q, a, c, off1, off2, dup, ask1, ask2) ==
  /\ K = known[n] /\ L = known[p] /\ s = sync[n][p] /\ q = sync[p][n] /\ a = chan[n][p] /\ c = chan[p][n]
  /\ n # p /\ Closed(K) /\ tip[n] \in K /\ Closed(L) /\ tip[p] \in L
  /\ s \in Manager /\ q \in Manager /\ a \in Seq(Messages) /\ c \in Seq(Messages)
  /\ HeaderLimit \in Nat \ {0} /\ BlockLimit \in Nat \ {0}
  /\ (p \in ibd <=> off1) /\ (n \in ibd <=> off2) /\ (dup => Duplicates)
  /\ (IsUp(n, p) /\ p \notin network.inIbd => ask1) /\ (IsUp(n, p) /\ n \notin network.inIbd => ask2)
  /\ Loads(K, L, s, q, a, c, off1, dup, ask1)
  /\ Loads(L, K, q, s, c, a, off2, dup, ask2)

LEMMA EndsAre ==
  ASSUME SyncInv, NEW n \in Node, NEW p \in Node, {n, p} \in Links
  PROVE  \E K, L, s, q, a, c, off1, off2, dup, ask1, ask2 :
           Ends(n, p, K, L, s, q, a, c, off1, off2, dup, ask1, ask2)
  <1>1. {p, n} = {n, p}
    OBVIOUS
  <1>2. n # p
    <2>1. Cardinality({n, p}) = 2
      BY SyncAssumption DEF SyncInv, Links
    <2>2. ASSUME n = p PROVE FALSE
      <3>1. {n, p} = {n}
        BY <2>2
      <3>2. Cardinality({n}) = 1
        BY FS_Singleton
      <3> QED BY <2>1, <3>1, <3>2
    <2> QED BY <2>2
  <1>3. HeaderLimit \in Nat \ {0} /\ BlockLimit \in Nat \ {0}
    BY SyncAssumption DEF SyncInv, HeaderLimit, BlockLimit
  <1>4. TypeOK
    BY DEF SyncInv
  <1>5. Closed(known[n]) /\ tip[n] \in known[n] /\ Closed(known[p]) /\ tip[p] \in known[p]
    BY <1>4 DEF TypeOK, Closed
  <1>6. /\ sync[n][p] \in Manager /\ sync[p][n] \in Manager
        /\ chan[n][p] \in Seq(Messages) /\ chan[p][n] \in Seq(Messages)
    BY <1>4 DEF TypeOK
  <1>7. Direction(n, p) /\ Direction(p, n)
    BY <1>1 DEF SyncInv
  <1>8. /\ Loads(known[n], known[p], sync[n][p], sync[p][n], chan[n][p], chan[p][n],
                 p \in ibd, Duplicates, IsUp(n, p) /\ p \notin network.inIbd)
        /\ Loads(known[p], known[n], sync[p][n], sync[n][p], chan[p][n], chan[n][p],
                 n \in ibd, Duplicates, IsUp(n, p) /\ n \notin network.inIbd)
    BY <1>1, <1>7 DEF Direction, IsUp
  <1>9. Ends(n, p, known[n], known[p], sync[n][p], sync[p][n], chan[n][p], chan[p][n], p \in ibd, n \in ibd,
             Duplicates, IsUp(n, p) /\ p \notin network.inIbd, IsUp(n, p) /\ n \notin network.inIbd)
    BY <1>2, <1>3, <1>5, <1>6, <1>8 DEF Ends
  <1> QED BY <1>9, Zenon

\* Nothing of the connection changes.
Untouched(x, y) ==
  chan'[x][y] = chan[x][y] /\ sync'[x][y] = sync[x][y] /\ ({x, y} \in up' <=> {x, y} \in up)
Elsewhere(n, p) == \A x, y \in Node : {x, y} # {n, p} => Untouched(x, y)

\* What changes in one way only.
Grows ==
  /\ network' = network /\ ibd' \subseteq ibd /\ errors \subseteq errors'
  /\ \A x \in Node : known[x] \subseteq known'[x]

\* What a direction is after a step.
LEMMA DirectionIs ==
  ASSUME network' = network, NEW x, NEW y, NEW K, NEW L, NEW s, NEW q, NEW a, NEW c,
         K = known'[x], L = known'[y], s = sync'[x][y], q = sync'[y][x], a = chan'[x][y], c = chan'[y][x],
         Loads(K, L, s, q, a, c, y \in ibd', Duplicates', IsUp(x, y)' /\ y \notin network.inIbd)
  PROVE  Direction(x, y)'
  <1>1. HeaderLimit' = HeaderLimit /\ BlockLimit' = BlockLimit
    BY DEF HeaderLimit, BlockLimit
  <1>2. Locators(chan[x][y], known[x])'
    BY DEF Loads, Locators
  <1>3. Lists(chan[y][x], known[x], known[y], y \in ibd)'
    BY <1>1 DEF Loads, Lists, GoodHeaders
  <1>4. Wanted(sync[x][y], known[x], known[y], y \in ibd)'
    BY <1>1 DEF Loads, Wanted
  <1>5. Accounted(sync[x][y].requested, sync[y][x].queue, chan[x][y], chan[y][x], Duplicates)'
    BY DEF Loads
  <1>6. SentTo(sync[y][x].bestSent, chan[y][x], known[x])' /\ BothHave(sync[x][y].peersBest, known[x], known[y])'
    BY DEF Loads
  <1>7. (IsUp(x, y) /\ y \notin network.inIbd)' => Asks(sync[y][x].sentAll, sync[x][y].requested, chan[x][y], chan[y][x])'
    BY <1>1 DEF Loads, Asks
  <1> QED BY <1>2, <1>3, <1>4, <1>5, <1>6, <1>7 DEF Direction, Loads

LEMMA DirectionKept ==
  ASSUME SyncInv, Grows, NEW x \in Node, NEW y \in Node, {x, y} \in Links, Untouched(x, y), Untouched(y, x)
  PROVE  Direction(x, y)'
  <1>1. Direction(x, y)
    BY DEF SyncInv
  <1>2. PICK K, L, s, q, a, c, K2, L2 : /\ K = known[x] /\ L = known[y] /\ s = sync[x][y] /\ q = sync[y][x]
                                        /\ a = chan[x][y] /\ c = chan[y][x] /\ K2 = known'[x] /\ L2 = known'[y]
    OBVIOUS
  <1>3. /\ K \subseteq K2 /\ L \subseteq L2 /\ (y \in ibd' => y \in ibd) /\ (Duplicates => Duplicates')
        /\ (IsUp(x, y)' /\ y \notin network.inIbd => IsUp(x, y) /\ y \notin network.inIbd) /\ network' = network
    BY <1>2 DEF Grows, Untouched, Duplicates, IsUp
  <1>4. Loads(K, L, s, q, a, c, y \in ibd, Duplicates, IsUp(x, y) /\ y \notin network.inIbd)
    BY <1>1, <1>2 DEF Direction
  <1>5. Loads(K2, L2, s, q, a, c, y \in ibd', Duplicates', IsUp(x, y)' /\ y \notin network.inIbd)
    BY <1>3, <1>4, LoadsGrow
  <1>6. s = sync'[x][y] /\ q = sync'[y][x] /\ a = chan'[x][y] /\ c = chan'[y][x]
    BY <1>2 DEF Untouched
  <1> QED BY <1>2, <1>3, <1>5, <1>6, DirectionIs

LEMMA InvKept ==
  ASSUME SyncInv, Grows, TypeOK', errors' \subseteq {"DuplicatedBlockRequest"},
         NEW n \in Node, NEW p \in Node, {n, p} \in Links, Elsewhere(n, p), Direction(n, p)', Direction(p, n)'
  PROVE  SyncInv'
  <1>1. network' \in Networks /\ (ibd \subseteq network.inIbd)'
    BY DEF SyncInv, Grows
  <1>2. Links' = Links
    BY DEF Grows, Links
  <1>3. ASSUME NEW x \in Node, NEW y \in Node, {x, y} \in Links PROVE Direction(x, y)'
    <2>1. CASE {x, y} = {n, p}
      <3>1. (x = n /\ y = p) \/ (x = p /\ y = n)
        BY <2>1
      <3> QED BY <3>1
    <2>2. CASE {x, y} # {n, p}
      <3>1. {y, x} = {x, y}
        OBVIOUS
      <3>2. Untouched(x, y) /\ Untouched(y, x)
        BY <2>2, <3>1 DEF Elsewhere
      <3> QED BY <1>3, <3>2, DirectionKept
    <2> QED BY <2>1, <2>2
  <1>4. (\A x, y \in Node : {x, y} \in Links => Direction(x, y))'
    BY <1>2, <1>3
  <1> QED BY <1>1, <1>4 DEF SyncInv

LEMMA TypeParts ==
  TypeOK <=> /\ ChainstateOK /\ up \subseteq Links
             /\ chan \in [Node -> [Node -> Seq(Messages)]] /\ sync \in [Node -> [Node -> Manager]]
             /\ errors \subseteq Errors /\ disconnects \in 0 .. MaxDisconnects
  BY DEF TypeOK, ChainstateOK

\* n handles a message of p and its manager is then s; d and e are then on their way to n and p.
Handles(n, p, s, msgs, d, e) ==
  /\ n \in Node /\ p \in Node /\ n # p /\ {n, p} \in Links /\ s \in Manager
  /\ d \in Seq(Messages) /\ e \in Seq(Messages) /\ d = Tail(chan[p][n]) /\ e = chan[n][p] \o msgs
  /\ Handled(n, p, s, msgs)

\* What Handled changes.
LEMMA HandledIs ==
  ASSUME SyncInv, NEW n, NEW p, NEW s, NEW msgs, NEW d, NEW e, Handles(n, p, s, msgs, d, e)
  PROVE  /\ chan' \in [Node -> [Node -> Seq(Messages)]] /\ sync' \in [Node -> [Node -> Manager]]
         /\ chan'[p][n] = d /\ chan'[n][p] = e /\ sync'[n][p] = s /\ sync'[p][n] = sync[p][n]
         /\ Elsewhere(n, p)
  <1> USE DEF Handles
  <1>1. chan \in [Node -> [Node -> Seq(Messages)]] /\ sync \in [Node -> [Node -> Manager]]
    BY DEF SyncInv, TypeOK
  <1>2. chan' = [chan EXCEPT ![p][n] = d, ![n][p] = e]
    BY DEF Handled
  <1>3. chan' \in [Node -> [Node -> Seq(Messages)]] /\ chan'[p][n] = d /\ chan'[n][p] = e
    BY <1>1, <1>2
  <1>4. sync' = [sync EXCEPT ![n][p] = s]
    BY DEF Handled
  <1>5. sync' \in [Node -> [Node -> Manager]] /\ sync'[n][p] = s /\ sync'[p][n] = sync[p][n]
    BY <1>1, <1>4
  <1>6. ASSUME NEW x \in Node, NEW y \in Node, {x, y} # {n, p} PROVE Untouched(x, y)
    <2>1. ~(x = n /\ y = p) /\ ~(x = p /\ y = n)
      BY <1>6
    <2>2. chan'[x][y] = chan[x][y]
      BY <1>1, <1>2, <2>1
    <2>3. sync'[x][y] = sync[x][y]
      BY <1>1, <1>4, <2>1
    <2>4. up' = up
      BY DEF Handled
    <2> QED BY <2>2, <2>3, <2>4 DEF Untouched
  <1> QED BY <1>3, <1>5, <1>6 DEF Elsewhere

\* Both directions after n has handled a message of p.
LEMMA HandleStep ==
  ASSUME SyncInv, NEW n, NEW p, NEW s, NEW msgs, NEW d, NEW e, Handles(n, p, s, msgs, d, e),
         ChainstateOK', Grows, errors' \subseteq {"DuplicatedBlockRequest"},
         NEW K, K \subseteq known'[n], NEW L, L = known[p], NEW q, q = sync[p][n],
         NEW off1, NEW off2, p \in ibd => off1, n \in ibd => off2, NEW dup, dup => Duplicates', NEW ask1, NEW ask2,
         IsUp(n, p) /\ p \notin network.inIbd => ask1, IsUp(n, p) /\ n \notin network.inIbd => ask2,
         Loads(K, L, s, q, e, d, off1, dup, ask1),
         Loads(L, K, q, s, d, e, off2, dup, ask2)
  PROVE  SyncInv'
  <1>1. /\ chan' \in [Node -> [Node -> Seq(Messages)]] /\ sync' \in [Node -> [Node -> Manager]]
        /\ chan'[p][n] = d /\ chan'[n][p] = e /\ sync'[n][p] = s /\ sync'[p][n] = sync[p][n]
        /\ Elsewhere(n, p)
    BY HandledIs, Zenon
  <1>2. up' = up /\ disconnects' = disconnects /\ n \in Node /\ p \in Node /\ {n, p} \in Links
    BY DEF Handles, Handled
  <1>3. network' = network /\ Links' = Links /\ MaxDisconnects' = MaxDisconnects
    BY DEF Grows, Links, MaxDisconnects
  <1>4. TypeOK'
    <2>1. up' \subseteq Links' /\ disconnects' \in 0 .. MaxDisconnects'
      BY <1>2, <1>3 DEF SyncInv, TypeOK
    <2>2. errors' \subseteq Errors
      BY DEF Errors
    <2> QED BY <1>1, <2>1, <2>2 DEF TypeOK, ChainstateOK
  <1>5. PICK K2, L2 : K2 = known'[n] /\ L2 = known'[p] /\ K \subseteq K2 /\ L \subseteq L2
    BY <1>2 DEF Grows
  <1>6. (p \in ibd' => off1) /\ (n \in ibd' => off2)
    BY DEF Grows
  <1>7. (IsUp(n, p)' /\ p \notin network.inIbd => ask1) /\ (IsUp(p, n)' /\ n \notin network.inIbd => ask2)
    <2>1. {p, n} = {n, p}
      OBVIOUS
    <2> QED BY <1>2, <2>1 DEF IsUp
  <1>8. Loads(K2, L2, s, q, e, d, p \in ibd', Duplicates', IsUp(n, p)' /\ p \notin network.inIbd)
    BY <1>5, <1>6, <1>7, LoadsGrow, Zenon
  <1>9. Loads(L2, K2, q, s, d, e, n \in ibd', Duplicates', IsUp(p, n)' /\ n \notin network.inIbd)
    BY <1>5, <1>6, <1>7, LoadsGrow, Zenon
  <1>10. s = sync'[n][p] /\ q = sync'[p][n] /\ e = chan'[n][p] /\ d = chan'[p][n]
    BY <1>1
  <1>11. Direction(n, p)'
    BY <1>3, <1>5, <1>8, <1>10, DirectionIs
  <1>12. Direction(p, n)'
    BY <1>3, <1>5, <1>9, <1>10, DirectionIs
  <1> QED BY <1>1, <1>2, <1>4, <1>11, <1>12, InvKept

\* The chainstates stay as they are.
LEMMA SameIs ==
  ASSUME SyncInv, SameChainstate, network' = network, errors \subseteq errors'
  PROVE  ChainstateOK' /\ Grows /\ known' = known
  BY DEF SyncInv, TypeOK, ChainstateOK, SameChainstate, Grows

\* A block arrives whose parent is known.
LEMMA ProcessIs ==
  ASSUME SyncInv, NEW n \in Node, NEW b \in Block, Parent[b] \in known[n], ProcessBlock(n, b),
         network' = network, errors' = errors
  PROVE  ChainstateOK' /\ Grows /\ known'[n] = known[n] \cup {b} /\ tip'[n] \in known'[n]
  <1>1. ChainstateOK
    BY TypeParts DEF SyncInv
  <1>2. b \in GenBlock
    BY DEF GenBlock
  <1>3. known' \in [Node -> SUBSET GenBlock] /\ known' = [known EXCEPT ![n] = known[n] \cup {b}]
    BY <1>1, <1>2 DEF ProcessBlock, ChainstateOK
  <1>4. known'[n] = known[n] \cup {b} /\ \A x \in Node : known[x] \subseteq known'[x] /\ (x # n => known'[x] = known[x])
    BY <1>1, <1>3 DEF ChainstateOK
  <1>5. ASSUME NEW x \in Node, NEW k \in known'[x] \ {Genesis} PROVE Parent[k] \in known'[x]
    BY <1>1, <1>4, <1>5 DEF ChainstateOK
  <1>6. tip' \in [Node -> GenBlock] /\ \A x \in Node : tip'[x] = tip[x] \/ (x = n /\ tip'[x] = b)
    BY <1>1, <1>2 DEF ProcessBlock, ChainstateOK
  <1>7. \A x \in Node : tip'[x] \in known'[x]
    BY <1>1, <1>4, <1>6 DEF ChainstateOK
  <1>8. ibd' \subseteq ibd /\ ibd' \subseteq Node
    BY <1>1 DEF ProcessBlock, ChainstateOK
  <1>9. events' \in [Node -> [Node -> Seq(Block)]]
    <2>1. events \in [Node -> [Node -> Seq(Block)]]
      BY <1>1 DEF ChainstateOK
    <2>2. \A x \in Node : Append(events[n][x], b) \in Seq(Block)
      BY <2>1
    <2>3. PICK ev : ev = [x \in Node |-> IF IsUp(n, x) THEN Append(events[n][x], b) ELSE events[n][x]]
      OBVIOUS
    <2>4. ev \in [Node -> Seq(Block)]
      BY <2>1, <2>2, <2>3
    <2>5. events' = events \/ events' = [events EXCEPT ![n] = ev]
      BY <2>3 DEF ProcessBlock
    <2> QED BY <2>1, <2>4, <2>5
  <1> QED BY <1>3, <1>4, <1>5, <1>6, <1>7, <1>8, <1>9 DEF ChainstateOK, Grows

-----------------------------------------------------------------------------
(***************************************************************************)
(* One lemma per action                                                    *)
(***************************************************************************)

\* What n takes from the channel and what it sends.
LEMMA GetsIs ==
  ASSUME NEW n, NEW p, NEW K, NEW L, NEW s, NEW q, NEW a, NEW c, NEW off1, NEW off2, NEW dup, NEW ask1, NEW ask2,
         Ends(n, p, K, L, s, q, a, c, off1, off2, dup, ask1, ask2), NEW type, Gets(n, p, type)
  PROVE  /\ c # <<>> /\ Head(c).type = type /\ Head(c) \in Messages /\ Tail(c) \in Seq(Messages)
         /\ Tail(c) = Tail(chan[p][n])
  BY TailIs DEF Gets, Ends

LEMMA SendsIs ==
  ASSUME NEW n, NEW p, NEW K, NEW L, NEW s, NEW q, NEW a, NEW c, NEW off1, NEW off2, NEW dup, NEW ask1, NEW ask2,
         Ends(n, p, K, L, s, q, a, c, off1, off2, dup, ask1, ask2)
  PROVE  /\ a \in Seq(Messages) /\ a = chan[n][p] \o <<>>
         /\ \A m \in Messages : Append(a, m) \in Seq(Messages) /\ Append(a, m) = chan[n][p] \o <<m>>
  <1>1. a \in Seq(Messages) /\ a = chan[n][p]
    BY DEF Ends
  <1>2. a \o <<>> = a
    BY <1>1
  <1>3. \A m \in Messages : Append(a, m) \in Seq(Messages) /\ a \o <<m>> = Append(a, m)
    BY <1>1, MoreIs
  <1> QED BY <1>1, <1>2, <1>3

\* n handles a message, and the chainstates stay as they are.
LEMMA QuietStep ==
  ASSUME SyncInv, network' = network, NEW n \in Node, NEW p \in Node, {n, p} \in Links,
         NEW K, NEW L, NEW s, NEW q, NEW a, NEW c, NEW off1, NEW off2, NEW dup, NEW ask1, NEW ask2,
         Ends(n, p, K, L, s, q, a, c, off1, off2, dup, ask1, ask2), NEW type, Gets(n, p, type),
         NEW s2 \in Manager, NEW msgs, Handled(n, p, s2, msgs), NEW e \in Seq(Messages), e = chan[n][p] \o msgs,
         SameChainstate, errors \subseteq errors', errors' \subseteq {"DuplicatedBlockRequest"},
         NEW dup2, dup2 => Duplicates', NEW b1, NEW b2,
         IsUp(n, p) /\ p \notin network.inIbd => b1, IsUp(n, p) /\ n \notin network.inIbd => b2,
         Loads(K, L, s2, q, e, Tail(c), off1, dup2, b1), Loads(L, K, q, s2, Tail(c), e, off2, dup2, b2)
  PROVE  SyncInv'
  <1>1. PICK d : d = Tail(c)
    OBVIOUS
  <1>2. Handles(n, p, s2, msgs, d, e)
    <2>1. d \in Seq(Messages) /\ d = Tail(chan[p][n])
      BY <1>1, GetsIs
    <2>2. n # p
      BY DEF Ends
    <2> QED BY <2>1, <2>2 DEF Handles
  <1>3. ChainstateOK' /\ Grows /\ known' = known
    BY SameIs
  <1>4. K \subseteq known'[n] /\ L = known[p] /\ q = sync[p][n] /\ (p \in ibd => off1) /\ (n \in ibd => off2)
    BY <1>3 DEF Ends
  <1>5. Loads(K, L, s2, q, e, d, off1, dup2, b1) /\ Loads(L, K, q, s2, d, e, off2, dup2, b2)
    BY <1>1
  <1> QED BY <1>2, <1>3, <1>4, <1>5, HandleStep

\* What the actions that leave requests and queues alone change of a manager.
SameLoad(s, s2) ==
  /\ s2 \in Manager /\ s2.pending = s.pending /\ s2.requested = s.requested /\ s2.expectsBlocks = s.expectsBlocks
  /\ s2.queue = s.queue /\ s2.bestSent = s.bestSent

LEMMA SameWanted ==
  ASSUME NEW K, NEW L, NEW s, NEW q, NEW a, NEW c, NEW off, NEW dup, NEW ask, Loads(K, L, s, q, a, c, off, dup, ask),
         NEW s2, SameLoad(s, s2)
  PROVE  Wanted(s2, K, L, off)
  BY DEF Loads, Wanted, SameLoad

\* An answer to a request for headers.
LEMMA AnswerHeaders ==
  ASSUME NEW n, NEW p, NEW K, NEW L, NEW s, NEW q, NEW a, NEW c, NEW off1, NEW off2, NEW dup, NEW ask1, NEW ask2,
         Ends(n, p, K, L, s, q, a, c, off1, off2, dup, ask1, ask2), Gets(n, p, "HeaderListRequest"),
         NEW hs \in Seq(Block), GoodHeaders(hs, K, off2), Connects(hs, L), NEW m, m = HeaderList(hs),
         NEW s2, SameLoad(s, s2), BothHave(s2.peersBest, K, L)
  PROVE  /\ Loads(K, L, s2, q, Append(a, m), Tail(c), off1, dup, ask1)
         /\ Loads(L, K, q, s2, Tail(c), Append(a, m), off2, dup, s2.sentAll \/ FullList(m))
  <1>1. /\ c # <<>> /\ Head(c).type = "HeaderListRequest" /\ Head(c) \in Messages /\ Tail(c) \in Seq(Messages)
    BY GetsIs
  <1>2. /\ a \in Seq(Messages) /\ c \in Seq(Messages)
        /\ Loads(K, L, s, q, a, c, off1, dup, ask1) /\ Loads(L, K, q, s, c, a, off2, dup, ask2)
    BY DEF Ends
  <1>3. m \in Messages /\ m.type = "HeaderList" /\ m.headers = hs
    BY MessageIs DEF HeaderList
  <1>4. Head(c).type # "BlockResponse" /\ Head(c).type # "BlockListRequest" /\ ~FullList(Head(c))
    BY <1>1 DEF FullList
  <1>5. Loads(K, L, s2, q, a, Tail(c), off1, dup, ask1)
    <2>1. Loads(K, L, s, q, a, Tail(c), off1, dup, ask1 /\ ~FullList(Head(c)))
      BY <1>1, <1>2, <1>4, ClientTakes
    <2>2. s2.requested = s.requested /\ Wanted(s2, K, L, off1)
      BY <1>2, SameWanted DEF SameLoad
    <2>3. Loads(K, L, s, q, a, Tail(c), off1, dup, ask1)
      BY <1>4, <2>1, LoadsGrow
    <2> QED BY <2>2, <2>3, NewManagers
  <1>6. Loads(K, L, s2, q, Append(a, m), Tail(c), off1, dup, ask1)
    <2>1. Loads(K, L, s2, q, Append(a, m), Tail(c), off1, dup, ask1 \/ m.type = "HeaderListRequest")
      BY <1>2, <1>3, <1>5, ClientSends
    <2> QED BY <2>1, LoadsGrow
  <1>7. Loads(L, K, q, s2, Tail(c), a, off2, dup, s2.sentAll)
    <2>1. Loads(L, K, q, s, Tail(c), a, off2, dup, ask2 /\ Head(c).type # "HeaderListRequest")
      BY <1>1, <1>2, <1>4, ServerTakes
    <2>2. Wanted(q, L, K, off2) /\ BothHave(q.peersBest, L, K)
      BY <1>2 DEF Loads
    <2>3. s2.queue = s.queue /\ s2.bestSent = s.bestSent
      BY DEF SameLoad
    <2> QED BY <2>1, <2>2, <2>3, NewManagers
  <1>8. Connects(hs, L \cup Coming(a))
    BY DEF Connects
  <1>9. Loads(L, K, q, s2, Tail(c), Append(a, m), off2, dup, s2.sentAll \/ FullList(m))
    <2>1. m.type # "BlockResponse"
      BY <1>3
    <2>2. ListFits(m, a, L, K, off2)
      BY <1>3, <1>8 DEF ListFits
    <2>3. PICK v : v = s2.sentAll
      OBVIOUS
    <2>4. Loads(L, K, q, s2, Tail(c), a, off2, dup, v)
      BY <1>7, <2>3
    <2>5. Loads(L, K, q, s2, Tail(c), Append(a, m), off2, dup, v \/ FullList(m))
      BY <1>2, <1>3, <2>1, <2>2, <2>4, ServerSends
    <2> QED BY <2>3, <2>5
  <1> QED BY <1>6, <1>9

LEMMA RefuseHeadersStep ==
  ASSUME SyncInv, network' = network, NEW n \in Node, NEW p \in Node, {n, p} \in Links, RefuseHeaders(n, p)
  PROVE  SyncInv'
  <1>1. PICK K, L, s, q, a, c, off1, off2, dup, ask1, ask2 :
               Ends(n, p, K, L, s, q, a, c, off1, off2, dup, ask1, ask2)
    BY EndsAre
  <1>2. PICK hs, m, e : hs = <<>> /\ m = HeaderList(hs) /\ e = Append(a, m)
    OBVIOUS
  <1>3. /\ Gets(n, p, "HeaderListRequest") /\ n \in ibd /\ SameChainstate /\ errors' = errors
        /\ Handled(n, p, s, <<m>>)
    BY <1>1, <1>2 DEF RefuseHeaders, Ends
  <1>4. hs \in Seq(Block) /\ m \in Messages /\ GoodHeaders(hs, K, off2) /\ Connects(hs, L)
    <2>1. hs \in Seq(Block) /\ Len(hs) = 0 /\ HeaderLimit \in Nat
      BY <1>1, <1>2 DEF Ends
    <2>2. Len(hs) <= HeaderLimit /\ Linked(hs) /\ Within(hs, K)
      BY <2>1 DEF Linked, Within
    <2>3. m \in Messages
      BY <1>2, <2>1, MessageIs
    <2> QED BY <1>2, <2>1, <2>2, <2>3 DEF GoodHeaders, Connects
  <1>5. SameLoad(s, s) /\ BothHave(s.peersBest, K, L)
    BY <1>1 DEF Ends, SameLoad, Loads
  <1>6. /\ Loads(K, L, s, q, e, Tail(c), off1, dup, ask1)
        /\ Loads(L, K, q, s, Tail(c), e, off2, dup, s.sentAll \/ FullList(m))
    BY <1>1, <1>2, <1>3, <1>4, <1>5, AnswerHeaders
  <1>7. s \in Manager /\ e \in Seq(Messages) /\ e = chan[n][p] \o <<m>>
    <2>1. e \in Seq(Messages) /\ e = chan[n][p] \o <<m>>
      BY <1>1, <1>2, <1>4, SendsIs
    <2> QED BY <1>5, <2>1 DEF SameLoad
  <1>8. (dup => Duplicates') /\ (IsUp(n, p) /\ p \notin network.inIbd => ask1)
    BY <1>1, <1>3 DEF Ends, Duplicates
  <1>9. IsUp(n, p) /\ n \notin network.inIbd => s.sentAll \/ FullList(m)
    BY <1>3 DEF SyncInv
  <1>10. errors \subseteq errors' /\ errors' \subseteq {"DuplicatedBlockRequest"}
    BY <1>3 DEF SyncInv
  <1> QED BY <1>1, <1>3, <1>6, <1>7, <1>8, <1>9, <1>10, QuietStep, Zenon

LEMMA SendHeadersStep ==
  ASSUME SyncInv, network' = network, NEW n \in Node, NEW p \in Node, {n, p} \in Links, SendHeaders(n, p)
  PROVE  SyncInv'
  <1>1. PICK K, L, s, q, a, c, off1, off2, dup, ask1, ask2 :
               Ends(n, p, K, L, s, q, a, c, off1, off2, dup, ask1, ask2)
    BY EndsAre
  <1>2. PICK t, locator, hs : t = tip[n] /\ locator = Head(c).locator /\ hs = HeadersByLocator(t, locator)
    OBVIOUS
  <1>3. PICK m, e, s2 : /\ m = HeaderList(hs) /\ e = Append(a, m)
                        /\ s2 = [s EXCEPT !.peersBest = PeersBestAfter(n, p, hs), !.sentAll = SentAll(hs)]
    OBVIOUS
  <1>4. /\ Gets(n, p, "HeaderListRequest") /\ n \notin ibd /\ SameChainstate /\ errors' = errors
        /\ Handled(n, p, s2, <<m>>)
    BY <1>1, <1>2, <1>3 DEF SendHeaders, Ends
  <1>5. c # <<>> /\ Head(c).type = "HeaderListRequest" /\ Head(c) \in Messages
    BY <1>1, <1>4, GetsIs
  <1>6. /\ Closed(K) /\ t \in K /\ t \in GenBlock /\ Closed(L) /\ Genesis \in L /\ HeaderLimit \in Nat \ {0} /\ ~off2
        /\ s \in Manager
    <2>1. tip[p] \in L /\ Closed(L)
      BY <1>1 DEF Ends
    <2>2. Genesis \in L
      BY <2>1, GenesisIn
    <2> QED BY <1>1, <1>2, <1>4, <2>2 DEF Ends, Closed
  <1>7. locator \in SUBSET GenBlock /\ locator \subseteq L
    <2>1. locator \in SUBSET GenBlock
      BY <1>2, <1>5, MessageIs
    <2>2. c[1] = Head(c) /\ 1 \in 1 .. Len(c)
      BY <1>1, <1>5, TailIs DEF Ends
    <2>3. Locators(c, L)
      BY <1>1 DEF Ends, Loads
    <2> QED BY <1>2, <1>5, <2>1, <2>2, <2>3 DEF Locators
  <1>8. PICK h \in 0 .. Height[t] : HeadersFrom(hs, t, h) /\ Ancestor[t][h] \in L
    BY <1>2, <1>6, <1>7, LocatorFits
  <1>9. hs \in Seq(Block) /\ m \in Messages /\ GoodHeaders(hs, K, off2) /\ Connects(hs, L)
    <2>1. hs \in Seq(Block)
      BY <1>8 DEF HeadersFrom
    <2>2. GoodHeaders(hs, K, off2)
      BY <1>6, <1>8, HeadersGood
    <2>3. Connects(hs, L)
      BY <1>8 DEF HeadersFrom, Connects
    <2> QED BY <1>3, <2>1, <2>2, <2>3, MessageIs
  <1>10. BothHave(PeersBestAfter(n, p, hs), K, L) /\ PeersBestAfter(n, p, hs) \in GenBlock \cup {NoBlock}
    <2>1. Ancestor[t][h] \in K
      BY <1>6, AncestorsIn
    <2>2. K \subseteq GenBlock
      BY <1>6 DEF Closed
    <2>3. CASE hs = <<>>
      <3>1. h = Height[t]
        BY <1>8, <2>3 DEF HeadersFrom
      <3>2. Ancestor[t][h] = t
        BY <1>6, <3>1, AncestorAssumption
      <3> QED BY <1>2, <1>6, <1>8, <2>3, <3>2 DEF PeersBestAfter, BothHave
    <2>4. CASE hs # <<>>
      <3>1. Parent[hs[1]] = Ancestor[t][h]
        BY <1>8, <2>4 DEF HeadersFrom
      <3>2. PeersBestAfter(n, p, hs) = s.peersBest \/ PeersBestAfter(n, p, hs) = Ancestor[t][h]
        BY <1>1, <2>4, <3>1, ChooseIs DEF PeersBestAfter, Ends
      <3>3. BothHave(s.peersBest, K, L)
        BY <1>1 DEF Ends, Loads
      <3> QED BY <1>8, <2>1, <2>2, <3>2, <3>3 DEF BothHave
    <2> QED BY <2>3, <2>4
  <1>11. /\ s2 \in Manager /\ SameLoad(s, s2) /\ s2.peersBest = PeersBestAfter(n, p, hs) /\ s2.sentAll = SentAll(hs)
    <2>1. SentAll(hs) \in BOOLEAN
      BY DEF SentAll
    <2> QED BY <1>3, <1>6, <1>10, <2>1 DEF Manager, SameLoad
  <1>12. /\ Loads(K, L, s2, q, e, Tail(c), off1, dup, ask1)
         /\ Loads(L, K, q, s2, Tail(c), e, off2, dup, s2.sentAll \/ FullList(m))
    BY <1>1, <1>3, <1>4, <1>9, <1>10, <1>11, AnswerHeaders
  <1>13. e \in Seq(Messages) /\ e = chan[n][p] \o <<m>>
    BY <1>1, <1>3, <1>9, SendsIs
  <1>14. (dup => Duplicates') /\ (IsUp(n, p) /\ p \notin network.inIbd => ask1)
    BY <1>1, <1>4 DEF Ends, Duplicates
  <1>15. s2.sentAll \/ FullList(m)
    <2>1. m.type = "HeaderList" /\ m.headers = hs
      BY <1>3 DEF HeaderList
    <2>2. Len(hs) <= HeaderLimit /\ Len(hs) \in Nat
      BY <1>9 DEF GoodHeaders
    <2>3. Len(hs) < HeaderLimit \/ Len(hs) = HeaderLimit
      BY <1>6, <2>2
    <2> QED BY <1>11, <2>1, <2>3 DEF SentAll, FullList
  <1>16. errors \subseteq errors' /\ errors' \subseteq {"DuplicatedBlockRequest"}
    BY <1>4 DEF SyncInv
  <1> QED BY <1>1, <1>4, <1>11, <1>12, <1>13, <1>14, <1>15, <1>16, QuietStep, Zenon

\* The node that n loads from notices nothing but the messages.
SameQueue(s, s2) == s2.queue = s.queue /\ s2.bestSent = s.bestSent /\ s2.sentAll = s.sentAll

\* What n sends as the second node of the other direction: nothing, or a request.
Sends(a, e) ==
  e = a \/ \E m \in Messages : m.type \in {"HeaderListRequest", "BlockListRequest"} /\ e = Append(a, m)

\* n as the second node when it takes an answer.
LEMMA TakesAnswer ==
  ASSUME NEW K, NEW L, NEW s, NEW s2, NEW q, NEW a \in Seq(Messages), NEW c \in Seq(Messages), NEW e, c # <<>>,
         Head(c).type \in {"HeaderList", "BlockResponse"}, NEW off, NEW dup, NEW ask,
         Loads(L, K, q, s, c, a, off, dup, ask), SameQueue(s, s2), Sends(a, e)
  PROVE  Loads(L, K, q, s2, Tail(c), e, off, dup, ask)
  <1>1. Loads(L, K, q, s, Tail(c), a, off, dup, ask)
    <2>1. Head(c).type # "BlockListRequest" /\ Head(c).type # "HeaderListRequest"
      OBVIOUS
    <2>2. Loads(L, K, q, s, Tail(c), a, off, dup, ask /\ Head(c).type # "HeaderListRequest")
      BY <2>1, ServerTakes
    <2> QED BY <2>1, <2>2, LoadsGrow
  <1>2. Loads(L, K, q, s2, Tail(c), a, off, dup, ask)
    <2>1. Wanted(q, L, K, off) /\ BothHave(q.peersBest, L, K)
      BY DEF Loads
    <2>2. s2.queue = s.queue /\ s2.bestSent = s.bestSent /\ s2.sentAll = s.sentAll
      BY DEF SameQueue
    <2> QED BY <1>1, <2>1, <2>2, NewManagers
  <1>3. ASSUME NEW m \in Messages, m.type \in {"HeaderListRequest", "BlockListRequest"}
        PROVE  Loads(L, K, q, s2, Tail(c), Append(a, m), off, dup, ask)
    <2>1. m.type # "BlockResponse" /\ ListFits(m, a, L, K, off)
      BY <1>3 DEF ListFits
    <2>2. Loads(L, K, q, s2, Tail(c), Append(a, m), off, dup, ask \/ FullList(m))
      BY <1>2, <2>1, ServerSends
    <2> QED BY <2>2, LoadsGrow
  <1> QED BY <1>2, <1>3 DEF Sends

\* A node that downloads blocks asks again when it has them.
LEMMA LoadsBusy ==
  ASSUME NEW K, NEW L, NEW s, NEW q, NEW a, NEW c, NEW off, NEW dup, NEW ask, NEW ask2,
         Loads(K, L, s, q, a, c, off, dup, ask), s.requested # <<>>
  PROVE  Loads(K, L, s, q, a, c, off, dup, ask2)
  BY DEF Loads, Asks

\* A list of headers that arrives is a good one.
LEMMA ListArrives ==
  ASSUME NEW n, NEW p, NEW K, NEW L, NEW s, NEW q, NEW a, NEW c, NEW off1, NEW off2, NEW dup, NEW ask1, NEW ask2,
         Ends(n, p, K, L, s, q, a, c, off1, off2, dup, ask1, ask2), Gets(n, p, "HeaderList"),
         NEW hs, hs = Head(c).headers
  PROVE  /\ hs \in Seq(Block) /\ Len(hs) <= HeaderLimit /\ Chained(hs, K) /\ Within(hs, L)
         /\ hs # <<>> => HeaderListError(n, hs) = "" /\ ~off1
  <1>1. c # <<>> /\ Head(c).type = "HeaderList" /\ Head(c) \in Messages
    BY GetsIs
  <1>2. c[1] = Head(c) /\ 1 \in 1 .. Len(c)
    BY <1>1, TailIs DEF Ends
  <1>3. Lists(c, K, L, off1)
    BY DEF Ends, Loads
  <1>4. GoodHeaders(hs, L, off1) /\ Connects(hs, K \cup Before(c, 1))
    BY <1>1, <1>2, <1>3 DEF Lists
  <1>5. Before(c, 1) = {}
    BY DEF Before
  <1>6. Connects(hs, K)
    BY <1>4, <1>5
  <1>7. hs \in Seq(Block) /\ Len(hs) <= HeaderLimit /\ Linked(hs) /\ Within(hs, L) /\ (hs # <<>> => ~off1)
    BY <1>4 DEF GoodHeaders
  <1>8. hs # <<>> => HeaderListError(n, hs) = ""
    <2>1. HeaderLimit \in Nat /\ Len(hs) \in Nat /\ K = known[n]
      BY <1>7 DEF Ends
    <2>2. ~(Len(hs) > HeaderLimit)
      BY <1>7, <2>1
    <2> QED BY <1>6, <1>7, <2>1, <2>2 DEF HeaderListError, Connects, Linked
  <1> QED BY <1>6, <1>7, <1>8 DEF Chained, Connects

LEMMA IgnoreHeadersStep ==
  ASSUME SyncInv, network' = network, NEW n \in Node, NEW p \in Node, {n, p} \in Links, IgnoreHeaders(n, p)
  PROVE  SyncInv'
  <1>1. PICK K, L, s, q, a, c, off1, off2, dup, ask1, ask2 :
               Ends(n, p, K, L, s, q, a, c, off1, off2, dup, ask1, ask2)
    BY EndsAre
  <1>2. PICK hs, s2 : hs = Head(c).headers /\ s2 = [s EXCEPT !.expectsHeaders = FALSE]
    OBVIOUS
  <1>3. Gets(n, p, "HeaderList") /\ SameChainstate /\ Handled(n, p, s2, <<>>)
    BY <1>1, <1>2 DEF IgnoreHeaders, Ends
  <1>4. hs # <<>> => HeaderListError(n, hs) = ""
    BY <1>1, <1>2, <1>3, ListArrives
  <1>5. hs = <<>> /\ errors' = errors
    BY <1>1, <1>2, <1>4 DEF IgnoreHeaders, Ends
  <1>6. /\ c # <<>> /\ Head(c).type = "HeaderList" /\ a \in Seq(Messages) /\ c \in Seq(Messages) /\ s \in Manager
        /\ HeaderLimit \in Nat \ {0}
        /\ Loads(K, L, s, q, a, c, off1, dup, ask1) /\ Loads(L, K, q, s, c, a, off2, dup, ask2)
    <2>1. c # <<>> /\ Head(c).type = "HeaderList"
      BY <1>1, <1>3, GetsIs
    <2> QED BY <1>1, <2>1 DEF Ends
  <1>7. SameLoad(s, s2) /\ SameQueue(s, s2) /\ s2.peersBest = s.peersBest /\ s2 \in Manager
    BY <1>2, <1>6 DEF Manager, SameLoad, SameQueue
  <1>8. ~FullList(Head(c))
    <2>1. Len(hs) = 0
      BY <1>5
    <2> QED BY <1>2, <1>6, <2>1 DEF FullList
  <1>9. Loads(K, L, s2, q, a, Tail(c), off1, dup, ask1)
    <2>1. Loads(K, L, s, q, a, Tail(c), off1, dup, ask1 /\ ~FullList(Head(c)))
      BY <1>6, ClientTakes
    <2>2. Loads(K, L, s, q, a, Tail(c), off1, dup, ask1)
      BY <1>8, <2>1, LoadsGrow
    <2>3. s2.requested = s.requested /\ Wanted(s2, K, L, off1) /\ BothHave(s2.peersBest, K, L)
      BY <1>6, <1>7, SameWanted DEF SameLoad, Loads
    <2> QED BY <2>2, <2>3, NewManagers
  <1>10. Loads(L, K, q, s2, Tail(c), a, off2, dup, ask2)
    <2>1. Sends(a, a) /\ Head(c).type \in {"HeaderList", "BlockResponse"}
      BY <1>6 DEF Sends
    <2> QED BY <1>6, <1>7, <2>1, TakesAnswer
  <1>11. a \in Seq(Messages) /\ a = chan[n][p] \o <<>>
    BY <1>1, SendsIs
  <1>12. /\ (dup => Duplicates') /\ (IsUp(n, p) /\ p \notin network.inIbd => ask1)
         /\ (IsUp(n, p) /\ n \notin network.inIbd => ask2)
    BY <1>1, <1>5 DEF Ends, Duplicates
  <1>13. errors \subseteq errors' /\ errors' \subseteq {"DuplicatedBlockRequest"}
    BY <1>5 DEF SyncInv
  <1> QED BY <1>1, <1>3, <1>7, <1>9, <1>10, <1>11, <1>12, <1>13, QuietStep

\* A request for blocks that arrives is a good one, or a duplicate.
LEMMA RequestArrives ==
  ASSUME NEW n, NEW p, NEW K, NEW L, NEW s, NEW q, NEW a, NEW c, NEW off1, NEW off2, NEW dup, NEW ask1, NEW ask2,
         Ends(n, p, K, L, s, q, a, c, off1, off2, dup, ask1, ask2), Gets(n, p, "BlockListRequest"),
         NEW ids, ids = Head(c).ids
  PROVE  n \notin ibd /\ BlockRequestError(n, p, ids) \in {"", "DuplicatedBlockRequest"} /\ ids \in Seq(Block)
  <1>1. c # <<>> /\ Head(c).type = "BlockListRequest" /\ Head(c) \in Messages
    BY GetsIs
  <1>2. /\ s \in Manager /\ q \in Manager /\ c \in Seq(Messages) /\ Loads(L, K, q, s, c, a, off2, dup, ask2)
        /\ K = known[n] /\ s = sync[n][p] /\ BlockLimit \in Nat /\ (n \in ibd <=> off2)
    BY DEF Ends
  <1>3. /\ ids = q.requested /\ q.requested # <<>> /\ ~off2 /\ s.queue = <<>>
        /\ Len(q.requested) <= BlockLimit /\ Within(q.requested, K)
    BY <1>1, <1>2, ServerAsked
  <1>4. ids \in Seq(Block)
    BY <1>1, MessageIs
  <1>5. Len(sync[n][p].queue) = 0 /\ ~(Len(ids) + Len(sync[n][p].queue) > BlockLimit)
    <2>1. Len(sync[n][p].queue) = 0
      BY <1>2, <1>3
    <2>2. Len(ids) \in Nat /\ Len(ids) <= BlockLimit
      BY <1>3, <1>4
    <2> QED BY <1>2, <2>1, <2>2
  <1>6. \A i \in 1 .. Len(ids) : ids[i] \in known[n]
    BY <1>2, <1>3 DEF Within
  <1>7. ~\E i \in 1 .. Len(ids), j \in 1 .. Len(sync[n][p].queue) : ids[i] = sync[n][p].queue[j]
    BY <1>5
  <1> QED BY <1>2, <1>3, <1>4, <1>5, <1>6, <1>7 DEF BlockRequestError

LEMMA QueueBlocksStep ==
  ASSUME SyncInv, network' = network, NEW n \in Node, NEW p \in Node, {n, p} \in Links, QueueBlocks(n, p)
  PROVE  SyncInv'
  <1>1. PICK K, L, s, q, a, c, off1, off2, dup, ask1, ask2 :
               Ends(n, p, K, L, s, q, a, c, off1, off2, dup, ask1, ask2)
    BY EndsAre
  <1>2. PICK ids, err, s2 : /\ ids = Head(c).ids /\ err = BlockRequestError(n, p, ids)
                            /\ s2 = IF err = "" /\ n \notin ibd THEN [s EXCEPT !.queue = @ \o ids] ELSE s
    OBVIOUS
  <1>3. /\ Gets(n, p, "BlockListRequest") /\ SameChainstate /\ Handled(n, p, s2, <<>>)
        /\ errors' = IF err = "" THEN errors ELSE errors \cup {err}
    BY <1>1, <1>2 DEF QueueBlocks, Ends
  <1>4. n \notin ibd /\ err \in {"", "DuplicatedBlockRequest"} /\ ids \in Seq(Block)
    BY <1>1, <1>2, <1>3, RequestArrives
  <1>5. /\ c # <<>> /\ Head(c).type = "BlockListRequest" /\ a \in Seq(Messages) /\ c \in Seq(Messages)
        /\ s \in Manager /\ q \in Manager
        /\ Loads(K, L, s, q, a, c, off1, dup, ask1) /\ Loads(L, K, q, s, c, a, off2, dup, ask2)
    <2>1. c # <<>> /\ Head(c).type = "BlockListRequest"
      BY <1>1, <1>3, GetsIs
    <2> QED BY <1>1, <2>1 DEF Ends
  <1>6. /\ s2 \in Manager /\ s2.requested = s.requested /\ s2.pending = s.pending
        /\ s2.expectsBlocks = s.expectsBlocks /\ s2.peersBest = s.peersBest
    <2>1. s.queue \o ids \in Seq(Block)
      <3>1. s.queue \in Seq(Block)
        BY <1>5 DEF Manager
      <3> QED BY <1>4, <3>1, JoinIs
    <2> QED BY <1>2, <1>5, <2>1 DEF Manager
  <1>7. Loads(K, L, s2, q, a, Tail(c), off1, dup, ask1)
    <2>1. Head(c).type # "BlockResponse" /\ ~FullList(Head(c))
      BY <1>5 DEF FullList
    <2>2. Loads(K, L, s, q, a, Tail(c), off1, dup, ask1 /\ ~FullList(Head(c)))
      BY <1>5, <2>1, ClientTakes
    <2>3. Loads(K, L, s, q, a, Tail(c), off1, dup, ask1)
      BY <2>1, <2>2, LoadsGrow
    <2>4. Wanted(s2, K, L, off1) /\ BothHave(s2.peersBest, K, L)
      BY <1>5, <1>6 DEF Loads, Wanted
    <2> QED BY <1>6, <2>3, <2>4, NewManagers
  <1>8. a \in Seq(Messages) /\ a = chan[n][p] \o <<>>
    BY <1>1, SendsIs
  <1>9. /\ (dup => Duplicates) /\ (IsUp(n, p) /\ p \notin network.inIbd => ask1)
        /\ (IsUp(n, p) /\ n \notin network.inIbd => ask2)
    BY <1>1 DEF Ends
  <1>10. errors \subseteq errors' /\ errors' \subseteq {"DuplicatedBlockRequest"}
    BY <1>3, <1>4 DEF SyncInv
  <1>11. CASE err = ""
    <2>1. Queues(s, s2, Head(c).ids, dup)
      BY <1>2, <1>4, <1>11 DEF Queues
    <2>2. Loads(L, K, q, s2, Tail(c), a, off2, dup, ask2)
      BY <1>5, <2>1, ServerQueues
    <2>3. dup => Duplicates'
      BY <1>9, <1>10 DEF Duplicates
    <2> QED BY <1>1, <1>3, <1>6, <1>7, <1>8, <1>9, <1>10, <2>2, <2>3, QuietStep
  <1>12. CASE err # ""
    <2>1. Queues(s, s2, Head(c).ids, TRUE)
      BY <1>2, <1>12 DEF Queues
    <2>2. Loads(L, K, q, s2, Tail(c), a, off2, TRUE, ask2)
      BY <1>5, <2>1, ServerQueues
    <2>3. Loads(K, L, s2, q, a, Tail(c), off1, TRUE, ask1)
      BY <1>7, LoadsGrow
    <2>4. TRUE => Duplicates'
      BY <1>3, <1>4, <1>12 DEF Duplicates
    <2> QED BY <1>1, <1>3, <1>6, <1>8, <1>9, <1>10, <2>2, <2>3, <2>4, QuietStep
  <1> QED BY <1>11, <1>12

\* The state of n's manager after the headers arrived, and what is left of them.
HeadersTaken(n, p, hs, s, s1, new) ==
  /\ new = SubSeq(hs, LeadingKnown(hs, known[n]) + 1, Len(hs))
  /\ s1 = [s EXCEPT !.expectsHeaders = FALSE,
                    !.peersBest = ChoosePeersBest(s.peersBest, IF LeadingKnown(hs, known[n]) = 0 THEN NoBlock
                                                               ELSE hs[LeadingKnown(hs, known[n])])]

LEMMA HeadersTakenIs ==
  ASSUME NEW n, NEW p, NEW K, NEW L, NEW s, NEW q, NEW a, NEW c, NEW off1, NEW off2, NEW dup, NEW ask1, NEW ask2,
         Ends(n, p, K, L, s, q, a, c, off1, off2, dup, ask1, ask2), Gets(n, p, "HeaderList"),
         NEW hs, hs = Head(c).headers, NEW s1, NEW new, HeadersTaken(n, p, hs, s, s1, new)
  PROVE  /\ Chained(new, K) /\ Within(new, L) /\ new \in Seq(Block)
         /\ SameLoad(s, s1) /\ SameQueue(s, s1) /\ BothHave(s1.peersBest, K, L)
         /\ Loads(K, L, s1, q, a, Tail(c), off1, dup, ask1 /\ ~FullList(Head(c)))
  <1>1. hs \in Seq(Block) /\ Chained(hs, K) /\ Within(hs, L)
    BY ListArrives
  <1>2. PICK k, best : /\ k = LeadingKnown(hs, known[n])
                       /\ best = ChoosePeersBest(s.peersBest, IF k = 0 THEN NoBlock ELSE hs[k])
    OBVIOUS
  <1>3. /\ K = known[n] /\ s \in Manager /\ a \in Seq(Messages) /\ c \in Seq(Messages) /\ K \subseteq GenBlock
        /\ Loads(K, L, s, q, a, c, off1, dup, ask1)
    BY DEF Ends, Closed
  <1>4. new = SubSeq(hs, k + 1, Len(hs)) /\ s1 = [s EXCEPT !.expectsHeaders = FALSE, !.peersBest = best]
    BY <1>2 DEF HeadersTaken
  <1>5. /\ Chained(new, K) /\ Within(new, L) /\ (k # 0 => hs[k] \in K /\ hs[k] \in L)
    BY <1>1, <1>2, <1>3, <1>4, LeadingLeft
  <1>6. BothHave(best, K, L) /\ best \in GenBlock \cup {NoBlock}
    <2>1. best = s.peersBest \/ best = NoBlock \/ (k # 0 /\ best = hs[k])
      BY <1>2, ChooseIs
    <2>2. BothHave(s.peersBest, K, L)
      BY <1>3 DEF Loads
    <2> QED BY <1>3, <1>5, <2>1, <2>2 DEF BothHave
  <1>7. SameLoad(s, s1) /\ SameQueue(s, s1) /\ s1.peersBest = best
    BY <1>3, <1>4, <1>6 DEF Manager, SameLoad, SameQueue
  <1>8. Loads(K, L, s1, q, a, Tail(c), off1, dup, ask1 /\ ~FullList(Head(c)))
    <2>1. c # <<>> /\ Head(c).type # "BlockResponse"
      BY GetsIs
    <2>2. Loads(K, L, s, q, a, Tail(c), off1, dup, ask1 /\ ~FullList(Head(c)))
      BY <1>3, <2>1, ClientTakes
    <2>3. s1.requested = s.requested /\ Wanted(s1, K, L, off1) /\ BothHave(s1.peersBest, K, L)
      BY <1>3, <1>6, <1>7, SameWanted DEF SameLoad
    <2> QED BY <2>2, <2>3, NewManagers
  <1>9. new \in Seq(Block)
    BY <1>5 DEF Chained
  <1> QED BY <1>5, <1>6, <1>7, <1>8, <1>9

\* What all four outcomes of handle_header_list have in common: n's manager is then s2, and e is on
\* its way to p.
LEMMA HeadersHandled ==
  ASSUME SyncInv, network' = network, NEW n \in Node, NEW p \in Node, {n, p} \in Links,
         NEW K, NEW L, NEW s, NEW q, NEW a, NEW c, NEW off1, NEW off2, NEW dup, NEW ask1, NEW ask2,
         Ends(n, p, K, L, s, q, a, c, off1, off2, dup, ask1, ask2), Gets(n, p, "HeaderList"),
         NEW s2 \in Manager, NEW msgs, Handled(n, p, s2, msgs), NEW e \in Seq(Messages), e = chan[n][p] \o msgs,
         Sends(a, e), SameQueue(s, s2), SameChainstate, errors' = errors,
         Loads(K, L, s2, q, e, Tail(c), off1, dup, ask1)
  PROVE  SyncInv'
  <1>1. /\ c # <<>> /\ Head(c).type \in {"HeaderList", "BlockResponse"} /\ a \in Seq(Messages) /\ c \in Seq(Messages)
        /\ Loads(L, K, q, s, c, a, off2, dup, ask2)
    <2>1. c # <<>> /\ Head(c).type = "HeaderList"
      BY GetsIs
    <2> QED BY <2>1 DEF Ends
  <1>2. Loads(L, K, q, s2, Tail(c), e, off2, dup, ask2)
    BY <1>1, TakesAnswer
  <1>3. /\ (dup => Duplicates') /\ (IsUp(n, p) /\ p \notin network.inIbd => ask1)
        /\ (IsUp(n, p) /\ n \notin network.inIbd => ask2)
    BY DEF Ends, Duplicates
  <1>4. errors \subseteq errors' /\ errors' \subseteq {"DuplicatedBlockRequest"}
    BY DEF SyncInv
  <1> QED BY <1>2, <1>3, <1>4, QuietStep

\* A request for headers.
LEMMA HeaderRequestIs ==
  ASSUME NEW K, Closed(K), NEW t \in K, NEW m, m = HeaderListRequest(Locator(t))
  PROVE  m \in Messages /\ m.type = "HeaderListRequest" /\ m.locator \subseteq K /\ HeaderRequest(t) = <<m>>
  <1>1. Locator(t) \subseteq K /\ Locator(t) \subseteq GenBlock
    BY LocatorIn
  <1>2. m.type = "HeaderListRequest" /\ m.locator = Locator(t) /\ HeaderRequest(t) = <<m>>
    BY DEF HeaderListRequest, HeaderRequest
  <1> QED BY <1>1, <1>2, MessageIs

\* The manager after request_blocks.
LEMMA AfterRequestIs ==
  ASSUME NEW s \in Manager, NEW hs \in Seq(Block), FirstBatch(hs) \in Seq(Block), BlockLimit \in Nat
  PROVE  AfterBlockRequest(s, hs) \in Manager /\ SameQueue(s, AfterBlockRequest(s, hs))
  <1>1. Len(hs) > BlockLimit => SubSeq(hs, BlockLimit + 1, Len(hs)) \in Seq(Block)
    <2> SUFFICES ASSUME Len(hs) > BlockLimit PROVE SubSeq(hs, BlockLimit + 1, Len(hs)) \in Seq(Block)
      OBVIOUS
    <2>1. BlockLimit \in 0 .. Len(hs)
      OBVIOUS
    <2> QED BY <2>1, PartIs
  <1>2. PICK pend : pend = IF Len(hs) > BlockLimit THEN SubSeq(hs, BlockLimit + 1, Len(hs)) ELSE s.pending
    OBVIOUS
  <1>3. pend \in Seq(Block)
    BY <1>1, <1>2 DEF Manager
  <1>4. AfterBlockRequest(s, hs) = [s EXCEPT !.pending = pend, !.requested = FirstBatch(hs), !.expectsBlocks = TRUE]
    BY <1>2 DEF AfterBlockRequest
  <1> QED BY <1>3, <1>4 DEF Manager, SameQueue

LEMMA HandleHeadersStep ==
  ASSUME SyncInv, network' = network, NEW n \in Node, NEW p \in Node, {n, p} \in Links, HandleHeaders(n, p)
  PROVE  SyncInv'
  <1>1. PICK K, L, s, q, a, c, off1, off2, dup, ask1, ask2 :
               Ends(n, p, K, L, s, q, a, c, off1, off2, dup, ask1, ask2)
    BY EndsAre
  <1>2. PICK hs, new, s1 : hs = Head(c).headers /\ HeadersTaken(n, p, hs, s, s1, new)
    BY DEF HeadersTaken
  <1>3. /\ Gets(n, p, "HeaderList") /\ SameChainstate /\ errors' = errors /\ hs # <<>>
        /\ \/ s1.requested # <<>> /\ Handled(n, p, [s1 EXCEPT !.pending = new], <<>>)
           \/ /\ s1.requested = <<>> /\ Len(hs) = HeaderLimit
              /\ Handled(n, p, AfterHeaderRequest(s1), HeaderRequest(tip[n]))
           \/ Len(hs) # HeaderLimit /\ Handled(n, p, s1, <<>>)
           \/ /\ s1.requested = <<>> /\ new # <<>>
              /\ Handled(n, p, AfterBlockRequest(s1, new), <<BlockListRequest(FirstBatch(new))>>)
    BY <1>1, <1>2 DEF HandleHeaders, HeadersTaken, Ends
  <1>4. /\ Chained(new, K) /\ Within(new, L) /\ new \in Seq(Block)
        /\ SameLoad(s, s1) /\ SameQueue(s, s1) /\ BothHave(s1.peersBest, K, L)
        /\ Loads(K, L, s1, q, a, Tail(c), off1, dup, ask1 /\ ~FullList(Head(c)))
    BY <1>1, <1>2, <1>3, HeadersTakenIs
  <1>5. /\ s1 \in Manager /\ q \in Manager /\ a \in Seq(Messages) /\ BlockLimit \in Nat \ {0} /\ HeaderLimit \in Nat
        /\ Closed(K) /\ tip[n] \in K
    BY <1>1, <1>4 DEF Ends, SameLoad
  <1>6. ~off1
    BY <1>1, <1>2, <1>3, ListArrives
  <1>7. Loads(K, L, s1, q, a, Tail(c), off1, dup, FALSE)
    BY <1>4, LoadsGrow
  <1>8. a = chan[n][p] \o <<>> /\ Sends(a, a)
    BY <1>1, SendsIs DEF Sends
  <1>9. ASSUME s1.requested # <<>>, Handled(n, p, [s1 EXCEPT !.pending = new], <<>>) PROVE SyncInv'
    <2>1. PICK s2 : s2 = [s1 EXCEPT !.pending = new]
      OBVIOUS
    <2>2. /\ s2 \in Manager /\ SameQueue(s, s2) /\ s2.requested = s1.requested /\ s2.pending = new
          /\ s2.expectsBlocks = s1.expectsBlocks /\ s2.peersBest = s1.peersBest /\ SameQueue(s1, s2)
      BY <1>4, <1>5, <2>1 DEF Manager, SameQueue
    <2>3. Wanted(s2, K, L, off1)
      <3>1. Wanted(s1, K, L, off1)
        BY <1>7 DEF Loads
      <3>2. K \subseteq K \cup Elements(s2.requested)
        OBVIOUS
      <3>3. Chained(new, K \cup Elements(s2.requested))
        BY <1>4, <3>2, ChainedGrows
      <3> QED BY <1>4, <1>6, <2>2, <3>1, <3>3 DEF Wanted
    <2>4. Loads(K, L, s2, q, a, Tail(c), off1, dup, FALSE)
      BY <1>4, <1>7, <2>2, <2>3, NewManagers
    <2>5. Loads(K, L, s2, q, a, Tail(c), off1, dup, ask1)
      BY <1>9, <2>2, <2>4, LoadsBusy
    <2> QED BY <1>1, <1>3, <1>5, <1>8, <1>9, <2>1, <2>2, <2>5, HeadersHandled
  <1>10. ASSUME Handled(n, p, AfterHeaderRequest(s1), HeaderRequest(tip[n])) PROVE SyncInv'
    <2>1. PICK s2, m, e : s2 = AfterHeaderRequest(s1) /\ m = HeaderListRequest(Locator(tip[n])) /\ e = Append(a, m)
      OBVIOUS
    <2>2. m \in Messages /\ m.type = "HeaderListRequest" /\ m.locator \subseteq K /\ HeaderRequest(tip[n]) = <<m>>
      BY <1>5, <2>1, HeaderRequestIs
    <2>3. /\ s2 \in Manager /\ SameLoad(s1, s2) /\ SameQueue(s, s2) /\ s2.peersBest = s1.peersBest
      BY <1>4, <1>5, <2>1 DEF AfterHeaderRequest, Manager, SameLoad, SameQueue
    <2>4. Loads(K, L, s2, q, a, Tail(c), off1, dup, FALSE)
      <3>1. Wanted(s2, K, L, off1) /\ s2.requested = s1.requested /\ BothHave(s2.peersBest, K, L)
        BY <1>4, <1>7, <2>3, SameWanted DEF SameLoad
      <3> QED BY <1>7, <3>1, NewManagers
    <2>5. Loads(K, L, s2, q, e, Tail(c), off1, dup, ask1)
      <3>1. Loads(K, L, s2, q, Append(a, m), Tail(c), off1, dup, FALSE \/ m.type = "HeaderListRequest")
        BY <1>5, <2>2, <2>4, ClientSends
      <3> QED BY <2>1, <2>2, <3>1, LoadsGrow
    <2>6. e \in Seq(Messages) /\ e = chan[n][p] \o <<m>> /\ Sends(a, e)
      BY <1>1, <2>1, <2>2, SendsIs DEF Sends
    <2>7. Handled(n, p, s2, <<m>>)
      BY <1>10, <2>1, <2>2
    <2> QED BY <1>1, <1>3, <2>3, <2>5, <2>6, <2>7, HeadersHandled
  <1>11. ASSUME Len(hs) # HeaderLimit, Handled(n, p, s1, <<>>) PROVE SyncInv'
    <2>1. ~FullList(Head(c))
      BY <1>2, <1>11 DEF FullList
    <2>2. Loads(K, L, s1, q, a, Tail(c), off1, dup, ask1)
      BY <1>4, <2>1, LoadsGrow
    <2> QED BY <1>1, <1>3, <1>4, <1>5, <1>8, <1>11, <2>2, HeadersHandled
  <1>12. ASSUME s1.requested = <<>>, new # <<>>,
                Handled(n, p, AfterBlockRequest(s1, new), <<BlockListRequest(FirstBatch(new))>>)
         PROVE  SyncInv'
    <2>1. PICK s2, m, e : s2 = AfterBlockRequest(s1, new) /\ m = BlockListRequest(FirstBatch(new)) /\ e = Append(a, m)
      OBVIOUS
    <2>2. FirstBatch(new) \in Seq(Block)
      BY <1>4, <1>5, <1>12, BatchIs
    <2>3. m \in Messages /\ m.type = "BlockListRequest"
      BY <2>1, <2>2, MessageIs DEF BlockListRequest
    <2>4. s2 \in Manager /\ SameQueue(s1, s2)
      BY <1>4, <1>5, <2>1, <2>2, AfterRequestIs
    <2>5. SameQueue(s, s2)
      BY <1>4, <2>4 DEF SameQueue
    <2>6. Loads(K, L, s2, q, e, Tail(c), off1, dup, ask1)
      BY <1>4, <1>5, <1>6, <1>7, <1>12, <2>1, <2>3, ClientAsks
    <2>7. e \in Seq(Messages) /\ e = chan[n][p] \o <<m>> /\ Sends(a, e)
      BY <1>1, <2>1, <2>3, SendsIs DEF Sends
    <2>8. Handled(n, p, s2, <<m>>)
      BY <1>12, <2>1
    <2> QED BY <1>1, <1>3, <2>4, <2>5, <2>6, <2>7, <2>8, HeadersHandled
  <1> QED BY <1>3, <1>9, <1>10, <1>11, <1>12

\* What all three outcomes of handle_block_response have in common.
LEMMA BlockHandled ==
  ASSUME SyncInv, network' = network, NEW n \in Node, NEW p \in Node, {n, p} \in Links,
         NEW K, NEW L, NEW s, NEW q, NEW a, NEW c, NEW off1, NEW off2, NEW dup, NEW ask1, NEW ask2,
         Ends(n, p, K, L, s, q, a, c, off1, off2, dup, ask1, ask2), Gets(n, p, "BlockResponse"),
         NEW b, NEW K2, K2 = K \cup {b}, K2 = known'[n], ChainstateOK', Grows,
         NEW s2 \in Manager, NEW msgs, Handled(n, p, s2, msgs), NEW e \in Seq(Messages), e = chan[n][p] \o msgs,
         Sends(a, e), SameQueue(s, s2), errors' = errors,
         Loads(K2, L, s2, q, e, Tail(c), off1, dup, ask1)
  PROVE  SyncInv'
  <1>1. /\ c # <<>> /\ Head(c).type \in {"HeaderList", "BlockResponse"} /\ a \in Seq(Messages) /\ c \in Seq(Messages)
        /\ Loads(L, K, q, s, c, a, off2, dup, ask2)
    <2>1. c # <<>> /\ Head(c).type = "BlockResponse"
      BY GetsIs
    <2> QED BY <2>1 DEF Ends
  <1>2. Loads(L, K, q, s2, Tail(c), e, off2, dup, ask2)
    BY <1>1, TakesAnswer
  <1>3. K \subseteq K2 /\ L \subseteq L
    OBVIOUS
  <1>4. Loads(L, K2, q, s2, Tail(c), e, off2, dup, ask2)
    BY <1>2, <1>3, LoadsGrow
  <1>5. /\ (dup => Duplicates') /\ (IsUp(n, p) /\ p \notin network.inIbd => ask1)
        /\ (IsUp(n, p) /\ n \notin network.inIbd => ask2)
        /\ L = known[p] /\ q = sync[p][n] /\ (p \in ibd => off1) /\ (n \in ibd => off2) /\ n # p
    BY DEF Ends, Duplicates
  <1>6. errors' \subseteq {"DuplicatedBlockRequest"} /\ K2 \subseteq known'[n]
    BY DEF SyncInv
  <1>7. PICK d : d = Tail(c)
    OBVIOUS
  <1>8. Handles(n, p, s2, msgs, d, e)
    <2>1. d \in Seq(Messages) /\ d = Tail(chan[p][n])
      BY <1>7, GetsIs
    <2> QED BY <1>5, <2>1 DEF Handles
  <1>9. Loads(K2, L, s2, q, e, d, off1, dup, ask1) /\ Loads(L, K2, q, s2, d, e, off2, dup, ask2)
    BY <1>4, <1>7
  <1> QED BY <1>5, <1>6, <1>8, <1>9, HandleStep

\* The manager after a block that was requested.
BlockTaken(s, s1, b) ==
  s1 = [s EXCEPT !.requested = Tail(s.requested), !.expectsBlocks = Tail(s.requested) # <<>>,
                 !.peersBest = ChoosePeersBest(@, b)]

LEMMA BlockTakenIs ==
  ASSUME NEW s \in Manager, NEW b \in Block, s.requested # <<>>, NEW s1, BlockTaken(s, s1, b)
  PROVE  /\ s1 \in Manager /\ SameQueue(s, s1) /\ s1.pending = s.pending /\ s1.requested = Tail(s.requested)
  <1>1. Tail(s.requested) \in Seq(Block) /\ s.peersBest \in GenBlock \cup {NoBlock}
    BY DEF Manager
  <1>2. ChoosePeersBest(s.peersBest, b) \in GenBlock \cup {NoBlock}
    BY <1>1, ChooseIs DEF GenBlock
  <1>3. (Tail(s.requested) # <<>>) \in BOOLEAN
    OBVIOUS
  <1> QED BY <1>1, <1>2, <1>3 DEF BlockTaken, Manager, SameQueue

\* A block that arrives is the one that n expects.
LEMMA BlockArrives ==
  ASSUME NEW n, NEW p, NEW K, NEW L, NEW s, NEW q, NEW a, NEW c, NEW off1, NEW off2, NEW dup, NEW ask1, NEW ask2,
         Ends(n, p, K, L, s, q, a, c, off1, off2, dup, ask1, ask2), Gets(n, p, "BlockResponse"),
         NEW b, b = Head(c).block
  PROVE  /\ BlockError(n, p, b) = "" /\ b \in Block /\ Parent[b] \in K /\ s.requested # <<>> /\ ~off1
  <1>1. c # <<>> /\ Head(c).type = "BlockResponse" /\ Head(c) \in Messages
    BY GetsIs
  <1>2. /\ s \in Manager /\ q \in Manager /\ c \in Seq(Messages) /\ Loads(K, L, s, q, a, c, off1, dup, ask1)
        /\ s = sync[n][p]
    BY DEF Ends
  <1>3. s.requested # <<>> /\ Head(s.requested) = b
    BY <1>1, <1>2, ClientGets
  <1>4. BlockError(n, p, b) = ""
    BY <1>2, <1>3 DEF BlockError
  <1>5. Wanted(s, K, L, off1)
    BY <1>2 DEF Loads
  <1>6. PICK req : req = s.requested /\ Chained(req, K) /\ req # <<>> /\ Within(req, L)
    BY <1>3, <1>5 DEF Wanted
  <1>7. Parent[Head(req)] \in K /\ Head(req) \in Block
    BY <1>6, ChainedTail
  <1> QED BY <1>3, <1>4, <1>5, <1>6, <1>7 DEF Wanted

LEMMA HandleBlockStep ==
  ASSUME SyncInv, network' = network, NEW n \in Node, NEW p \in Node, {n, p} \in Links, HandleBlock(n, p)
  PROVE  SyncInv'
  <1>1. PICK K, L, s, q, a, c, off1, off2, dup, ask1, ask2 :
               Ends(n, p, K, L, s, q, a, c, off1, off2, dup, ask1, ask2)
    BY EndsAre
  <1>2. PICK b, K2, t : b = Head(c).block /\ K2 = K \cup {b} /\ t = tip'[n]
    OBVIOUS
  <1>3. Gets(n, p, "BlockResponse")
    BY DEF HandleBlock
  <1>4. BlockError(n, p, b) = "" /\ b \in Block /\ Parent[b] \in K /\ s.requested # <<>> /\ ~off1
    BY <1>1, <1>2, <1>3, BlockArrives
  <1>5. AcceptBlock(n, p, b) /\ errors' = errors
    BY <1>1, <1>2, <1>4 DEF HandleBlock, Ends
  <1>6. PICK s1 : BlockTaken(s, s1, b)
    BY DEF BlockTaken
  <1>7. PICK left, taken : /\ left = SubSeq(s1.pending, LeadingKnown(s1.pending, K2) + 1, Len(s1.pending))
                           /\ taken = [s1 EXCEPT !.pending = <<>>]
    OBVIOUS
  <1>8. /\ K = known[n] /\ s = sync[n][p] /\ Closed(K) /\ s \in Manager /\ q \in Manager /\ a \in Seq(Messages)
        /\ c \in Seq(Messages) /\ BlockLimit \in Nat \ {0} /\ Loads(K, L, s, q, a, c, off1, dup, ask1)
    BY <1>1 DEF Ends
  <1>9. /\ s1 \in Manager /\ SameQueue(s, s1) /\ s1.pending = s.pending /\ s1.requested = Tail(s.requested)
    BY <1>4, <1>6, <1>8, BlockTakenIs
  <1>10. /\ ProcessBlock(n, b)
         /\ \/ s1.requested # <<>> /\ Handled(n, p, s1, <<>>)
            \/ s1.requested = <<>> /\ Handled(n, p, AfterHeaderRequest(taken), HeaderRequest(t))
            \/ /\ s1.requested = <<>> /\ left # <<>>
               /\ Handled(n, p, AfterBlockRequest(taken, left), <<BlockListRequest(FirstBatch(left))>>)
    <2>1. s1 = [sync[n][p] EXCEPT !.requested = Tail(sync[n][p].requested),
                                  !.expectsBlocks = Tail(sync[n][p].requested) # <<>>,
                                  !.peersBest = ChoosePeersBest(@, b)]
      BY <1>6, <1>8 DEF BlockTaken
    <2> QED BY <1>2, <1>5, <1>7, <1>8, <1>9, <2>1 DEF AcceptBlock
  <1>11. ChainstateOK' /\ Grows /\ known'[n] = known[n] \cup {b} /\ tip'[n] \in known'[n]
    BY <1>4, <1>5, <1>8, <1>10, ProcessIs
  <1>12. K2 = known'[n] /\ t \in K2 /\ Closed(K2)
    BY <1>2, <1>8, <1>11 DEF ChainstateOK, Closed
  <1>13. Loads(K2, L, s1, q, a, Tail(c), off1, dup, FALSE)
    <2>1. c # <<>> /\ Head(c).type = "BlockResponse"
      BY <1>1, <1>3, GetsIs
    <2>2. Loads(K \cup {b}, L, s1, q, a, Tail(c), off1, dup, Tail(s.requested) # <<>>)
      BY <1>2, <1>6, <1>8, <2>1, ClientAccepts DEF BlockTaken
    <2> QED BY <1>2, <2>2, LoadsGrow
  <1>14. a = chan[n][p] \o <<>> /\ Sends(a, a)
    BY <1>1, SendsIs DEF Sends
  <1>15. /\ taken \in Manager /\ SameQueue(s, taken) /\ taken.requested = s1.requested /\ taken.pending = <<>>
         /\ taken.peersBest = s1.peersBest /\ taken.expectsBlocks = s1.expectsBlocks
    <2>1. PICK none : none = <<>> /\ none \in Seq(Block)
      <3>1. <<>> \in Seq(Block)
        OBVIOUS
      <3> QED BY <3>1, Zenon
    <2>2. taken = [s1 EXCEPT !.pending = none]
      BY <1>7, <2>1
    <2>3. taken \in Manager
      BY <1>9, <2>1, <2>2 DEF Manager
    <2> QED BY <1>9, <2>1, <2>2, <2>3 DEF Manager, SameQueue
  <1>16. Loads(K2, L, taken, q, a, Tail(c), off1, dup, FALSE)
    <2>1. Wanted(s1, K2, L, off1) /\ BothHave(s1.peersBest, K2, L)
      BY <1>13 DEF Loads
    <2>2. \A K3 : Chained(<<>>, K3)
      BY DEF Chained, Linked
    <2>3. Within(<<>>, L)
      BY DEF Within
    <2>4. Wanted(taken, K2, L, off1)
      BY <1>4, <1>15, <2>1, <2>2, <2>3 DEF Wanted
    <2> QED BY <1>13, <1>15, <2>1, <2>4, NewManagers
  <1>17. ASSUME s1.requested # <<>>, Handled(n, p, s1, <<>>) PROVE SyncInv'
    <2>1. Loads(K2, L, s1, q, a, Tail(c), off1, dup, ask1)
      BY <1>13, <1>17, LoadsBusy
    <2>2. PICK msgs : msgs = <<>> /\ Handled(n, p, s1, msgs) /\ a = chan[n][p] \o msgs
      BY <1>14, <1>17
    <2>3. K2 = K \cup {b} /\ K2 = known'[n] /\ errors' = errors /\ a \in Seq(Messages) /\ s1 \in Manager
      BY <1>2, <1>5, <1>8, <1>9, <1>12
    <2>4. ChainstateOK' /\ Grows /\ SameQueue(s, s1) /\ Sends(a, a)
      BY <1>9, <1>11, <1>14
    <2> QED BY <1>1, <1>3, <2>1, <2>2, <2>3, <2>4, BlockHandled
  <1>18. ASSUME Handled(n, p, AfterHeaderRequest(taken), HeaderRequest(t)) PROVE SyncInv'
    <2>1. PICK s2, m, e : s2 = AfterHeaderRequest(taken) /\ m = HeaderListRequest(Locator(t)) /\ e = Append(a, m)
      OBVIOUS
    <2>2. m \in Messages /\ m.type = "HeaderListRequest" /\ m.locator \subseteq K2 /\ HeaderRequest(t) = <<m>>
      BY <1>12, <2>1, HeaderRequestIs
    <2>3. s2 \in Manager /\ SameLoad(taken, s2) /\ SameQueue(s, s2) /\ s2.peersBest = taken.peersBest
      BY <1>15, <2>1 DEF AfterHeaderRequest, Manager, SameLoad, SameQueue
    <2>4. Loads(K2, L, s2, q, a, Tail(c), off1, dup, FALSE)
      <3>1. Wanted(s2, K2, L, off1) /\ s2.requested = taken.requested /\ BothHave(s2.peersBest, K2, L)
        BY <1>16, <2>3, SameWanted DEF SameLoad, Loads
      <3> QED BY <1>16, <3>1, NewManagers
    <2>5. Loads(K2, L, s2, q, e, Tail(c), off1, dup, ask1)
      <3>1. Loads(K2, L, s2, q, Append(a, m), Tail(c), off1, dup, FALSE \/ m.type = "HeaderListRequest")
        BY <1>8, <2>2, <2>4, ClientSends
      <3> QED BY <2>1, <2>2, <3>1, LoadsGrow
    <2>6. e \in Seq(Messages) /\ e = chan[n][p] \o <<m>> /\ Sends(a, e)
      BY <1>1, <2>1, <2>2, SendsIs DEF Sends
    <2>7. Handled(n, p, s2, <<m>>)
      BY <1>18, <2>1, <2>2
    <2> QED BY <1>1, <1>2, <1>3, <1>5, <1>11, <1>12, <2>3, <2>5, <2>6, <2>7, BlockHandled
  <1>19. ASSUME s1.requested = <<>>, left # <<>>,
                Handled(n, p, AfterBlockRequest(taken, left), <<BlockListRequest(FirstBatch(left))>>)
         PROVE  SyncInv'
    <2>1. PICK s2, m, e : /\ s2 = AfterBlockRequest(taken, left) /\ m = BlockListRequest(FirstBatch(left))
                          /\ e = Append(a, m)
      OBVIOUS
    <2>2. Chained(left, K2) /\ Within(left, L) /\ left \in Seq(Block)
      <3>1. Wanted(s1, K2, L, off1)
        BY <1>13 DEF Loads
      <3>2. K2 \cup Elements(<<>>) = K2
        BY DEF Elements
      <3>3. Chained(s1.pending, K2) /\ Within(s1.pending, L)
        BY <1>19, <3>1, <3>2 DEF Wanted
      <3>4. Chained(left, K2) /\ Within(left, L)
        BY <1>7, <3>3, LeadingLeft
      <3> QED BY <3>4 DEF Chained
    <2>3. FirstBatch(left) \in Seq(Block)
      BY <1>8, <1>19, <2>2, BatchIs
    <2>4. m \in Messages /\ m.type = "BlockListRequest"
      BY <2>1, <2>3, MessageIs DEF BlockListRequest
    <2>5. s2 \in Manager /\ SameQueue(taken, s2)
      BY <1>8, <1>15, <2>1, <2>2, <2>3, AfterRequestIs
    <2>6. SameQueue(s, s2)
      BY <1>15, <2>5 DEF SameQueue
    <2>7. Loads(K2, L, s2, q, e, Tail(c), off1, dup, ask1)
      BY <1>4, <1>8, <1>15, <1>16, <1>19, <2>1, <2>2, <2>4, ClientAsks
    <2>8. e \in Seq(Messages) /\ e = chan[n][p] \o <<m>> /\ Sends(a, e)
      BY <1>1, <2>1, <2>4, SendsIs DEF Sends
    <2>9. Handled(n, p, s2, <<m>>)
      BY <1>19, <2>1
    <2> QED BY <1>1, <1>2, <1>3, <1>5, <1>11, <1>12, <2>5, <2>6, <2>7, <2>8, <2>9, BlockHandled
  <1> QED BY <1>10, <1>17, <1>18, <1>19

\* Steps of n that send to p without taking a message of p.
LEMMA SendStep ==
  ASSUME SyncInv, network' = network, NEW n \in Node, NEW p \in Node, {n, p} \in Links,
         NEW K, NEW L, NEW s, NEW q, NEW a, NEW c, NEW off1, NEW off2, NEW dup, NEW ask1, NEW ask2,
         Ends(n, p, K, L, s, q, a, c, off1, off2, dup, ask1, ask2), NEW s2 \in Manager, NEW e \in Seq(Messages),
         chan' = [chan EXCEPT ![n][p] = e], sync' = [sync EXCEPT ![n][p] = s2],
         UNCHANGED <<known, tip, ibd, up, errors, disconnects>>, events' \in [Node -> [Node -> Seq(Block)]],
         Loads(K, L, s2, q, e, c, off1, dup, ask1), Loads(L, K, q, s2, c, e, off2, dup, ask2)
  PROVE  SyncInv'
  <1>1. /\ K = known[n] /\ L = known[p] /\ q = sync[p][n] /\ c = chan[p][n] /\ n # p
        /\ (p \in ibd => off1) /\ (n \in ibd => off2) /\ (dup => Duplicates)
        /\ (IsUp(n, p) /\ p \notin network.inIbd => ask1) /\ (IsUp(n, p) /\ n \notin network.inIbd => ask2)
    BY DEF Ends
  <1>2. TypeOK
    BY DEF SyncInv
  <1>3. chan \in [Node -> [Node -> Seq(Messages)]] /\ sync \in [Node -> [Node -> Manager]]
    BY <1>2 DEF TypeOK
  <1>4. chan' \in [Node -> [Node -> Seq(Messages)]] /\ chan'[n][p] = e /\ chan'[p][n] = c
    BY <1>1, <1>3
  <1>5. sync' \in [Node -> [Node -> Manager]] /\ sync'[n][p] = s2 /\ sync'[p][n] = q
    BY <1>1, <1>3
  <1>6. Elsewhere(n, p)
    <2> SUFFICES ASSUME NEW x \in Node, NEW y \in Node, {x, y} # {n, p} PROVE Untouched(x, y)
      BY DEF Elsewhere
    <2>1. ~(x = n /\ y = p)
      OBVIOUS
    <2>2. chan'[x][y] = chan[x][y]
      BY <1>3, <2>1
    <2>3. sync'[x][y] = sync[x][y]
      BY <1>3, <2>1
    <2> QED BY <2>2, <2>3 DEF Untouched
  <1>7. Links' = Links /\ MaxDisconnects' = MaxDisconnects
    BY DEF Links, MaxDisconnects
  <1>8. TypeOK'
    BY <1>2, <1>4, <1>5, <1>7 DEF TypeOK
  <1>9. Grows
    BY DEF Grows
  <1>10. K = known'[n] /\ L = known'[p] /\ (p \in ibd' => off1) /\ (n \in ibd' => off2) /\ (dup => Duplicates')
    BY <1>1 DEF Duplicates
  <1>11. (IsUp(n, p)' /\ p \notin network.inIbd => ask1) /\ (IsUp(p, n)' /\ n \notin network.inIbd => ask2)
    <2>1. {p, n} = {n, p}
      OBVIOUS
    <2> QED BY <1>1, <2>1 DEF IsUp
  <1>12. Loads(K, L, s2, q, e, c, p \in ibd', Duplicates', IsUp(n, p)' /\ p \notin network.inIbd)
    BY <1>10, <1>11, LoadsGrow, Zenon
  <1>13. Loads(L, K, q, s2, c, e, n \in ibd', Duplicates', IsUp(p, n)' /\ n \notin network.inIbd)
    BY <1>10, <1>11, LoadsGrow, Zenon
  <1>14. s2 = sync'[n][p] /\ q = sync'[p][n] /\ e = chan'[n][p] /\ c = chan'[p][n]
    BY <1>4, <1>5
  <1>15. Direction(n, p)'
    BY <1>10, <1>12, <1>14, DirectionIs
  <1>16. Direction(p, n)'
    BY <1>10, <1>13, <1>14, DirectionIs
  <1>17. errors' \subseteq {"DuplicatedBlockRequest"}
    BY DEF SyncInv
  <1> QED BY <1>6, <1>8, <1>9, <1>15, <1>16, <1>17, InvKept

LEMMA SendBlockStep ==
  ASSUME SyncInv, network' = network, NEW n \in Node, NEW p \in Node, {n, p} \in Links, SendBlock(n, p)
  PROVE  SyncInv'
  <1>1. PICK K, L, s, q, a, c, off1, off2, dup, ask1, ask2 :
               Ends(n, p, K, L, s, q, a, c, off1, off2, dup, ask1, ask2)
    BY EndsAre
  <1>2. PICK b, m, e, s2 : /\ b = Head(s.queue) /\ m = BlockResponse(b) /\ e = Append(a, m)
                           /\ s2 = [s EXCEPT !.queue = Tail(@), !.bestSent = ChoosePeersBest(@, b)]
    OBVIOUS
  <1>3. /\ a = chan[n][p] /\ s = sync[n][p] /\ s \in Manager /\ q \in Manager
        /\ a \in Seq(Messages) /\ c \in Seq(Messages)
        /\ Loads(K, L, s, q, a, c, off1, dup, ask1) /\ Loads(L, K, q, s, c, a, off2, dup, ask2)
    BY <1>1 DEF Ends
  <1>4. s.queue # <<>> /\ UNCHANGED <<known, tip, ibd, events, up, errors, disconnects>>
    BY <1>3 DEF SendBlock, SameChainstate
  <1>5. chan' = [chan EXCEPT ![n][p] = e]
    BY <1>2, <1>3 DEF SendBlock
  <1>6. sync' = [sync EXCEPT ![n][p] = s2]
    <2>1. sync \in [Node -> [Node -> Manager]]
      BY DEF SyncInv, TypeOK
    <2>2. sync' = [sync EXCEPT ![n][p].queue = Tail(@), ![n][p].bestSent = ChoosePeersBest(@, b)]
      BY <1>2, <1>3 DEF SendBlock
    <2> QED BY <1>2, <1>3, <2>1, <2>2
  <1>7. b \in Block /\ Tail(s.queue) \in Seq(Block)
    BY <1>2, <1>3, <1>4 DEF Manager
  <1>8. m \in Messages /\ m.type = "BlockResponse" /\ e \in Seq(Messages)
    <2>1. m \in Messages /\ m.type = "BlockResponse"
      BY <1>2, <1>7, MessageIs DEF BlockResponse
    <2> QED BY <1>2, <1>3, <2>1, MoreIs
  <1>9. /\ s2 \in Manager /\ s2.requested = s.requested /\ s2.pending = s.pending
        /\ s2.expectsBlocks = s.expectsBlocks /\ s2.peersBest = s.peersBest
    <2>1. PICK best : best = ChoosePeersBest(s.bestSent, b)
      OBVIOUS
    <2>2. s.bestSent \in Block \cup {NoBlock}
      BY <1>3 DEF Manager
    <2>3. best \in Block \cup {NoBlock}
      BY <1>7, <2>1, <2>2, ChooseIs
    <2>4. s2 = [s EXCEPT !.queue = Tail(s.queue), !.bestSent = best]
      BY <1>2, <2>1
    <2> QED BY <1>3, <1>7, <2>3, <2>4 DEF Manager
  <1>10. Loads(L, K, q, s2, c, e, off2, dup, ask2)
    BY <1>2, <1>3, <1>4, <1>8, ServerSendsBlock
  <1>11. Loads(K, L, s2, q, e, c, off1, dup, ask1)
    <2>1. Loads(K, L, s, q, Append(a, m), c, off1, dup, ask1 \/ m.type = "HeaderListRequest")
      BY <1>3, <1>8, ClientSends
    <2>2. Loads(K, L, s, q, e, c, off1, dup, ask1)
      BY <1>2, <1>8, <2>1, LoadsGrow
    <2>3. Wanted(s2, K, L, off1) /\ BothHave(s2.peersBest, K, L)
      BY <1>3, <1>9 DEF Loads, Wanted
    <2> QED BY <1>9, <2>2, <2>3, NewManagers
  <1>12. events' \in [Node -> [Node -> Seq(Block)]]
    BY <1>4 DEF SyncInv, TypeOK
  <1> QED BY <1>1, <1>4, <1>5, <1>6, <1>8, <1>9, <1>10, <1>11, <1>12, SendStep

\* What the first node has and what is on its way to it has no gaps.
LEMMA ComingClosed ==
  ASSUME NEW K, NEW L, NEW s, NEW q \in Manager, NEW a, NEW c \in Seq(Messages), NEW off, NEW dup, NEW ask,
         Loads(K, L, s, q, a, c, off, dup, ask), Closed(K)
  PROVE  Closed(K \cup Coming(c))
  <1>1. CASE Carries(c, <<>>)
    <2>1. Coming(c) = {}
      BY <1>1, CarriesComing DEF Elements
    <2> QED BY <2>1
  <1>2. CASE ~Carries(c, <<>>)
    <2>1. PICK bs \in Seq(Block) : Carries(c, bs) /\ s.requested = bs \o q.queue
      BY <1>2 DEF Loads, Accounted, Asked, Served, Refused
    <2>2. PICK E : E = Elements(bs)
      OBVIOUS
    <2>3. Coming(c) = E
      BY <2>1, <2>2, CarriesComing
    <2>4. PICK queue, all : queue = q.queue /\ all = bs \o queue
      OBVIOUS
    <2>5. queue \in Seq(Block)
      BY <2>4 DEF Manager
    <2>6. /\ Len(bs) \in Nat /\ Len(queue) \in Nat /\ Len(all) = Len(bs) + Len(queue)
          /\ \A i \in 1 .. Len(bs) : all[i] = bs[i]
      BY <2>4, <2>5, JoinIs
    <2>7. Linked(all) /\ (all # <<>> => Parent[all[1]] \in K)
      BY <2>1, <2>4 DEF Loads, Wanted, Chained
    <2>8. ASSUME NEW i \in 1 .. Len(bs) PROVE bs[i] \in Block /\ Parent[bs[i]] \in K \cup E
      <3>1. bs[i] \in Block
        OBVIOUS
      <3>2. CASE i = 1
        <4>1. Len(all) # 0 /\ 1 \in 1 .. Len(bs)
          BY <2>6, <3>2
        <4>2. all # <<>>
          BY <4>1
        <4> QED BY <2>6, <2>7, <3>1, <3>2, <4>1, <4>2
      <3>3. CASE i # 1
        <4>1. i \in 2 .. Len(all) /\ i - 1 \in 1 .. Len(bs)
          BY <2>6, <3>3
        <4>2. Parent[all[i]] = all[i - 1]
          BY <2>7, <4>1 DEF Linked
        <4>3. all[i] = bs[i] /\ all[i - 1] = bs[i - 1]
          BY <2>6, <4>1
        <4>4. bs[i - 1] \in E
          BY <2>2, <4>1 DEF Elements
        <4> QED BY <3>1, <4>2, <4>3, <4>4
      <3> QED BY <3>2, <3>3
    <2>9. \A b \in E : b \in Block /\ Parent[b] \in K \cup E
      BY <2>2, <2>8 DEF Elements
    <2> QED BY <2>3, <2>9 DEF Closed, GenBlock
  <1> QED BY <1>1, <1>2

LEMMA HandleNewTipStep ==
  ASSUME SyncInv, network' = network, NEW n \in Node, NEW p \in Node, {n, p} \in Links, HandleNewTip(n, p)
  PROVE  SyncInv'
  <1>1. PICK K, L, s, q, a, c, off1, off2, dup, ask1, ask2 :
               Ends(n, p, K, L, s, q, a, c, off1, off2, dup, ask1, ask2)
    BY EndsAre
  <1>2. PICK t, bases, hs, m, e : /\ t = tip[n] /\ bases = {s.peersBest, s.bestSent} \ {NoBlock}
                                  /\ hs = HeadersSinceFork(t, bases) /\ m = HeaderList(hs) /\ e = Append(a, m)
    OBVIOUS
  <1>3. /\ a = chan[n][p] /\ s = sync[n][p] /\ s \in Manager /\ q \in Manager
        /\ a \in Seq(Messages) /\ c \in Seq(Messages)
        /\ Loads(K, L, s, q, a, c, off1, dup, ask1) /\ Loads(L, K, q, s, c, a, off2, dup, ask2)
        /\ Closed(K) /\ t \in K /\ Closed(L) /\ tip[p] \in L /\ HeaderLimit \in Nat \ {0} /\ (n \in ibd <=> off2)
    BY <1>1, <1>2 DEF Ends
  <1>4. chan \in [Node -> [Node -> Seq(Messages)]] /\ sync \in [Node -> [Node -> Manager]]
    BY DEF SyncInv, TypeOK
  <1>5. events' \in [Node -> [Node -> Seq(Block)]]
    <2>1. events \in [Node -> [Node -> Seq(Block)]] /\ events[n][p] # <<>>
      BY DEF SyncInv, TypeOK, HandleNewTip
    <2>2. PICK ev : ev = Tail(events[n][p])
      OBVIOUS
    <2>3. ev \in Seq(Block)
      BY <2>1, <2>2
    <2>4. events' = [events EXCEPT ![n][p] = ev]
      BY <2>2 DEF HandleNewTip
    <2> QED BY <2>1, <2>3, <2>4
  <1>6. UNCHANGED <<known, tip, ibd, up, errors, disconnects>> /\ sync' = sync
    BY DEF HandleNewTip
  <1>7. sync' = [sync EXCEPT ![n][p] = s]
    BY <1>3, <1>4, <1>6
  <1>8. chan' = chan \/ (chan' = [chan EXCEPT ![n][p] = e] /\ n \notin ibd)
    BY <1>2, <1>3 DEF HandleNewTip
  <1>9. CASE chan' = chan
    <2>1. chan' = [chan EXCEPT ![n][p] = a]
      BY <1>3, <1>4, <1>9
    <2>2. UNCHANGED <<known, tip, ibd, up, errors, disconnects>> /\ s \in Manager /\ a \in Seq(Messages)
      BY <1>3, <1>6
    <2>3. Loads(K, L, s, q, a, c, off1, dup, ask1) /\ Loads(L, K, q, s, c, a, off2, dup, ask2)
      BY <1>3
    <2> QED BY <1>1, <1>5, <1>7, <2>1, <2>2, <2>3, SendStep
  <1>10. CASE chan' = [chan EXCEPT ![n][p] = e] /\ n \notin ibd
    <2>1. PICK T : T = L \cup Coming(a)
      OBVIOUS
    <2>2. Closed(T)
      BY <1>3, <2>1, ComingClosed
    <2>3. Genesis \in T
      BY <1>3, <2>1, GenesisIn
    <2>4. bases \in SUBSET T
      <3>1. BothHave(s.peersBest, K, L) /\ SentTo(s.bestSent, a, L)
        BY <1>3 DEF Loads
      <3> QED BY <1>2, <2>1, <3>1 DEF BothHave, SentTo
    <2>5. t \in GenBlock
      BY <1>3 DEF Closed
    <2>6. PICK h \in 0 .. Height[t] : HeadersFrom(hs, t, h) /\ Ancestor[t][h] \in T
      BY <1>2, <1>3, <2>2, <2>3, <2>4, <2>5, ForkFits
    <2>7. GoodHeaders(hs, K, off2)
      BY <1>3, <1>10, <2>6, HeadersGood
    <2>8. Connects(hs, T) /\ hs \in Seq(Block)
      BY <2>6 DEF HeadersFrom, Connects
    <2>9. m \in Messages /\ m.type = "HeaderList" /\ m.headers = hs
      BY <1>2, <2>8, MessageIs DEF HeaderList
    <2>10. ListFits(m, a, L, K, off2)
      BY <2>1, <2>7, <2>8, <2>9 DEF ListFits
    <2>11. Loads(L, K, q, s, c, e, off2, dup, ask2)
      <3>1. Loads(L, K, q, s, c, Append(a, m), off2, dup, ask2 \/ FullList(m))
        BY <1>3, <2>9, <2>10, ServerSends
      <3> QED BY <1>2, <3>1, LoadsGrow
    <2>12. Loads(K, L, s, q, e, c, off1, dup, ask1)
      <3>1. Loads(K, L, s, q, Append(a, m), c, off1, dup, ask1 \/ m.type = "HeaderListRequest")
        BY <1>3, <2>9, ClientSends
      <3> QED BY <1>2, <3>1, LoadsGrow
    <2>13. e \in Seq(Messages)
      BY <1>2, <1>3, <2>9, MoreIs
    <2> QED BY <1>1, <1>3, <1>5, <1>6, <1>7, <1>10, <2>11, <2>12, <2>13, SendStep
  <1> QED BY <1>8, <1>9, <1>10

\* Two managers that have asked for nothing but headers.
LEMMA FreshLoads ==
  ASSUME NEW K, NEW L, NEW s, s.requested = <<>>, s.pending = <<>>, s.peersBest = NoBlock,
         NEW q, q.queue = <<>>, q.bestSent = NoBlock,
         NEW a \in Seq(Messages), \A i \in 1 .. Len(a) : a[i].type = "HeaderListRequest" /\ a[i].locator \subseteq K,
         NEW c \in Seq(Messages), \A i \in 1 .. Len(c) : c[i].type = "HeaderListRequest",
         NEW off, NEW dup, NEW ask, ask => a # <<>>, BlockLimit \in Nat
  PROVE  Loads(K, L, s, q, a, c, off, dup, ask)
  <1>1. PICK none : none = <<>> /\ none \in Seq(Block) /\ Len(none) = 0
    <2>1. <<>> \in Seq(Block) /\ Len(<<>>) = 0
      OBVIOUS
    <2> QED BY <2>1, Zenon
  <1>2. Locators(a, K)
    BY DEF Locators
  <1>3. Lists(c, K, L, off)
    BY DEF Lists
  <1>4. Wanted(s, K, L, off)
    <2>1. s.requested = none /\ s.pending = none
      BY <1>1
    <2>2. Linked(none) /\ Within(none, L)
      BY <1>1 DEF Linked, Within
    <2>3. \A T : Chained(none, T)
      BY <1>1, <2>2 DEF Chained
    <2>4. Len(none) <= BlockLimit
      BY <1>1
    <2> QED BY <1>1, <2>1, <2>2, <2>3, <2>4 DEF Wanted
  <1>5. Accounted(s.requested, q.queue, a, c, dup)
    <2>1. NoRequest(a)
      BY DEF NoRequest
    <2>2. Carries(c, <<>>)
      <3>1. \A i \in 1 .. Len(c) : c[i].type # "BlockResponse"
        OBVIOUS
      <3> QED BY <3>1, CarriesNone
    <2>3. none \o none = none
      BY <1>1
    <2>4. Served(none, none, a, c)
      BY <1>1, <2>1, <2>2, <2>3 DEF Served
    <2> QED BY <1>1, <2>4 DEF Accounted
  <1>6. SentTo(q.bestSent, c, K) /\ BothHave(s.peersBest, K, L)
    BY DEF SentTo, BothHave
  <1>7. ask => Asks(q.sentAll, s.requested, a, c)
    <2> SUFFICES ASSUME ask PROVE Asks(q.sentAll, s.requested, a, c)
      OBVIOUS
    <2>1. 1 \in 1 .. Len(a)
      OBVIOUS
    <2>2. a[1].type = "HeaderListRequest"
      BY <2>1
    <2> QED BY <2>1, <2>2 DEF Asks
  <1> QED BY <1>2, <1>3, <1>4, <1>5, <1>6, <1>7 DEF Loads

\* The two ends of a connection start again.
Restarts(n, p, s, q, e, d) ==
  /\ chan' = [chan EXCEPT ![n][p] = e, ![p][n] = d]
  /\ sync' = [sync EXCEPT ![n][p] = s, ![p][n] = q]
  /\ s \in Manager /\ q \in Manager /\ e \in Seq(Messages) /\ d \in Seq(Messages)
  /\ up' \subseteq Links /\ \A x, y \in Node : {x, y} # {n, p} => ({x, y} \in up' <=> {x, y} \in up)

\* The flags of both directions.
Flags(n, p, off1, off2, dup) == (p \in ibd => off1) /\ (n \in ibd => off2) /\ (dup => Duplicates)

LEMMA FlagsAre ==
  ASSUME SyncInv, NEW n \in Node, NEW p \in Node, {n, p} \in Links
  PROVE  \E off1, off2, dup : Flags(n, p, off1, off2, dup)
  BY EndsAre DEF Ends, Flags

LEMMA RestartStep ==
  ASSUME SyncInv, network' = network, NEW n \in Node, NEW p \in Node, {n, p} \in Links,
         NEW s, NEW q, NEW e, NEW d, Restarts(n, p, s, q, e, d), UNCHANGED <<known, tip, ibd, errors>>,
         events' \in [Node -> [Node -> Seq(Block)]], disconnects' \in 0 .. MaxDisconnects,
         NEW off1, NEW off2, NEW dup, NEW ask, Flags(n, p, off1, off2, dup), IsUp(n, p)' => ask,
         Loads(known[n], known[p], s, q, e, d, off1, dup, ask),
         Loads(known[p], known[n], q, s, d, e, off2, dup, ask)
  PROVE  SyncInv'
  <1>1. PICK K, L : K = known[n] /\ L = known[p]
    OBVIOUS
  <1>2. n # p
    BY EndsAre DEF Ends
  <1>3. TypeOK
    BY DEF SyncInv
  <1>4. /\ chan \in [Node -> [Node -> Seq(Messages)]] /\ sync \in [Node -> [Node -> Manager]]
        /\ s \in Manager /\ q \in Manager /\ e \in Seq(Messages) /\ d \in Seq(Messages)
    BY <1>3 DEF TypeOK, Restarts
  <1>5. /\ chan' \in [Node -> [Node -> Seq(Messages)]] /\ chan'[n][p] = e /\ chan'[p][n] = d
        /\ \A x, y \in Node : {x, y} # {n, p} => chan'[x][y] = chan[x][y]
    <2>1. chan' = [chan EXCEPT ![n][p] = e, ![p][n] = d]
      BY DEF Restarts
    <2>2. chan' \in [Node -> [Node -> Seq(Messages)]]
      BY <1>4, <2>1
    <2>3. chan'[n][p] = e /\ chan'[p][n] = d
      BY <1>2, <1>4, <2>1
    <2>4. ASSUME NEW x \in Node, NEW y \in Node, {x, y} # {n, p} PROVE chan'[x][y] = chan[x][y]
      <3>1. ~(x = n /\ y = p) /\ ~(x = p /\ y = n)
        BY <2>4
      <3> QED BY <1>4, <2>1, <3>1
    <2> QED BY <2>2, <2>3, <2>4
  <1>6. /\ sync' \in [Node -> [Node -> Manager]] /\ sync'[n][p] = s /\ sync'[p][n] = q
        /\ \A x, y \in Node : {x, y} # {n, p} => sync'[x][y] = sync[x][y]
    <2>1. sync' = [sync EXCEPT ![n][p] = s, ![p][n] = q]
      BY DEF Restarts
    <2>2. sync' \in [Node -> [Node -> Manager]]
      BY <1>4, <2>1
    <2>3. sync'[n][p] = s /\ sync'[p][n] = q
      BY <1>2, <1>4, <2>1
    <2>4. ASSUME NEW x \in Node, NEW y \in Node, {x, y} # {n, p} PROVE sync'[x][y] = sync[x][y]
      <3>1. ~(x = n /\ y = p) /\ ~(x = p /\ y = n)
        BY <2>4
      <3> QED BY <1>4, <2>1, <3>1
    <2> QED BY <2>2, <2>3, <2>4
  <1>7. Elsewhere(n, p)
    BY <1>5, <1>6 DEF Elsewhere, Untouched, Restarts
  <1>8. Links' = Links /\ MaxDisconnects' = MaxDisconnects
    BY DEF Links, MaxDisconnects
  <1>9. TypeOK'
    BY <1>3, <1>5, <1>6, <1>8 DEF TypeOK, Restarts
  <1>10. Grows
    BY DEF Grows
  <1>11. K = known'[n] /\ L = known'[p] /\ s = sync'[n][p] /\ q = sync'[p][n] /\ e = chan'[n][p] /\ d = chan'[p][n]
    BY <1>1, <1>5, <1>6
  <1>12. (IsUp(n, p)' /\ p \notin network.inIbd => ask) /\ (IsUp(p, n)' /\ n \notin network.inIbd => ask)
    <2>1. {p, n} = {n, p}
      OBVIOUS
    <2> QED BY <2>1 DEF IsUp
  <1>13. (p \in ibd' => off1) /\ (n \in ibd' => off2) /\ (dup => Duplicates') /\ K \subseteq K /\ L \subseteq L
    BY DEF Flags, Duplicates
  <1>14. Loads(K, L, s, q, e, d, off1, dup, ask) /\ Loads(L, K, q, s, d, e, off2, dup, ask)
    BY <1>1
  <1>15. Loads(K, L, s, q, e, d, p \in ibd', Duplicates', IsUp(n, p)' /\ p \notin network.inIbd)
    <2>1. PICK o, u, k : /\ o = (p \in ibd') /\ u = Duplicates' /\ k = (IsUp(n, p)' /\ p \notin network.inIbd)
      OBVIOUS
    <2>2. (o => off1) /\ (dup => u) /\ (k => ask)
      BY <1>12, <1>13, <2>1
    <2>3. Loads(K, L, s, q, e, d, o, u, k)
      BY <1>13, <1>14, <2>2, LoadsGrow
    <2> QED BY <2>1, <2>3
  <1>16. Loads(L, K, q, s, d, e, n \in ibd', Duplicates', IsUp(p, n)' /\ n \notin network.inIbd)
    <2>1. PICK o, u, k : /\ o = (n \in ibd') /\ u = Duplicates' /\ k = (IsUp(p, n)' /\ n \notin network.inIbd)
      OBVIOUS
    <2>2. (o => off2) /\ (dup => u) /\ (k => ask)
      BY <1>12, <1>13, <2>1
    <2>3. Loads(L, K, q, s, d, e, o, u, k)
      BY <1>13, <1>14, <2>2, LoadsGrow
    <2> QED BY <2>1, <2>3
  <1>17. Direction(n, p)'
    BY <1>11, <1>15, DirectionIs
  <1>18. Direction(p, n)'
    BY <1>11, <1>16, DirectionIs
  <1>19. errors' \subseteq {"DuplicatedBlockRequest"}
    BY DEF SyncInv
  <1> QED BY <1>7, <1>9, <1>10, <1>17, <1>18, <1>19, InvKept

\* A new manager, before and after its first request.
LEMMA NewManagerIs ==
  ASSUME NEW s, s = NewManager \/ s = AfterHeaderRequest(NewManager)
  PROVE  /\ s \in Manager /\ s.requested = <<>> /\ s.pending = <<>> /\ s.peersBest = NoBlock
         /\ s.queue = <<>> /\ s.bestSent = NoBlock
  <1>1. PICK none : none = <<>> /\ none \in Seq(Block)
    <2>1. <<>> \in Seq(Block)
      OBVIOUS
    <2> QED BY <2>1, Zenon
  <1>2. NewManager = [pending |-> none, requested |-> none, peersBest |-> NoBlock, queue |-> none,
                      bestSent |-> NoBlock, sentAll |-> FALSE, expectsHeaders |-> FALSE, expectsBlocks |-> FALSE]
    BY <1>1 DEF NewManager
  <1>3. NewManager \in Manager
    BY <1>1, <1>2 DEF Manager
  <1>4. s \in Manager
    BY <1>3 DEF AfterHeaderRequest, Manager
  <1>5. /\ NewManager.requested = none /\ NewManager.pending = none /\ NewManager.peersBest = NoBlock
        /\ NewManager.queue = none /\ NewManager.bestSent = NoBlock
    BY <1>2
  <1>6. /\ s.requested = none /\ s.pending = none /\ s.peersBest = NoBlock
        /\ s.queue = none /\ s.bestSent = NoBlock
    BY <1>3, <1>5 DEF AfterHeaderRequest, Manager
  <1> QED BY <1>1, <1>4, <1>6

LEMMA CloseStep ==
  ASSUME SyncInv, network' = network, NEW n \in Node, NEW p \in Node, {n, p} \in Links, Close(n, p),
         disconnects' \in 0 .. MaxDisconnects
  PROVE  SyncInv'
  <1>1. PICK s, none : s = NewManager /\ none = <<>>
    OBVIOUS
  <1>2. /\ s \in Manager /\ s.requested = <<>> /\ s.pending = <<>> /\ s.peersBest = NoBlock
        /\ s.queue = <<>> /\ s.bestSent = NoBlock
    BY <1>1, NewManagerIs
  <1>3. none \in Seq(Messages) /\ none \in Seq(Block) /\ Len(none) = 0
    BY <1>1
  <1>4. BlockLimit \in Nat
    BY EndsAre DEF Ends
  <1>5. PICK off1, off2, dup, ask : Flags(n, p, off1, off2, dup) /\ ~ask
    BY FlagsAre
  <1>6. \A K, L, off : Loads(K, L, s, s, none, none, off, dup, ask)
    <2> TAKE K, L, off
    <2>1. \A i \in 1 .. Len(none) : none[i].type = "HeaderListRequest" /\ none[i].locator \subseteq K
      BY <1>3
    <2>2. \A i \in 1 .. Len(none) : none[i].type = "HeaderListRequest"
      BY <1>3
    <2> QED BY <1>2, <1>3, <1>4, <1>5, <2>1, <2>2, FreshLoads
  <1>7. up' = up \ {{n, p}} /\ up \subseteq Links
    BY DEF Close, SyncInv, TypeOK
  <1>8. Restarts(n, p, s, s, none, none)
    <2>1. /\ chan' = [chan EXCEPT ![n][p] = none, ![p][n] = none]
          /\ sync' = [sync EXCEPT ![n][p] = s, ![p][n] = s]
      BY <1>1 DEF Close
    <2> QED BY <1>2, <1>3, <1>7, <2>1 DEF Restarts
  <1>9. events' \in [Node -> [Node -> Seq(Block)]]
    <2>1. events \in [Node -> [Node -> Seq(Block)]]
      BY DEF SyncInv, TypeOK
    <2>2. events' = [events EXCEPT ![n][p] = none, ![p][n] = none]
      BY <1>1 DEF Close
    <2> QED BY <1>3, <2>1, <2>2
  <1>10. UNCHANGED <<known, tip, ibd, errors>>
    BY DEF Close
  <1>11. IsUp(n, p)' => ask
    BY <1>7 DEF IsUp
  <1> QED BY <1>5, <1>6, <1>8, <1>9, <1>10, <1>11, RestartStep

LEMMA ConnectStep ==
  ASSUME SyncInv, network' = network, NEW n \in Node, NEW p \in Node, {n, p} \in Links, Connect(n, p)
  PROVE  SyncInv'
  <1>1. PICK s, m1, m2, e, d : /\ s = AfterHeaderRequest(NewManager)
                               /\ m1 = HeaderListRequest(Locator(tip[n])) /\ m2 = HeaderListRequest(Locator(tip[p]))
                               /\ e = <<m1>> /\ d = <<m2>>
    OBVIOUS
  <1>2. /\ s \in Manager /\ s.requested = <<>> /\ s.pending = <<>> /\ s.peersBest = NoBlock
        /\ s.queue = <<>> /\ s.bestSent = NoBlock
    BY <1>1, NewManagerIs
  <1>3. /\ Closed(known[n]) /\ tip[n] \in known[n] /\ Closed(known[p]) /\ tip[p] \in known[p] /\ BlockLimit \in Nat
    BY EndsAre DEF Ends
  <1>4. /\ m1 \in Messages /\ m1.type = "HeaderListRequest" /\ m1.locator \subseteq known[n]
        /\ HeaderRequest(tip[n]) = e
    BY <1>1, <1>3, HeaderRequestIs
  <1>5. /\ m2 \in Messages /\ m2.type = "HeaderListRequest" /\ m2.locator \subseteq known[p]
        /\ HeaderRequest(tip[p]) = d
    BY <1>1, <1>3, HeaderRequestIs
  <1>6. e \in Seq(Messages) /\ Len(e) = 1 /\ e[1] = m1 /\ e # <<>>
    BY <1>1, <1>4
  <1>7. d \in Seq(Messages) /\ Len(d) = 1 /\ d[1] = m2 /\ d # <<>>
    BY <1>1, <1>5
  <1>8. /\ \A i \in 1 .. Len(e) : e[i].type = "HeaderListRequest" /\ e[i].locator \subseteq known[n]
        /\ \A i \in 1 .. Len(d) : d[i].type = "HeaderListRequest" /\ d[i].locator \subseteq known[p]
    <2>1. \A i \in 1 .. 1 : i = 1
      OBVIOUS
    <2> QED BY <1>4, <1>5, <1>6, <1>7, <2>1
  <1>9. PICK off1, off2, dup, ask : Flags(n, p, off1, off2, dup) /\ ask
    BY FlagsAre
  <1>10. /\ Loads(known[n], known[p], s, s, e, d, off1, dup, ask)
         /\ Loads(known[p], known[n], s, s, d, e, off2, dup, ask)
    BY <1>2, <1>3, <1>6, <1>7, <1>8, FreshLoads
  <1>11. up' = up \cup {{n, p}} /\ up \subseteq Links
    BY DEF Connect, SyncInv, TypeOK
  <1>12. Restarts(n, p, s, s, e, d)
    <2>1. /\ chan' = [chan EXCEPT ![n][p] = e, ![p][n] = d]
          /\ sync' = [sync EXCEPT ![n][p] = s, ![p][n] = s]
      BY <1>1, <1>4, <1>5 DEF Connect
    <2> QED BY <1>2, <1>6, <1>7, <1>11, <2>1 DEF Restarts
  <1>13. events' \in [Node -> [Node -> Seq(Block)]] /\ disconnects' \in 0 .. MaxDisconnects
    BY DEF SyncInv, TypeOK, Connect
  <1>14. UNCHANGED <<known, tip, ibd, errors>>
    BY DEF Connect
  <1> QED BY <1>9, <1>10, <1>12, <1>13, <1>14, RestartStep

LEMMA ReceiveStep ==
  ASSUME SyncInv, network' = network, NEW n \in Node, NEW b, Receive(n, b)
  PROVE  SyncInv'
  <1>1. b \in Block /\ Parent[b] \in known[n] /\ ProcessBlock(n, b) /\ errors' = errors
    <2>1. Source \in [Node -> SUBSET Block]
      BY SyncAssumption DEF SyncInv, Source
    <2> QED BY <2>1 DEF Receive
  <1>2. ChainstateOK' /\ Grows
    BY <1>1, ProcessIs
  <1>3. chan' = chan /\ sync' = sync /\ up' = up /\ disconnects' = disconnects
    BY DEF Receive
  <1>4. Links' = Links /\ MaxDisconnects' = MaxDisconnects
    BY DEF Links, MaxDisconnects
  <1>5. TypeOK'
    <2>1. TypeOK
      BY DEF SyncInv
    <2>2. /\ up' \subseteq Links' /\ chan' \in [Node -> [Node -> Seq(Messages)]]
          /\ sync' \in [Node -> [Node -> Manager]] /\ errors' \subseteq Errors /\ disconnects' \in 0 .. MaxDisconnects'
      BY <1>1, <1>3, <1>4, <2>1 DEF TypeOK
    <2> QED BY <1>2, <2>2, TypeParts DEF TypeOK, ChainstateOK
  <1>6. ASSUME NEW x \in Node, NEW y \in Node, {x, y} \in Links PROVE Direction(x, y)'
    <2>1. Untouched(x, y) /\ Untouched(y, x)
      BY <1>3 DEF Untouched
    <2> QED BY <1>2, <1>6, <2>1, DirectionKept
  <1>7. (\A x, y \in Node : {x, y} \in Links => Direction(x, y))'
    BY <1>4, <1>6
  <1>8. network' \in Networks /\ errors' \subseteq {"DuplicatedBlockRequest"} /\ (ibd \subseteq network.inIbd)'
    BY <1>1, <1>2 DEF SyncInv, Grows
  <1> QED BY <1>5, <1>7, <1>8 DEF SyncInv

-----------------------------------------------------------------------------
(***************************************************************************)
(* The invariant holds                                                     *)
(***************************************************************************)

LEMMA InitIs ==
  ASSUME Init
  PROVE  SyncInv
  <1>1. network \in Networks /\ errors = {} /\ ibd = network.inIbd /\ up = {} /\ disconnects = 0
    BY DEF Init
  <1>2. PICK none, s : none = <<>> /\ s = NewManager
    OBVIOUS
  <1>3. /\ s \in Manager /\ s.requested = <<>> /\ s.pending = <<>> /\ s.peersBest = NoBlock
        /\ s.queue = <<>> /\ s.bestSent = NoBlock
    BY <1>2, NewManagerIs
  <1>4. none \in Seq(Messages) /\ none \in Seq(Block) /\ Len(none) = 0
    BY <1>2
  <1>5. /\ chan = [n \in Node |-> [p \in Node |-> none]] /\ events = [n \in Node |-> [p \in Node |-> none]]
        /\ sync = [n \in Node |-> [p \in Node |-> s]]
    BY <1>2 DEF Init
  <1>6. TypeOK
    <2>1. known = [n \in Node |-> {Genesis}] /\ tip = [n \in Node |-> Genesis] /\ Genesis \in GenBlock
      BY DEF Init, GenBlock
    <2>2. /\ known \in [Node -> SUBSET GenBlock] /\ tip \in [Node -> GenBlock] /\ \A n \in Node : tip[n] \in known[n]
          /\ \A n \in Node : \A b \in known[n] \ {Genesis} : Parent[b] \in known[n]
      BY <2>1
    <2>3. ibd \subseteq Node /\ MaxDisconnects \in Nat
      BY <1>1, SyncAssumption DEF MaxDisconnects
    <2>4. chan \in [Node -> [Node -> Seq(Messages)]] /\ events \in [Node -> [Node -> Seq(Block)]]
      BY <1>4, <1>5
    <2>5. sync \in [Node -> [Node -> Manager]]
      BY <1>3, <1>5
    <2>6. disconnects \in 0 .. MaxDisconnects /\ errors \subseteq Errors /\ up \subseteq Links
      BY <1>1, <2>3
    <2> QED BY <2>2, <2>3, <2>4, <2>5, <2>6 DEF TypeOK
  <1>7. ASSUME NEW n \in Node, NEW p \in Node PROVE Direction(n, p)
    <2>1. PICK K, L : K = known[n] /\ L = known[p]
      OBVIOUS
    <2>2. \A i \in 1 .. Len(none) : none[i].type = "HeaderListRequest" /\ none[i].locator \subseteq K
      BY <1>4
    <2>3. BlockLimit \in Nat
      BY <1>1, SyncAssumption DEF BlockLimit
    <2>4. PICK o, u, k : o = (p \in ibd) /\ u = Duplicates /\ k = (IsUp(n, p) /\ p \notin network.inIbd)
      OBVIOUS
    <2>5. ~k
      BY <1>1, <2>4 DEF IsUp
    <2>6. Loads(K, L, s, s, none, none, o, u, k)
      BY <1>3, <1>4, <2>2, <2>3, <2>5, FreshLoads
    <2>7. Loads(K, L, s, s, none, none, p \in ibd, Duplicates, IsUp(n, p) /\ p \notin network.inIbd)
      BY <2>4, <2>6
    <2>8. sync[n][p] = s /\ sync[p][n] = s /\ chan[n][p] = none /\ chan[p][n] = none
      BY <1>5
    <2> QED BY <2>1, <2>7, <2>8 DEF Direction
  <1> QED BY <1>1, <1>6, <1>7 DEF SyncInv

LEMMA PairIs ==
  ASSUME NEW pair \in Pairs
  PROVE  pair[1] \in Node /\ pair[2] \in Node /\ {pair[1], pair[2]} \in Links
  BY DEF Pairs

LEMMA TurnStep ==
  ASSUME SyncInv, network' = network, NEW n \in Node, NEW p \in Node, {n, p} \in Links, Turn(n, p)
  PROVE  SyncInv'
  BY RefuseHeadersStep, SendHeadersStep, QueueBlocksStep, SendBlockStep, IgnoreHeadersStep, HandleHeadersStep,
     HandleBlockStep DEF Turn

LEMMA DisconnectStep ==
  ASSUME SyncInv, network' = network, NEW n \in Node, NEW p \in Node, {n, p} \in Links,
         DisconnectStalled(n, p) \/ DisconnectLate(n, p)
  PROVE  SyncInv'
  <1>1. disconnects \in 0 .. MaxDisconnects /\ MaxDisconnects \in Nat
    BY SyncAssumption DEF SyncInv, TypeOK, MaxDisconnects
  <1>2. Close(n, p) /\ disconnects' \in 0 .. MaxDisconnects
    BY <1>1 DEF DisconnectStalled, DisconnectLate
  <1> QED BY <1>2, CloseStep

LEMMA NextStep ==
  ASSUME SyncInv, [Next]_vars
  PROVE  SyncInv'
  <1>1. CASE UNCHANGED vars
    <2>1. /\ network' = network /\ known' = known /\ tip' = tip /\ ibd' = ibd /\ up' = up /\ chan' = chan
          /\ events' = events /\ sync' = sync /\ errors' = errors /\ disconnects' = disconnects
      BY <1>1 DEF vars
    <2>2. Links' = Links /\ MaxDisconnects' = MaxDisconnects /\ Grows
      BY <2>1 DEF Links, MaxDisconnects, Grows
    <2>3. ASSUME NEW x \in Node, NEW y \in Node, {x, y} \in Links PROVE Direction(x, y)'
      <3>1. Untouched(x, y) /\ Untouched(y, x)
        BY <2>1 DEF Untouched
      <3> QED BY <2>2, <2>3, <3>1, DirectionKept
    <2>4. (\A x, y \in Node : {x, y} \in Links => Direction(x, y))'
      BY <2>2, <2>3
    <2>5. TypeOK'
      <3>1. TypeOK
        BY DEF SyncInv
      <3> QED BY <2>1, <2>2, <3>1 DEF TypeOK
    <2>6. network' \in Networks /\ errors' \subseteq {"DuplicatedBlockRequest"} /\ (ibd \subseteq network.inIbd)'
      BY <2>1 DEF SyncInv
    <2> QED BY <2>4, <2>5, <2>6 DEF SyncInv
  <1>2. ASSUME NEW n \in Node, NEW b \in Source[n], Receive(n, b), network' = network PROVE SyncInv'
    BY <1>2, ReceiveStep
  <1>3. ASSUME NEW pair \in Pairs, DisconnectLate(pair[1], pair[2]), network' = network PROVE SyncInv'
    BY <1>3, PairIs, DisconnectStep
  <1>4. ASSUME Progress, network' = network PROVE SyncInv'
    <2>1. PICK pair \in Pairs : \/ Turn(pair[1], pair[2]) \/ HandleNewTip(pair[1], pair[2])
                                \/ DisconnectStalled(pair[1], pair[2]) \/ Connect(pair[1], pair[2])
      BY <1>4 DEF Progress
    <2>2. pair[1] \in Node /\ pair[2] \in Node /\ {pair[1], pair[2]} \in Links
      BY PairIs
    <2> QED BY <1>4, <2>1, <2>2, TurnStep, HandleNewTipStep, DisconnectStep, ConnectStep
  <1> QED BY <1>1, <1>2, <1>3, <1>4 DEF Next

\* What n has requested, in the words of RequestsAccountedFor.
Account(requested, queue, a, c) ==
  /\ \A i, j \in PositionsOf(a, "BlockListRequest") : i = j
  /\ \E k \in 0 .. Len(requested) :
       /\ Carries(c, SubSeq(requested, 1, k))
       /\ SubSeq(requested, k + 1, Len(requested)) =
            queue \o (IF PositionsOf(a, "BlockListRequest") = {} THEN <<>>
                      ELSE a[CHOOSE i \in PositionsOf(a, "BlockListRequest") : TRUE].ids)

\* The parts of a sequence.
LEMMA Split ==
  ASSUME NEW S, NEW bs \in Seq(S), NEW q \in Seq(S), NEW r, r = bs \o q
  PROVE  /\ r \in Seq(S) /\ Len(bs) \in 0 .. Len(r) /\ SubSeq(r, 1, Len(bs)) = bs
         /\ SubSeq(r, Len(bs) + 1, Len(r)) = q
  <1>1. PICK k, f, g : k = Len(bs) /\ f = SubSeq(r, 1, k) /\ g = SubSeq(r, k + 1, Len(r))
    OBVIOUS
  <1>2. /\ r \in Seq(S) /\ k \in Nat /\ Len(q) \in Nat /\ Len(r) = k + Len(q)
        /\ \A i \in 1 .. k : r[i] = bs[i]
        /\ \A i \in 1 .. Len(q) : r[k + i] = q[i]
    BY <1>1, JoinIs
  <1>3. f \in Seq(S) /\ Len(f) = k /\ \A i \in 1 .. k : f[i] = r[i]
    BY <1>1, <1>2
  <1>4. g \in Seq(S) /\ Len(g) = Len(q) /\ \A i \in 1 .. Len(q) : g[i] = r[k + i]
    BY <1>1, <1>2
  <1>5. f = bs
    BY <1>1, <1>2, <1>3, SameSequence
  <1>6. g = q
    BY <1>2, <1>4, SameSequence
  <1> QED BY <1>1, <1>2, <1>5, <1>6

LEMMA AccountIs ==
  ASSUME NEW requested \in Seq(Block), NEW queue \in Seq(Block), NEW a, NEW c,
         Asked(requested, queue, a, c) \/ Served(requested, queue, a, c)
  PROVE  Account(requested, queue, a, c)
  <1>1. PICK asked, rest : /\ asked = PositionsOf(a, "BlockListRequest")
                           /\ rest = IF asked = {} THEN <<>> ELSE a[CHOOSE i \in asked : TRUE].ids
    OBVIOUS
  <1>2. ASSUME NEW bs \in Seq(Block), Carries(c, bs), NEW q \in Seq(Block), requested = bs \o q,
               q = queue \o rest, \A i, j \in asked : i = j
        PROVE  Account(requested, queue, a, c)
    <2>1. /\ Len(bs) \in 0 .. Len(requested) /\ SubSeq(requested, 1, Len(bs)) = bs
          /\ SubSeq(requested, Len(bs) + 1, Len(requested)) = q
      <3>1. requested = bs \o q
        BY <1>2
      <3> QED BY <3>1, Split
    <2>2. PICK k : k = Len(bs)
      OBVIOUS
    <2>3. k \in 0 .. Len(requested) /\ Carries(c, SubSeq(requested, 1, k))
      BY <1>2, <2>1, <2>2
    <2>4. SubSeq(requested, k + 1, Len(requested)) = queue \o rest
      BY <1>2, <2>1, <2>2
    <2> QED BY <1>1, <1>2, <2>3, <2>4 DEF Account
  <1>3. PICK none : none = <<>> /\ none \in Seq(Block)
    <2>1. <<>> \in Seq(Block)
      OBVIOUS
    <2> QED BY <2>1, Zenon
  <1>4. CASE Served(requested, queue, a, c)
    <2>1. asked = {} /\ rest = none
      BY <1>1, <1>3, <1>4 DEF Served, NoRequest, PositionsOf
    <2>2. PICK bs \in Seq(Block) : Carries(c, bs) /\ requested = bs \o queue
      BY <1>4 DEF Served
    <2>3. queue = queue \o none
      BY <1>3
    <2> QED BY <1>2, <2>1, <2>2, <2>3
  <1>5. CASE Asked(requested, queue, a, c)
    <2>1. PICK i \in 1 .. Len(a) : /\ a[i].type = "BlockListRequest" /\ a[i].ids = requested
                                   /\ \A j \in (1 .. Len(a)) \ {i} : a[j].type # "BlockListRequest"
      BY <1>5 DEF Asked, OneRequest
    <2>2. asked = {i}
      BY <1>1, <2>1 DEF PositionsOf
    <2>3. rest = requested
      BY <1>1, <2>1, <2>2
    <2>4. Carries(c, none) /\ queue = none
      BY <1>3, <1>5 DEF Asked
    <2>5. requested = none \o requested
      BY <1>3
    <2> QED BY <1>2, <1>3, <2>2, <2>3, <2>4, <2>5
  <1> QED BY <1>4, <1>5

LEMMA InvAccounts ==
  ASSUME SyncInv
  PROVE  RequestsAccountedFor
  <1> SUFFICES ASSUME errors = {}, NEW pair \in Pairs
               PROVE  Account(sync[pair[1]][pair[2]].requested, sync[pair[2]][pair[1]].queue,
                              chan[pair[1]][pair[2]], chan[pair[2]][pair[1]])
    BY DEF RequestsAccountedFor, Account
  <1>1. PICK n, p : n = pair[1] /\ p = pair[2]
    OBVIOUS
  <1>2. n \in Node /\ p \in Node /\ {n, p} \in Links
    BY <1>1, PairIs
  <1>3. PICK K, L, s, q, a, c, off1, off2, dup, ask1, ask2 :
               Ends(n, p, K, L, s, q, a, c, off1, off2, dup, ask1, ask2)
    BY <1>2, EndsAre
  <1>4. s \in Manager /\ q \in Manager /\ Accounted(s.requested, q.queue, a, c, dup) /\ ~dup
    BY <1>3 DEF Ends, Loads, Duplicates
  <1>5. s.requested \in Seq(Block) /\ q.queue \in Seq(Block)
    BY <1>4 DEF Manager
  <1>6. Account(s.requested, q.queue, a, c)
    BY <1>4, <1>5, AccountIs DEF Accounted
  <1> QED BY <1>1, <1>3, <1>6 DEF Ends

LEMMA InvBelieved ==
  ASSUME SyncInv
  PROVE  BelievedBestIsReal
  <1> SUFFICES ASSUME NEW pair \in Pairs, NEW n, NEW p, n = pair[1], p = pair[2]
               PROVE  /\ sync[n][p].peersBest \in (known[n] \cap known[p]) \cup {NoBlock}
                      /\ \/ sync[n][p].bestSent \in known[p] \cup {NoBlock}
                         \/ \E i \in 1 .. Len(chan[n][p]) : chan[n][p][i] = BlockResponse(sync[n][p].bestSent)
    BY DEF BelievedBestIsReal
  <1>1. n \in Node /\ p \in Node /\ {n, p} \in Links
    BY PairIs
  <1>2. PICK K, L, s, q, a, c, off1, off2, dup, ask1, ask2 :
               Ends(n, p, K, L, s, q, a, c, off1, off2, dup, ask1, ask2)
    BY <1>1, EndsAre
  <1>3. BothHave(s.peersBest, K, L) /\ SentTo(s.bestSent, a, L) /\ a \in Seq(Messages)
    BY <1>2 DEF Ends, Loads
  <1>4. K = known[n] /\ L = known[p] /\ s = sync[n][p] /\ a = chan[n][p]
    BY <1>2 DEF Ends
  <1>5. ASSUME s.bestSent \in Coming(a) PROVE \E i \in 1 .. Len(a) : a[i] = BlockResponse(s.bestSent)
    <2>1. PICK i \in 1 .. Len(a) : a[i].type = "BlockResponse" /\ s.bestSent = a[i].block
      BY <1>5 DEF Coming, Before
    <2>2. a[i] \in Messages
      BY <1>3
    <2> QED BY <2>1, <2>2, MessageIs
  <1> QED BY <1>3, <1>4, <1>5 DEF BothHave, SentTo

LEMMA InvAsks ==
  ASSUME SyncInv
  PROVE  PeerWillAsk
  <1> SUFFICES ASSUME NEW pair \in Pairs, NEW n, NEW p, n = pair[1], p = pair[2],
                      IsUp(n, p), n \notin network.inIbd, ~sync[n][p].sentAll
               PROVE  WillAsk(p, n)
    BY DEF PeerWillAsk
  <1>1. n \in Node /\ p \in Node /\ {n, p} \in Links
    BY PairIs
  <1>2. PICK K, L, s, q, a, c, off1, off2, dup, ask1, ask2 :
               Ends(n, p, K, L, s, q, a, c, off1, off2, dup, ask1, ask2)
    BY <1>1, EndsAre
  <1>3. s = sync[n][p] /\ q = sync[p][n] /\ a = chan[n][p] /\ c = chan[p][n]
    BY <1>2 DEF Ends
  <1>4. Asks(s.sentAll, q.requested, c, a) /\ Wanted(q, L, K, off2)
    BY <1>2 DEF Ends, Loads
  <1>5. q.requested # <<>> => q.expectsBlocks
    BY <1>4 DEF Wanted
  <1> QED BY <1>3, <1>4, <1>5 DEF Asks, WillAsk, Expects

\* Both ends of every connection agree on what was asked for and what is on its way (SyncInv), for
\* any tree of blocks, any network and any limits: the managers of block_manager.rs, with the
\* messages between them, keep the books of one list of requested blocks.
THEOREM SyncInvariant == Spec => []SyncInv
  <1>1. Init => SyncInv
    BY InitIs
  <1>2. SyncInv /\ [Next]_vars => SyncInv'
    BY NextStep
  <1> QED BY <1>1, <1>2, PTL DEF Spec

\* Nodes that follow the protocol are never blamed for a protocol error other than a request
\* that is taken for a duplicate (the checks of handle_header_list, handle_block_request and
\* handle_block_response in block_manager.rs).
THEOREM HonestNotBlamed == Spec => []HonestPeersNotBlamed
  <1>1. SyncInv => HonestPeersNotBlamed
    BY DEF SyncInv, HonestPeersNotBlamed
  <1> QED BY <1>1, SyncInvariant, PTL

\* Requests are accounted for, announced headers start at blocks that the peer has or will get,
\* and a node that announces nothing is asked for its headers (handle_new_tip, block_manager.rs).
THEOREM EndsAlwaysAgree == Spec => []EndsAgree
  <1>1. SyncInv => EndsAgree
    BY InvAccounts, InvBelieved, InvAsks DEF SyncInv, EndsAgree
  <1> QED BY <1>1, SyncInvariant, PTL
=============================================================================
