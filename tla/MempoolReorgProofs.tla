------------------------- MODULE MempoolReorgProofs -------------------------
(***************************************************************************)
(* Proofs about MempoolReorg, for every block tree, every set of           *)
(* transactions and any number of tips and failed queries.                 *)
(***************************************************************************)
EXTENDS MempoolReorg, SequenceTheorems, WellFoundedInduction, TLAPS

-----------------------------------------------------------------------------
(* Natural numbers and recursive functions                                 *)

\* Every set of naturals has a least element.
LEMMA LeastNatural ==
    ASSUME NEW S, S \subseteq Nat, S # {}
    PROVE  \E m \in S : \A n \in S : m \leq n
<1> DEFINE R == OpToRel(<, Nat)
<1>1. IsWellFoundedOn(R, Nat)
  BY NatLessThanWellFounded
<1>2. \A x, y \in Nat : x < y => <<x, y>> \in R
  BY DEF OpToRel
<1> HIDE DEF R
<1>3. PICK m \in S : \A n \in S : ~(<<n, m>> \in R)
  BY <1>1, WFMin
<1>4. \A n \in S : ~(n < m)
  BY <1>2, <1>3, Zenon
<1>5. m \in Nat /\ S \subseteq Nat
  OBVIOUS
<1> QED
  BY <1>4, <1>5

\* f is the function that Without computes, up to N.
IsKept(s, gone, N, f) ==
    f = [n \in 0 .. N |-> IF n = 0 THEN <<>>
                          ELSE IF s[n] \in gone THEN f[n - 1]
                          ELSE Append(f[n - 1], s[n])]

\* Without is well defined.
LEMMA KeptExists ==
    ASSUME NEW s, NEW gone, NEW N \in Nat
    PROVE  \E f : IsKept(s, gone, N, f)
<1> DEFINE T == {n \in Nat : ~(\E f : IsKept(s, gone, n, f))}
<1> SUFFICES ASSUME N \in T
             PROVE  FALSE
  OBVIOUS
<1>1. PICK m \in T : \A n \in T : m \leq n
  <2>1. T \subseteq Nat /\ T # {}
    OBVIOUS
  <2> HIDE DEF T
  <2> QED
    BY <2>1, LeastNatural
<1>2. CASE m = 0
  <2> DEFINE f == [n \in 0 .. 0 |-> <<>>]
  <2>1. IsKept(s, gone, 0, f)
    BY DEF IsKept
  <2> QED
    BY <1>2, <2>1
<1>3. CASE m # 0
  <2>1. m \in Nat /\ m - 1 \in Nat /\ ~(m \leq m - 1)
    BY <1>3
  <2>2. PICK g : IsKept(s, gone, m - 1, g)
    BY <1>1, <2>1
  <2> DEFINE Step(G, n) == IF n = 0 THEN <<>>
                           ELSE IF s[n] \in gone THEN G[n - 1]
                           ELSE Append(G[n - 1], s[n])
             f == [n \in 0 .. m |-> IF n < m THEN g[n] ELSE Step(g, n)]
  <2>3. \A n \in 0 .. (m - 1) : g[n] = Step(g, n)
    BY <2>2 DEF IsKept
  <2>4. /\ \A n \in 0 .. m : f[n] = IF n < m THEN g[n] ELSE Step(g, n)
        /\ f = [n \in 0 .. m |-> f[n]]
    OBVIOUS
  <2> HIDE DEF f
  <2>5. ASSUME NEW n \in 0 .. m
        PROVE  f[n] = Step(f, n)
    <3>1. f[n] = Step(g, n)
      <4>1. CASE n < m
        <5>1. n \in 0 .. (m - 1)
          BY <2>1, <4>1
        <5> QED
          BY <2>3, <2>4, <4>1, <5>1
      <4>2. CASE ~(n < m)
        BY <2>4, <4>2
      <4> QED
        BY <4>1, <4>2
    <3>2. CASE n = 0
      BY <3>1, <3>2
    <3>3. CASE n # 0
      <4>1. n - 1 \in 0 .. m /\ n - 1 < m
        BY <2>1, <3>3
      <4>2. f[n - 1] = g[n - 1]
        BY <2>4, <4>1
      <4> QED
        BY <3>1, <3>3, <4>2
    <3> QED
      BY <3>2, <3>3
  <2>7. IsKept(s, gone, m, f)
    BY <2>4, <2>5 DEF IsKept
  <2> QED
    BY <2>7
<1> QED
  BY <1>2, <1>3

\* Without leaves transactions of the sequence.
LEMMA WithoutType ==
    ASSUME NEW s \in Seq(Txs), NEW gone
    PROVE  Without(s, gone) \in Seq(Txs)
<1>1. Len(s) \in Nat /\ DOMAIN s = 1 .. Len(s)
  OBVIOUS
<1>2. PICK f : IsKept(s, gone, Len(s), f) /\ Without(s, gone) = f[Len(s)]
  <2>1. \E f : IsKept(s, gone, Len(s), f)
    BY <1>1, KeptExists
  <2> DEFINE k == CHOOSE f : IsKept(s, gone, Len(s), f)
  <2>2. IsKept(s, gone, Len(s), k)
    BY <2>1
  <2>3. Without(s, gone) = k[Len(s)]
    BY DEF Without, IsKept
  <2> QED
    BY <2>2, <2>3
<1>3. \A n \in 0 .. Len(s) : f[n] = IF n = 0 THEN <<>>
                                    ELSE IF s[n] \in gone THEN f[n - 1]
                                    ELSE Append(f[n - 1], s[n])
  BY <1>1, <1>2 DEF IsKept
<1> DEFINE T == {n \in Nat : n \leq Len(s) /\ f[n] \notin Seq(Txs)}
<1> SUFFICES ASSUME Len(s) \in T
             PROVE  FALSE
  BY <1>1, <1>2
<1>4. PICK m \in T : \A n \in T : m \leq n
  <2>1. T \subseteq Nat /\ T # {}
    OBVIOUS
  <2> HIDE DEF T
  <2> QED
    BY <2>1, LeastNatural
<1>5. m \in 0 .. Len(s) /\ f[m] \notin Seq(Txs)
  BY <1>1
<1>6. m # 0
  <2>1. f[0] = <<>> /\ <<>> \in Seq(Txs)
    BY <1>1, <1>3
  <2> QED
    BY <1>5, <2>1
<1>7. m - 1 \in Nat /\ m - 1 \leq Len(s) /\ ~(m \leq m - 1) /\ m \in DOMAIN s
  BY <1>1, <1>5, <1>6
<1>8. f[m - 1] \in Seq(Txs)
  BY <1>4, <1>7
<1>9. s[m] \in Txs
  BY <1>7
<1>10. f[m] = f[m - 1] \/ f[m] = Append(f[m - 1], s[m])
  BY <1>3, <1>5, <1>6
<1>11. Append(f[m - 1], s[m]) \in Seq(Txs)
  BY <1>8, <1>9
<1> QED
  BY <1>5, <1>8, <1>10, <1>11

\* W has the elements of s that are not gone, and each of them after those before it.
InOrderWithout(s, gone, W) ==
    /\ \A j \in 1 .. Len(s) : s[j] \notin gone => \E m \in 1 .. Len(W) : W[m] = s[j]
    /\ \A i \in 1 .. Len(W) : \E k \in 1 .. Len(s) :
          /\ W[i] = s[k]
          /\ \A j \in 1 .. (k - 1) : s[j] \notin gone => \E m \in 1 .. (i - 1) : W[m] = s[j]

\* Without keeps what is not gone, in the order of the sequence.
LEMMA WithoutIs ==
    ASSUME NEW s \in Seq(Txs), NEW gone
    PROVE  InOrderWithout(s, gone, Without(s, gone))
<1>1. Len(s) \in Nat /\ DOMAIN s = 1 .. Len(s)
  OBVIOUS
<1>2. PICK f : IsKept(s, gone, Len(s), f) /\ Without(s, gone) = f[Len(s)]
  <2>1. \E f : IsKept(s, gone, Len(s), f)
    BY <1>1, KeptExists
  <2> DEFINE k == CHOOSE f : IsKept(s, gone, Len(s), f)
  <2>2. IsKept(s, gone, Len(s), k)
    BY <2>1
  <2>3. Without(s, gone) = k[Len(s)]
    BY DEF Without, IsKept
  <2> QED
    BY <2>2, <2>3
<1>3. \A n \in 0 .. Len(s) : f[n] = IF n = 0 THEN <<>>
                                    ELSE IF s[n] \in gone THEN f[n - 1]
                                    ELSE Append(f[n - 1], s[n])
  BY <1>1, <1>2 DEF IsKept
<1> DEFINE All(n) == \A j \in 1 .. n : s[j] \notin gone => \E m \in 1 .. Len(f[n]) : f[n][m] = s[j]
           Before(n, i, k) == \A j \in 1 .. (k - 1) : s[j] \notin gone => \E m \in 1 .. (i - 1) : f[n][m] = s[j]
           Order(n) == \A i \in 1 .. Len(f[n]) : \E k \in 1 .. n : f[n][i] = s[k] /\ Before(n, i, k)
           Good(n) == f[n] \in Seq(Txs) /\ All(n) /\ Order(n)
           T == {n \in Nat : n \leq Len(s) /\ ~Good(n)}
<1>4. SUFFICES Good(Len(s))
  <2> DEFINE W == Without(s, gone)
  <2>1. W = f[Len(s)]
    BY <1>2
  <2>2. All(Len(s)) /\ Order(Len(s))
    OBVIOUS
  <2> HIDE DEF W
  <2>3. \A j \in 1 .. Len(s) : s[j] \notin gone => \E m \in 1 .. Len(W) : W[m] = s[j]
    BY <2>1, <2>2
  <2>4. ASSUME NEW i \in 1 .. Len(W)
        PROVE  \E k \in 1 .. Len(s) :
                 /\ W[i] = s[k]
                 /\ \A j \in 1 .. (k - 1) : s[j] \notin gone => \E m \in 1 .. (i - 1) : W[m] = s[j]
    <3>1. PICK k \in 1 .. Len(s) : f[Len(s)][i] = s[k] /\ Before(Len(s), i, k)
      BY <2>1, <2>2
    <3> QED
      BY <2>1, <3>1
  <2>5. InOrderWithout(s, gone, W)
    BY <2>3, <2>4 DEF InOrderWithout
  <2> QED
    BY <2>5 DEF W
<1> SUFFICES ASSUME Len(s) \in T
             PROVE  FALSE
  BY <1>1
<1>5. PICK m \in T : \A n \in T : m \leq n
  <2>1. T \subseteq Nat /\ T # {}
    OBVIOUS
  <2> HIDE DEF T
  <2> QED
    BY <2>1, LeastNatural
<1>6. m \in 0 .. Len(s) /\ ~Good(m) /\ \A n \in 0 .. Len(s) : ~Good(n) => m \leq n
  <2> HIDE DEF Good
  <2> QED
    BY <1>1, <1>5
<1>7. m # 0
  <2>1. f[0] = <<>> /\ <<>> \in Seq(Txs)
    BY <1>1, <1>3
  <2>2. Good(0)
    BY <2>1
  <2> QED
    BY <1>6, <2>2
<1>8. m - 1 \in 0 .. Len(s) /\ ~(m \leq m - 1) /\ m \in DOMAIN s /\ m \in 1 .. m
  BY <1>1, <1>6, <1>7
<1>9. Good(m - 1)
  <2> HIDE DEF Good
  <2> QED
    BY <1>6, <1>8
<1>10. s[m] \in Txs
  BY <1>8
<1>11. f[m - 1] \in Seq(Txs) /\ All(m - 1) /\ Order(m - 1)
  BY <1>9
<1>12. m \in Nat /\ \A j \in 1 .. m : j \in 1 .. (m - 1) \/ j = m
  BY <1>1, <1>6
<1>13. CASE s[m] \in gone
  <2>1. f[m] = f[m - 1]
    BY <1>3, <1>6, <1>7, <1>13
  <2>2. All(m)
    BY <1>11, <1>12, <1>13, <2>1
  <2>3. Order(m)
    <3>1. \A k \in 1 .. (m - 1) : k \in 1 .. m
      BY <1>12
    <3> QED
      BY <1>11, <2>1, <3>1
  <2> QED
    BY <1>6, <1>11, <2>1, <2>2, <2>3
<1>14. CASE s[m] \notin gone
  <2> DEFINE L == Len(f[m - 1])
  <2>1. f[m] = Append(f[m - 1], s[m])
    BY <1>3, <1>6, <1>7, <1>14
  <2>2. /\ f[m] \in Seq(Txs) /\ Len(f[m]) = L + 1 /\ L \in Nat
        /\ f[m][L + 1] = s[m]
        /\ \A i \in 1 .. L : f[m][i] = f[m - 1][i]
    BY <1>10, <1>11, <2>1
  <2>3. All(m)
    <3> SUFFICES ASSUME NEW j \in 1 .. m, s[j] \notin gone
                 PROVE  \E i \in 1 .. Len(f[m]) : f[m][i] = s[j]
      OBVIOUS
    <3>1. CASE j = m
      <4>1. L + 1 \in 1 .. Len(f[m])
        BY <2>2
      <4> QED
        BY <2>2, <3>1, <4>1
    <3>2. CASE j \in 1 .. (m - 1)
      <4>1. PICK i \in 1 .. L : f[m - 1][i] = s[j]
        BY <1>11, <3>2
      <4>2. i \in 1 .. Len(f[m])
        BY <2>2
      <4> QED
        BY <2>2, <4>1, <4>2
    <3> QED
      BY <1>12, <3>1, <3>2
  <2>4. Order(m)
    <3> SUFFICES ASSUME NEW i \in 1 .. Len(f[m])
                 PROVE  \E k \in 1 .. m : f[m][i] = s[k] /\ Before(m, i, k)
      OBVIOUS
    <3>1. CASE i \in 1 .. L
      <4>1. PICK k \in 1 .. (m - 1) : f[m - 1][i] = s[k] /\ Before(m - 1, i, k)
        BY <1>11, <3>1
      <4>2. k \in 1 .. m /\ \A j \in 1 .. (i - 1) : j \in 1 .. L
        BY <1>12, <2>2, <3>1
      <4>3. Before(m, i, k)
        BY <2>2, <4>1, <4>2
      <4> QED
        BY <2>2, <3>1, <4>1, <4>2, <4>3
    <3>2. CASE i = L + 1
      <4>1. i - 1 = L
        BY <2>2, <3>2
      <4>2. Before(m, i, m)
        BY <1>11, <2>2, <4>1
      <4> QED
        BY <1>8, <2>2, <3>2, <4>2
    <3> QED
      BY <2>2, <3>1, <3>2
  <2> QED
    BY <1>6, <2>2, <2>3, <2>4
<1> QED
  BY <1>13, <1>14

\* f is the function that TxsUpTo computes, up to height hi.
IsUpTo(b, lo, hi, f) ==
    f = [h \in lo .. hi |-> IF h = lo THEN <<>> ELSE f[h - 1] \o BlockTxs[Ancestor[b][h]]]

\* TxsUpTo is well defined.
LEMMA UpToExists ==
    ASSUME NEW b, NEW lo \in Nat, NEW hi \in Nat, lo \leq hi
    PROVE  \E f : IsUpTo(b, lo, hi, f)
<1> DEFINE T == {n \in Nat : lo \leq n /\ ~(\E f : IsUpTo(b, lo, n, f))}
<1> SUFFICES ASSUME hi \in T
             PROVE  FALSE
  OBVIOUS
<1>1. PICK m \in T : \A n \in T : m \leq n
  <2>1. T \subseteq Nat /\ T # {}
    OBVIOUS
  <2> HIDE DEF T
  <2> QED
    BY <2>1, LeastNatural
<1>2. CASE m = lo
  <2> DEFINE f == [n \in lo .. lo |-> <<>>]
  <2>1. IsUpTo(b, lo, lo, f)
    BY DEF IsUpTo
  <2> QED
    BY <1>2, <2>1
<1>3. CASE m # lo
  <2>1. m \in Nat /\ lo \leq m - 1 /\ m - 1 \in Nat /\ ~(m \leq m - 1)
    BY <1>3
  <2>2. PICK g : IsUpTo(b, lo, m - 1, g)
    BY <1>1, <2>1
  <2> DEFINE Step(G, n) == IF n = lo THEN <<>> ELSE G[n - 1] \o BlockTxs[Ancestor[b][n]]
             f == [n \in lo .. m |-> IF n < m THEN g[n] ELSE Step(g, n)]
  <2>3. \A n \in lo .. (m - 1) : g[n] = Step(g, n)
    BY <2>2 DEF IsUpTo
  <2>4. /\ \A n \in lo .. m : f[n] = IF n < m THEN g[n] ELSE Step(g, n)
        /\ f = [n \in lo .. m |-> f[n]]
    OBVIOUS
  <2> HIDE DEF f
  <2>5. ASSUME NEW n \in lo .. m
        PROVE  f[n] = Step(f, n)
    <3>1. f[n] = Step(g, n)
      <4>1. CASE n < m
        <5>1. n \in lo .. (m - 1)
          BY <2>1, <4>1
        <5> QED
          BY <2>3, <2>4, <4>1, <5>1
      <4>2. CASE ~(n < m)
        BY <2>4, <4>2
      <4> QED
        BY <4>1, <4>2
    <3>2. CASE n = lo
      BY <3>1, <3>2
    <3>3. CASE n # lo
      <4>1. n - 1 \in lo .. m /\ n - 1 < m
        BY <2>1, <3>3
      <4>2. f[n - 1] = g[n - 1]
        BY <2>4, <4>1
      <4> QED
        BY <3>1, <3>3, <4>2
    <3> QED
      BY <3>2, <3>3
  <2>7. IsUpTo(b, lo, m, f)
    BY <2>4, <2>5 DEF IsUpTo
  <2> QED
    BY <2>7
<1> QED
  BY <1>2, <1>3

\* The recursion of TxsUpTo.
LEMMA UpToIs ==
    ASSUME NEW b \in GenBlock, NEW stop \in GenBlock, Height[stop] \leq Height[b]
    PROVE  \E f : /\ TxsUpTo(b, stop) = f[Height[b]]
                  /\ f[Height[stop]] = <<>>
                  /\ \A h \in (Height[stop] + 1) .. Height[b] :
                        f[h] = f[h - 1] \o BlockTxs[Ancestor[b][h]]
<1>1. Height[b] \in Nat /\ Height[stop] \in Nat
  BY TreeAssumption
<1>2. PICK f : IsUpTo(b, Height[stop], Height[b], f) /\ TxsUpTo(b, stop) = f[Height[b]]
  <2>1. \E f : IsUpTo(b, Height[stop], Height[b], f)
    BY <1>1, UpToExists
  <2> DEFINE k == CHOOSE f : IsUpTo(b, Height[stop], Height[b], f)
  <2>2. IsUpTo(b, Height[stop], Height[b], k)
    BY <2>1
  <2>3. TxsUpTo(b, stop) = k[Height[b]]
    BY DEF TxsUpTo, IsUpTo
  <2> QED
    BY <2>2, <2>3
<1>3. \A h \in Height[stop] .. Height[b] :
         f[h] = IF h = Height[stop] THEN <<>> ELSE f[h - 1] \o BlockTxs[Ancestor[b][h]]
  BY <1>2 DEF IsUpTo
<1>4. f[Height[stop]] = <<>>
  BY <1>1, <1>3
<1>5. ASSUME NEW h \in (Height[stop] + 1) .. Height[b]
      PROVE  f[h] = f[h - 1] \o BlockTxs[Ancestor[b][h]]
  <2>1. h \in Height[stop] .. Height[b] /\ h # Height[stop]
    BY <1>1
  <2> QED
    BY <1>3, <2>1
<1> QED
  BY <1>2, <1>4, <1>5

\* TxsUpTo are transactions.
LEMMA UpToType ==
    ASSUME NEW b \in GenBlock, NEW stop \in GenBlock, Height[stop] \leq Height[b]
    PROVE  TxsUpTo(b, stop) \in Seq(Txs)
<1> DEFINE lo == Height[stop]
           hi == Height[b]
<1>1. hi \in Nat /\ lo \in Nat
  BY TreeAssumption
<1>2. PICK f : /\ TxsUpTo(b, stop) = f[hi]
               /\ f[lo] = <<>>
               /\ \A h \in (lo + 1) .. hi : f[h] = f[h - 1] \o BlockTxs[Ancestor[b][h]]
  BY UpToIs, Zenon
<1>3. \A h \in (lo + 1) .. hi : BlockTxs[Ancestor[b][h]] \in Seq(Txs)
  <2> SUFFICES ASSUME NEW h \in (lo + 1) .. hi
               PROVE  BlockTxs[Ancestor[b][h]] \in Seq(Txs)
    OBVIOUS
  <2>1. h \in 0 .. hi /\ h > 0
    BY <1>1
  <2>2. Ancestor[b][h] \in Block
    BY <2>1, AncestorAssumption
  <2> QED
    BY <2>2, MempoolAssumption
<1> DEFINE T == {n \in Nat : lo \leq n /\ n \leq hi /\ f[n] \notin Seq(Txs)}
<1> SUFFICES ASSUME hi \in T
             PROVE  FALSE
  BY <1>1, <1>2
<1>4. PICK m \in T : \A n \in T : m \leq n
  <2>1. T \subseteq Nat /\ T # {}
    OBVIOUS
  <2> HIDE DEF T
  <2> QED
    BY <2>1, LeastNatural
<1>5. m \in Nat /\ lo \leq m /\ m \leq hi /\ f[m] \notin Seq(Txs)
  OBVIOUS
<1> HIDE DEF lo, hi
<1>6. m # lo
  <2>1. <<>> \in Seq(Txs)
    OBVIOUS
  <2> QED
    BY <1>2, <1>5, <2>1
<1>7. m - 1 \in Nat /\ lo \leq m - 1 /\ m - 1 \leq hi /\ ~(m \leq m - 1) /\ m \in (lo + 1) .. hi
  BY <1>1, <1>5, <1>6
<1>8. f[m - 1] \in Seq(Txs)
  BY <1>4, <1>7
<1>9. f[m] = f[m - 1] \o BlockTxs[Ancestor[b][m]] /\ BlockTxs[Ancestor[b][m]] \in Seq(Txs)
  BY <1>2, <1>3, <1>7
<1> QED
  BY <1>5, <1>8, <1>9

\* The last common ancestor is one of both chains.
LEMMA ForkIs ==
    ASSUME NEW a \in GenBlock, NEW b \in GenBlock
    PROVE  /\ LastCommonAncestor(a, b) \in GenBlock
           /\ IsAncestorOrSelf(LastCommonAncestor(a, b), a)
           /\ IsAncestorOrSelf(LastCommonAncestor(a, b), b)
<1> DEFINE S == {h \in 0 .. Height[a] : h <= Height[b] /\ Ancestor[a][h] = Ancestor[b][h]}
           T == {k \in Nat : \E h \in S : k = Height[a] - h}
<1>1. Height[a] \in Nat /\ Height[b] \in Nat /\ Ancestor[a][0] = Genesis /\ Ancestor[b][0] = Genesis
  BY TreeAssumption, AncestorAssumption
<1>2. 0 \in S /\ \A h \in S : h \in Nat /\ Height[a] - h \in Nat
  BY <1>1
<1>3. Height[a] \in T /\ T \subseteq Nat
  BY <1>1, <1>2
<1>4. PICK m \in T : \A n \in T : m \leq n
  <2> HIDE DEF T
  <2> QED
    BY <1>3, LeastNatural
<1>5. PICK x \in S : m = Height[a] - x
  OBVIOUS
<1>6. \A h \in S : x >= h
  BY <1>1, <1>2, <1>4, <1>5
<1> DEFINE M == Max(S)
<1>7. M \in S
  <2> HIDE DEF S
  <2> QED
    BY <1>5, <1>6 DEF Max
<1>8. LastCommonAncestor(a, b) = Ancestor[a][M]
  BY DEF LastCommonAncestor
<1> HIDE DEF M
<1>9. M \in 0 .. Height[a] /\ M <= Height[b] /\ Ancestor[a][M] = Ancestor[b][M]
  BY <1>7
<1>10. Ancestor[a][M] \in GenBlock /\ Height[Ancestor[a][M]] = M
  BY <1>9, AncestorAssumption
<1> QED
  BY <1>8, <1>9, <1>10 DEF IsAncestorOrSelf

\* The transactions of chains, and of the blocks that a reorg takes off one.
LEMMA ChainTypes ==
    ASSUME NEW a \in GenBlock, NEW b \in GenBlock
    PROVE  ChainTxs(b) \subseteq Txs /\ Disconnected(a, b) \in Seq(Txs)
<1>1. Genesis \in GenBlock /\ Height[Genesis] \leq Height[b]
  BY TreeAssumption DEF GenBlock
<1>2. ChainTxs(b) \subseteq Txs
  BY <1>1, UpToType DEF ChainTxs, ToSet
<1> DEFINE fork == LastCommonAncestor(a, b)
<1>3. fork \in GenBlock /\ Height[fork] \leq Height[a]
  BY ForkIs DEF IsAncestorOrSelf
<1>4. TxsUpTo(a, fork) \in Seq(Txs)
  BY <1>3, UpToType
<1>5. Disconnected(a, b) = Without(TxsUpTo(a, fork), ToSet(TxsUpTo(b, fork)))
  BY DEF Disconnected
<1> HIDE DEF fork
<1> QED
  BY <1>2, <1>4, <1>5, WithoutType

\* A chain is the chain up to one of its blocks, followed by the rest.
LEMMA SplitChain ==
    ASSUME NEW b \in GenBlock, NEW stop \in GenBlock, IsAncestorOrSelf(stop, b)
    PROVE  TxsUpTo(b, Genesis) = TxsUpTo(stop, Genesis) \o TxsUpTo(b, stop)
<1> DEFINE lo == Height[stop]
           hi == Height[b]
           B(h) == BlockTxs[Ancestor[b][h]]
<1>1. /\ hi \in Nat /\ lo \in Nat /\ lo \leq hi /\ Height[Genesis] = 0
      /\ Genesis \in GenBlock /\ Ancestor[b][lo] = stop
  BY TreeAssumption DEF IsAncestorOrSelf, GenBlock
<1>2. PICK f : /\ TxsUpTo(b, Genesis) = f[hi]
               /\ f[0] = <<>>
               /\ \A h \in 1 .. hi : f[h] = f[h - 1] \o B(h)
  <2>1. Height[Genesis] \leq hi
    BY <1>1
  <2>2. PICK f : /\ TxsUpTo(b, Genesis) = f[Height[b]]
                 /\ f[Height[Genesis]] = <<>>
                 /\ \A h \in (Height[Genesis] + 1) .. Height[b] :
                      f[h] = f[h - 1] \o BlockTxs[Ancestor[b][h]]
    BY <1>1, <2>1, UpToIs, Zenon
  <2>3. Height[Genesis] + 1 = 1
    BY <1>1
  <2> QED
    BY <1>1, <2>2, <2>3
<1>3. PICK e : /\ TxsUpTo(stop, Genesis) = e[lo]
               /\ e[0] = <<>>
               /\ \A h \in 1 .. lo : e[h] = e[h - 1] \o BlockTxs[Ancestor[stop][h]]
  <2>1. Height[Genesis] \leq lo
    BY <1>1
  <2>2. PICK f0 : /\ TxsUpTo(stop, Genesis) = f0[Height[stop]]
                  /\ f0[Height[Genesis]] = <<>>
                  /\ \A h \in (Height[Genesis] + 1) .. Height[stop] :
                       f0[h] = f0[h - 1] \o BlockTxs[Ancestor[stop][h]]
    BY <1>1, <2>1, UpToIs, Zenon
  <2>3. Height[Genesis] + 1 = 1
    BY <1>1
  <2> QED
    BY <1>1, <2>2, <2>3
<1>4. PICK g : /\ TxsUpTo(b, stop) = g[hi]
               /\ g[lo] = <<>>
               /\ \A h \in (lo + 1) .. hi : g[h] = g[h - 1] \o B(h)
  BY <1>1, UpToIs, Zenon
<1>5. \A h \in 1 .. lo : BlockTxs[Ancestor[stop][h]] = B(h)
  <2>1. lo \in 0 .. hi /\ \A h \in 1 .. lo : h \in 0 .. lo
    BY <1>1
  <2>2. \A k \in 0 .. lo : Ancestor[Ancestor[b][lo]][k] = Ancestor[b][k]
    BY <2>1, AncestorAssumption
  <2> QED
    BY <1>1, <2>1, <2>2
<1>6. \A h \in 1 .. hi : B(h) \in Seq(Txs)
  <2> SUFFICES ASSUME NEW h \in 1 .. hi
               PROVE  B(h) \in Seq(Txs)
    OBVIOUS
  <2>1. h \in 0 .. hi /\ h > 0
    BY <1>1
  <2>2. Ancestor[b][h] \in Block
    BY <2>1, AncestorAssumption
  <2> QED
    BY <2>2, MempoolAssumption
<1> HIDE DEF lo, hi, B
<1> DEFINE Low(n) == e[n] = f[n] /\ e[n] \in Seq(Txs)
           High(n) == f[n] = e[lo] \o g[n] /\ g[n] \in Seq(Txs)
           Good(n) == (n \leq lo => Low(n)) /\ (lo \leq n => High(n))
           T == {n \in Nat : n \leq hi /\ ~Good(n)}
<1> SUFFICES ASSUME hi \in T
             PROVE  FALSE
  <2>1. Good(hi) => f[hi] = e[lo] \o g[hi]
    BY <1>1
  <2> HIDE DEF Good
  <2>2. hi \in T \/ Good(hi)
    BY <1>1
  <2> HIDE DEF T
  <2>3. f[hi] = e[lo] \o g[hi]
    BY <2>1, <2>2
  <2> QED
    BY <1>2, <1>3, <1>4, <2>3, Zenon
<1>7. PICK m \in T : \A n \in T : m \leq n
  <2>1. T \subseteq Nat /\ T # {}
    OBVIOUS
  <2> HIDE DEF T
  <2> QED
    BY <2>1, LeastNatural
<1>8. m \in Nat /\ m \leq hi /\ ~Good(m) /\ \A n \in 0 .. hi : ~Good(n) => m \leq n
  <2> HIDE DEF Good
  <2> QED
    BY <1>1, <1>7
<1>9. m \leq lo => Low(m)
  <2> SUFFICES ASSUME m \leq lo
               PROVE  Low(m)
    OBVIOUS
  <2>1. CASE m = 0
    <3>1. <<>> \in Seq(Txs)
      OBVIOUS
    <3> QED
      BY <1>2, <1>3, <2>1, <3>1
  <2>2. CASE m # 0
    <3>1. m \in 1 .. lo /\ m \in 1 .. hi /\ m - 1 \in 0 .. hi /\ ~(m \leq m - 1) /\ m - 1 \leq lo
      BY <1>1, <1>8, <2>2
    <3>2. Low(m - 1)
      <4>1. Good(m - 1)
        <5> HIDE DEF Good
        <5> QED
          BY <1>8, <3>1
      <4> QED
        BY <3>1, <4>1
    <3>3. B(m) \in Seq(Txs)
      BY <1>6, <3>1
    <3>4. f[m] = f[m - 1] \o B(m) /\ e[m] = e[m - 1] \o B(m)
      BY <1>2, <1>3, <1>5, <3>1
    <3> QED
      BY <3>2, <3>3, <3>4
  <2> QED
    BY <2>1, <2>2
<1>10. lo \leq m => e[lo] = f[lo] /\ e[lo] \in Seq(Txs)
  <2> SUFFICES ASSUME lo \leq m
               PROVE  Low(lo)
    OBVIOUS
  <2>1. CASE m = lo
    BY <1>9, <2>1
  <2>2. CASE m # lo
    <3>1. lo \in 0 .. hi /\ ~(m \leq lo)
      BY <1>1, <1>8, <2>2
    <3>2. Good(lo)
      <4> HIDE DEF Good
      <4> QED
        BY <1>8, <3>1
    <3> QED
      BY <1>1, <3>2
  <2> QED
    BY <2>1, <2>2
<1>11. lo \leq m => High(m)
  <2> SUFFICES ASSUME lo \leq m
               PROVE  High(m)
    OBVIOUS
  <2>1. e[lo] = f[lo] /\ e[lo] \in Seq(Txs) /\ <<>> \in Seq(Txs)
    BY <1>10
  <2>2. CASE m = lo
    <3>1. e[lo] \o <<>> = e[lo]
      BY <2>1, ConcatEmptySeq
    <3> QED
      BY <1>4, <2>1, <2>2, <3>1
  <2>3. CASE m # lo
    <3>1. m \in (lo + 1) .. hi /\ m \in 1 .. hi /\ m - 1 \in 0 .. hi /\ ~(m \leq m - 1) /\ lo \leq m - 1
      BY <1>1, <1>8, <2>3
    <3>2. High(m - 1)
      <4>1. Good(m - 1)
        <5> HIDE DEF Good
        <5> QED
          BY <1>8, <3>1
      <4> QED
        BY <3>1, <4>1
    <3>3. B(m) \in Seq(Txs)
      BY <1>6, <3>1
    <3>4. f[m] = f[m - 1] \o B(m) /\ g[m] = g[m - 1] \o B(m)
      BY <1>2, <1>4, <3>1
    <3>5. (e[lo] \o g[m - 1]) \o B(m) = e[lo] \o (g[m - 1] \o B(m))
      <4> DEFINE x == e[lo]
                 y == g[m - 1]
                 z == B(m)
      <4>1. x \in Seq(Txs) /\ y \in Seq(Txs) /\ z \in Seq(Txs)
        BY <2>1, <3>2, <3>3
      <4> HIDE DEF x, y, z
      <4>2. (x \o y) \o z = x \o (y \o z)
        BY <4>1, ConcatAssociative
      <4> QED
        BY <4>2 DEF x, y, z
    <3> QED
      BY <3>2, <3>3, <3>4, <3>5
  <2> QED
    BY <2>2, <2>3
<1> QED
  BY <1>8, <1>9, <1>11

\* A reorg takes a transaction off the chain that is on the new one, or it is among
\* those that are added again, after what it spends.
LEMMA DisconnectedIs ==
    ASSUME NEW a \in GenBlock, NEW b \in GenBlock
    PROVE  LET D == Disconnected(a, b) IN
           /\ ChainTxs(a) \subseteq ChainTxs(b) \cup ToSet(D)
           /\ \A i \in DOMAIN D : \A o \in Spends[D[i]] \cap Txs :
                 o \in ChainTxs(b) \/ \E m \in 1 .. (i - 1) : D[m] = o
<1> DEFINE fork == LastCommonAncestor(a, b)
           p == TxsUpTo(fork, Genesis)
           s == TxsUpTo(a, fork)
           r == TxsUpTo(b, fork)
           txs == TxsUpTo(a, Genesis)
           D == Disconnected(a, b)
<1>1. /\ fork \in GenBlock /\ IsAncestorOrSelf(fork, a) /\ IsAncestorOrSelf(fork, b)
      /\ Height[fork] \leq Height[a] /\ Height[fork] \leq Height[b] /\ Height[Genesis] \leq Height[fork]
      /\ Genesis \in GenBlock
  <2>1. fork \in GenBlock /\ IsAncestorOrSelf(fork, a) /\ IsAncestorOrSelf(fork, b)
    BY ForkIs
  <2> HIDE DEF fork
  <2>2. Height[Genesis] \leq Height[fork] /\ Genesis \in GenBlock
    BY <2>1, TreeAssumption DEF GenBlock
  <2> QED
    BY <2>1, <2>2 DEF IsAncestorOrSelf
<1>2. txs = p \o s /\ TxsUpTo(b, Genesis) = p \o r
  <2> HIDE DEF fork
  <2> QED
    BY <1>1, SplitChain
<1>3. p \in Seq(Txs) /\ s \in Seq(Txs) /\ r \in Seq(Txs)
  <2> HIDE DEF fork
  <2> QED
    BY <1>1, UpToType
<1>4. D = Without(s, ToSet(r))
  BY DEF Disconnected
<1>5. ChainTxs(a) = ToSet(txs) /\ ChainTxs(b) = ToSet(p \o r)
  BY <1>2 DEF ChainTxs
<1>6. \A n \in DOMAIN txs : Spends[txs[n]] \subseteq Coins \cup {txs[m] : m \in 1..(n - 1)}
  BY ChainsAssumption
<1>7. D \in Seq(Txs)
  <2> HIDE DEF s, r, D
  <2> QED
    BY <1>3, <1>4, WithoutType
<1>8. /\ \A j \in 1 .. Len(s) : s[j] \notin ToSet(r) => \E m \in 1 .. Len(D) : D[m] = s[j]
      /\ \A i \in 1 .. Len(D) : \E k \in 1 .. Len(s) :
            /\ D[i] = s[k]
            /\ \A j \in 1 .. (k - 1) : s[j] \notin ToSet(r) => \E m \in 1 .. (i - 1) : D[m] = s[j]
  <2> DEFINE G == ToSet(r)
  <2> HIDE DEF s, r, D, G
  <2>1. InOrderWithout(s, G, Without(s, G))
    BY <1>3, WithoutIs
  <2>2. D = Without(s, G)
    BY <1>4 DEF G
  <2>3. InOrderWithout(s, G, D)
    BY <2>1, <2>2
  <2> QED
    BY <2>3 DEF G, InOrderWithout
<1> HIDE DEF fork, p, s, r, txs, D
<1>9. /\ Len(p) \in Nat /\ Len(s) \in Nat /\ Len(r) \in Nat /\ DOMAIN D = 1 .. Len(D)
      /\ Len(txs) = Len(p) + Len(s) /\ DOMAIN txs = 1 .. Len(txs)
      /\ \A i \in 1 .. Len(p) : txs[i] = p[i]
      /\ \A i \in 1 .. Len(s) : txs[Len(p) + i] = s[i]
  BY <1>2, <1>3, <1>7
<1>10. /\ \A i \in 1 .. Len(p) : p[i] \in ToSet(p \o r)
       /\ \A i \in 1 .. Len(r) : r[i] \in ToSet(p \o r)
  <2>1. /\ DOMAIN (p \o r) = 1 .. (Len(p) + Len(r))
        /\ \A i \in 1 .. Len(p) : (p \o r)[i] = p[i]
        /\ \A i \in 1 .. Len(r) : (p \o r)[Len(p) + i] = r[i]
    BY <1>3
  <2>2. /\ \A i \in 1 .. Len(p) : i \in 1 .. (Len(p) + Len(r))
        /\ \A i \in 1 .. Len(r) : Len(p) + i \in 1 .. (Len(p) + Len(r))
    BY <1>9
  <2> QED
    BY <2>1, <2>2 DEF ToSet
<1>11. ToSet(r) \subseteq ChainTxs(b) /\ \A i \in 1 .. Len(p) : p[i] \in ChainTxs(b)
  <2>1. ToSet(r) = {r[i] : i \in 1 .. Len(r)}
    BY <1>3 DEF ToSet
  <2> QED
    BY <1>5, <1>10, <2>1
<1>12. ASSUME NEW i \in DOMAIN txs
       PROVE  (i \in 1 .. Len(p) /\ txs[i] = p[i])
              \/ \E j \in 1 .. Len(s) : i = Len(p) + j /\ txs[i] = s[j]
  <2>1. i \in 1 .. Len(p) \/ (i - Len(p) \in 1 .. Len(s) /\ i = Len(p) + (i - Len(p)))
    BY <1>9
  <2> QED
    BY <1>9, <2>1
<1>13. ChainTxs(a) \subseteq ChainTxs(b) \cup ToSet(D)
  <2> SUFFICES ASSUME NEW i \in DOMAIN txs
               PROVE  txs[i] \in ChainTxs(b) \cup ToSet(D)
    BY <1>5 DEF ToSet
  <2>1. CASE i \in 1 .. Len(p) /\ txs[i] = p[i]
    BY <1>11, <2>1
  <2>2. CASE \E j \in 1 .. Len(s) : i = Len(p) + j /\ txs[i] = s[j]
    <3>1. PICK j \in 1 .. Len(s) : txs[i] = s[j]
      BY <2>2
    <3>2. s[j] \in ToSet(r) \/ \E m \in 1 .. Len(D) : D[m] = s[j]
      BY <1>8
    <3>3. (\E m \in 1 .. Len(D) : D[m] = s[j]) => s[j] \in ToSet(D)
      BY <1>9 DEF ToSet
    <3> QED
      BY <1>11, <3>1, <3>2, <3>3
  <2> QED
    BY <1>12, <2>1, <2>2
<1>14. ASSUME NEW i \in DOMAIN D, NEW o \in Spends[D[i]] \cap Txs
       PROVE  o \in ChainTxs(b) \/ \E m \in 1 .. (i - 1) : D[m] = o
  <2>1. PICK k \in 1 .. Len(s) :
            /\ D[i] = s[k]
            /\ \A j \in 1 .. (k - 1) : s[j] \notin ToSet(r) => \E m \in 1 .. (i - 1) : D[m] = s[j]
    BY <1>8, <1>9
  <2>2. Len(p) + k \in DOMAIN txs /\ txs[Len(p) + k] = D[i]
    BY <1>9, <2>1
  <2>3. o \notin Coins
    BY MempoolAssumption
  <2>4. PICK n \in 1 .. (Len(p) + k - 1) : o = txs[n]
    BY <1>6, <2>2, <2>3
  <2>5. n \in DOMAIN txs /\ n < Len(p) + k
    BY <1>9, <2>4
  <2>6. CASE n \in 1 .. Len(p) /\ txs[n] = p[n]
    BY <1>11, <2>4, <2>6
  <2>7. CASE \E j \in 1 .. Len(s) : n = Len(p) + j /\ txs[n] = s[j]
    <3>1. PICK j \in 1 .. Len(s) : n = Len(p) + j /\ txs[n] = s[j]
      BY <2>7
    <3>2. j \in 1 .. (k - 1)
      BY <1>9, <2>5, <3>1
    <3>3. s[j] \in ToSet(r) \/ \E m \in 1 .. (i - 1) : D[m] = s[j]
      BY <2>1, <3>2
    <3> QED
      BY <1>11, <2>4, <3>1, <3>3
  <2> QED
    BY <1>12, <2>5, <2>6, <2>7
<1> QED
  BY <1>13, <1>14 DEF D

-----------------------------------------------------------------------------
(* The pool                                                                *)

\* The verifier has the tip, and the pool can be put on top of it in its order.
Synced ==
    /\ best = tip
    /\ \A n \in DOMAIN pool :
         /\ pool[n] \notin ChainTxs(tip)
         /\ Spends[pool[n]] \subseteq Utxos(tip) \cup {pool[m] : m \in 1..(n - 1)}

\* The call that is executed.
CallSound ==
    /\ phase = "add" => attempt < MaxAttempts
    /\ phase = "verify" => Head(todo) \notin PoolTxs
    /\ phase = "verify" /\ ~found => left = {}
    /\ phase = "verify" /\ events = <<>> =>
          /\ startTip = tip
          /\ found => \A o \in Spends[Head(todo)] \ left : Available(o)

\* The inductive invariant: the last event that waits is about the tip, so that
\* the pool is in sync when no event waits and none is being handled.
PoolInv ==
    /\ TypeOK
    /\ NoDoubleSpend
    /\ CallSound
    /\ events # <<>> => events[Len(events)] = tip
    /\ events = <<>> /\ phase \in {"idle", "add", "verify"} => Synced

\* What is in the pool is a transaction.
LEMMA PoolType ==
    ASSUME TypeOK
    PROVE  /\ PoolTxs \subseteq Txs
           /\ \A n \in DOMAIN pool : pool[n] \in PoolTxs
           /\ todo # <<>> => Head(todo) \in Txs /\ Tail(todo) \in Seq(Txs)
BY DEF TypeOK, PoolTxs, ToSet

\* A transaction joins the pool.
LEMMA AppendedPool ==
    ASSUME TypeOK, NEW t \in Txs, pool' = Append(pool, t)
    PROVE  /\ DOMAIN pool' = DOMAIN pool \cup {Len(pool) + 1}
           /\ Len(pool) + 1 \notin DOMAIN pool
           /\ \A n \in DOMAIN pool : pool'[n] = pool[n]
           /\ pool'[Len(pool) + 1] = t
           /\ DOMAIN pool = 1 .. Len(pool) /\ Len(pool) \in Nat
           /\ PoolTxs' = PoolTxs \cup {t}
           /\ pool' \in Seq(Txs)
<1>1. pool \in Seq(Txs)
  BY DEF TypeOK
<1>2. /\ DOMAIN pool' = DOMAIN pool \cup {Len(pool) + 1}
      /\ Len(pool) + 1 \notin DOMAIN pool
      /\ \A n \in DOMAIN pool : pool'[n] = pool[n]
      /\ pool'[Len(pool) + 1] = t
      /\ DOMAIN pool = 1 .. Len(pool) /\ Len(pool) \in Nat
      /\ pool' \in Seq(Txs)
  BY <1>1
<1>3. PoolTxs' = PoolTxs \cup {t}
  BY <1>2 DEF PoolTxs, ToSet
<1> QED
  BY <1>2, <1>3

\* What the transactions of a chain spend is on the chain.
LEMMA ChainClosed ==
    ASSUME NEW b \in GenBlock, NEW t \in ChainTxs(b)
    PROVE  Spends[t] \subseteq Coins \cup ChainTxs(b)
<1> DEFINE txs == TxsUpTo(b, Genesis)
<1>1. Genesis \in GenBlock /\ Height[Genesis] \leq Height[b]
  BY TreeAssumption DEF GenBlock
<1>2. txs \in Seq(Txs) /\ ChainTxs(b) = {txs[i] : i \in DOMAIN txs}
  BY <1>1, UpToType DEF ChainTxs, ToSet
<1>3. \A n \in DOMAIN txs : Spends[txs[n]] \subseteq Coins \cup {txs[m] : m \in 1..(n - 1)}
  BY ChainsAssumption
<1> HIDE DEF txs
<1>4. \A n \in DOMAIN txs : \A m \in 1 .. (n - 1) : m \in DOMAIN txs
  BY <1>2
<1> QED
  BY <1>2, <1>3, <1>4

\* A transaction that does not conflict with the pool keeps it free of conflicts.
LEMMA AddedWithoutConflict ==
    ASSUME TypeOK, NoDoubleSpend, NEW t \in Txs, t \notin PoolTxs, ~Conflicts(t),
           pool' = Append(pool, t)
    PROVE  NoDoubleSpend'
<1>1. /\ DOMAIN pool' = DOMAIN pool \cup {Len(pool) + 1}
      /\ Len(pool) + 1 \notin DOMAIN pool
      /\ \A n \in DOMAIN pool : pool'[n] = pool[n]
      /\ pool'[Len(pool) + 1] = t
  BY AppendedPool
<1>2. \A n \in DOMAIN pool : pool[n] # t /\ Spends[pool[n]] \cap Spends[t] = {}
  BY PoolType DEF Conflicts, SpentBy
<1> QED
  BY <1>1, <1>2 DEF NoDoubleSpend

\* A transaction all of whose inputs are available can be put on top of the pool.
LEMMA AddedInSync ==
    ASSUME TypeOK, Synced, NEW t \in Txs, \A o \in Spends[t] : Available(o),
           pool' = Append(pool, t), UNCHANGED <<tip, best>>
    PROVE  Synced'
<1>1. /\ DOMAIN pool' = DOMAIN pool \cup {Len(pool) + 1}
      /\ Len(pool) + 1 \notin DOMAIN pool
      /\ \A n \in DOMAIN pool : pool'[n] = pool[n]
      /\ pool'[Len(pool) + 1] = t
      /\ DOMAIN pool = 1 .. Len(pool) /\ Len(pool) \in Nat
  BY AppendedPool
<1>2. Spends[t] \subseteq Utxos(tip) \cup PoolTxs
  BY DEF Available
<1>3. PoolTxs = {pool[m] : m \in 1 .. Len(pool)}
  BY <1>1 DEF PoolTxs, ToSet
<1>4. t \notin ChainTxs(tip)
  <2> SUFFICES ASSUME t \in ChainTxs(tip)
               PROVE  FALSE
    OBVIOUS
  <2>1. tip \in GenBlock
    BY DEF TypeOK
  <2>2. PICK o : o \in Spends[t]
    BY ChainsAssumption
  <2>3. o \in Coins \cup ChainTxs(tip) /\ o \notin Utxos(tip)
    BY <2>1, <2>2, ChainClosed DEF Utxos, SpentBy
  <2>4. o \in PoolTxs /\ o \in Txs
    BY <1>2, <2>2, <2>3, PoolType
  <2>5. o \notin ChainTxs(tip)
    BY <1>1, <1>3, <2>4 DEF Synced
  <2> QED
    BY <2>3, <2>4, <2>5, MempoolAssumption
<1>5. \A n \in DOMAIN pool : \A m \in 1 .. (n - 1) : pool'[m] = pool[m]
  BY <1>1
<1>6. ASSUME NEW n \in DOMAIN pool'
      PROVE  /\ pool'[n] \notin ChainTxs(tip)
             /\ Spends[pool'[n]] \subseteq Utxos(tip) \cup {pool'[m] : m \in 1..(n - 1)}
  <2>1. CASE n \in DOMAIN pool
    <3>1. {pool'[m] : m \in 1 .. (n - 1)} = {pool[m] : m \in 1 .. (n - 1)}
      BY <1>5, <2>1
    <3> QED
      BY <1>1, <2>1, <3>1 DEF Synced
  <2>2. CASE n = Len(pool) + 1
    <3>1. n - 1 = Len(pool) /\ \A m \in 1 .. Len(pool) : pool'[m] = pool[m]
      BY <1>1, <2>2
    <3>2. {pool'[m] : m \in 1 .. (n - 1)} = PoolTxs
      BY <1>3, <3>1
    <3> QED
      BY <1>1, <1>2, <1>4, <2>2, <3>2
  <2> QED
    BY <1>1, <2>1, <2>2
<1> QED
  BY <1>6 DEF Synced, Utxos, ChainTxs

-----------------------------------------------------------------------------
(* Nothing is lost                                                         *)

\* What a transaction of the chain or of the pool spends is, too, or is a coin.
HadClosed == \A t \in had : Spends[t] \subseteq Coins \cup had

\* The tip has moved, and the mempool has not reset the pool yet: its verifier has
\* the old tip.
Waiting ==
    /\ had \subseteq ChainTxs(best) \cup PoolTxs
    /\ \A n \in DOMAIN pool : pool[n] \in had =>
         \A o \in Spends[pool[n]] \cap Txs :
            o \in ChainTxs(best) \/ \E m \in 1 .. (n - 1) : pool[m] = o

\* The transactions of dead can never be added again.
NeverAgain(dead) ==
    \A t \in dead :
       \/ Conflicts(t)
       \/ \E o \in Spends[t] : /\ ~Available(o)
                               /\ o \in Coins \cup dead \cup ChainTxs(tip) \cup PoolTxs

\* What is not done is still to be added, after what it spends.
ToAdd(done, rest) ==
    /\ had \subseteq done \cup ToSet(rest)
    /\ \A n \in DOMAIN rest : rest[n] \in had =>
         \A o \in Spends[rest[n]] \cap Txs : o \in done \/ \E m \in 1 .. (n - 1) : rest[m] = o

\* The pool has been reset.
Recovering ==
    \E dead \in SUBSET had :
       NeverAgain(dead) /\ ToAdd(dead \cup ChainTxs(tip) \cup PoolTxs, todo)

\* The inductive invariant, while the tip waits for the mempool.
LossInv ==
    /\ phase \in {"idle", "discard", "fetch"} => todo = <<>>
    /\ phase = "verify" => left \subseteq Spends[Head(todo)]
    /\ ~disturbed =>
         /\ ~ibd /\ phase # "discard" /\ HadClosed
         /\ events # <<>> => Len(events) = 1 /\ phase \in {"idle", "add", "verify"} /\ Waiting
         /\ phase \in {"fetch", "reset"} => events = <<>> /\ newTip = tip /\ Waiting
         /\ phase = "reset" => todo = Disconnected(best, tip)
         /\ events = <<>> /\ phase \in {"idle", "add", "verify"} => Recovering
         /\ phase = "verify" /\ events = <<>> /\ ~found =>
               \E o \in Spends[Head(todo)] : ~Available(o)

-----------------------------------------------------------------------------
(* The steps                                                               *)

\* Synced only depends on the tip, the verifier and the pool.
LEMMA SyncedSame ==
    ASSUME Synced, UNCHANGED <<tip, best, pool>>
    PROVE  Synced'
BY DEF Synced

\* An empty pool is in sync once the verifier has the tip.
LEMMA EmptySynced ==
    ASSUME best' = tip', pool' = <<>>
    PROVE  Synced' /\ NoDoubleSpend'
BY DEF Synced, NoDoubleSpend

\* The pool and its conflicts only depend on the pool.
LEMMA PoolSame ==
    ASSUME pool' = pool
    PROVE  /\ PoolTxs' = PoolTxs /\ (NoDoubleSpend => NoDoubleSpend')
           /\ \A o : tip' = tip => (Available(o)' <=> Available(o))
<1>1. PoolTxs' = PoolTxs
  BY DEF PoolTxs
<1>2. NoDoubleSpend => NoDoubleSpend'
  BY DEF NoDoubleSpend
<1>3. \A o : tip' = tip => (Available(o)' <=> Available(o))
  BY <1>1 DEF Available
<1> QED
  BY <1>1, <1>2, <1>3

\* A call goes on with the next transaction.
LEMMA ContinueIs ==
    ASSUME NEW rest \in Seq(Txs), Continue(rest)
    PROVE  /\ todo' \in Seq(Txs) /\ attempt' = 0
           /\ phase' \in {"idle", "add"} /\ (phase' = "add" => todo' # <<>>)
BY DEF Continue

\* The tip moves, or an event is taken.
LEMMA TipSteps ==
    ASSUME PoolInv,
           TakeEvent \/ \E b \in Block, stillIbd \in BOOLEAN : MoveTip(b, stillIbd)
    PROVE  PoolInv'
<1> USE DEF PoolInv
<1>1. CASE \E b \in Block, stillIbd \in BOOLEAN : MoveTip(b, stillIbd)
  <2>1. PICK b \in Block, stillIbd \in BOOLEAN : MoveTip(b, stillIbd)
    BY <1>1
  <2>2. /\ tip' = b /\ ibd' = stillIbd /\ moves' = moves + 1 /\ moves < MaxMoves
        /\ events' = Append(events, b)
        /\ had' = (IF Settled THEN {} ELSE had) \cup PoolTxs \cup ChainTxs(tip)
        /\ disturbed' = (disturbed \/ ~Settled)
        /\ UNCHANGED <<pool, best, phase, newTip, todo, attempt, startTip, left, found, failures>>
    BY <2>1 DEF MoveTip, call
  <2>3. events' \in Seq(Block) /\ events' # <<>> /\ events'[Len(events')] = b
    BY <2>2 DEF TypeOK
  <2>4. had' \subseteq Txs
    BY <2>2, PoolType, ChainTypes DEF TypeOK
  <2>5. TypeOK'
    BY <2>2, <2>3, <2>4, MempoolAssumption DEF TypeOK, GenBlock
  <2>6. NoDoubleSpend' /\ PoolTxs' = PoolTxs
    BY <2>2, PoolSame
  <2>7. CallSound'
    BY <2>2, <2>3, <2>6 DEF CallSound
  <2> QED
    BY <2>2, <2>3, <2>5, <2>6, <2>7
<1>2. CASE TakeEvent
  <2>1. /\ phase = "idle" /\ events # <<>> /\ events' = Tail(events) /\ newTip' = Head(events)
        /\ phase' \in {"idle", "discard", "fetch"}
        /\ phase' = "idle" => Head(events) # tip
        /\ UNCHANGED <<tip, ibd, moves, pool, best, todo, attempt, startTip, left, found, failures, had, disturbed>>
    BY <1>2 DEF TakeEvent, Rest, IsOutdated, chain, history, TypeOK
  <2>2. events \in Seq(Block)
    BY DEF TypeOK
  <2>3. /\ events' \in Seq(Block) /\ newTip' \in Block
        /\ events' # <<>> => events'[Len(events')] = events[Len(events)]
        /\ events' = <<>> => Head(events) = events[Len(events)]
    <3>1. /\ events' \in Seq(Block) /\ Head(events) \in Block /\ Len(events') = Len(events) - 1
          /\ Len(events) \in Nat /\ Len(events) >= 1 /\ Head(events) = events[1]
          /\ \A n \in 1 .. Len(events') : events'[n] = events[n + 1]
      BY <2>1, <2>2
    <3>2. events' # <<>> => Len(events') \in 1 .. Len(events')
      BY <3>1
    <3>3. events' # <<>> => events'[Len(events')] = events[Len(events)]
      BY <3>1, <3>2
    <3>4. events' = <<>> => Len(events') = 0
      OBVIOUS
    <3> QED
      BY <2>1, <3>1, <3>3, <3>4
  <2>4. TypeOK'
    BY <2>1, <2>3 DEF TypeOK, GenBlock
  <2>5. NoDoubleSpend'
    BY <2>1, PoolSame
  <2>6. CallSound'
    BY <2>1 DEF CallSound
  <2>7. events' = <<>> => phase' \notin {"idle", "add", "verify"}
    BY <2>1, <2>3
  <2> QED
    BY <2>1, <2>3, <2>4, <2>5, <2>6, <2>7
<1> QED
  BY <1>1, <1>2

\* A new tip is handled.
LEMMA EventSteps ==
    ASSUME PoolInv, Discard \/ FetchDisconnectedTxs \/ FetchFails \/ Reset
    PROVE  PoolInv'
<1> USE DEF PoolInv
<1>1. CASE Discard
  <2>1. /\ best' = tip /\ pool' = <<>> /\ phase' = "idle"
        /\ UNCHANGED <<tip, ibd, moves, events, newTip, todo, attempt, startTip, left, found, failures, had, disturbed>>
    BY <1>1 DEF Discard, chain, history
  <2>2. TypeOK'
    BY <2>1 DEF TypeOK
  <2>3. Synced' /\ NoDoubleSpend'
    BY <2>1, EmptySynced
  <2>4. CallSound'
    BY <2>1 DEF CallSound
  <2> QED
    BY <2>1, <2>2, <2>3, <2>4
<1>2. CASE FetchDisconnectedTxs \/ FetchFails
  <2>1. /\ phase = "fetch" /\ phase' = "reset"
        /\ todo' = Disconnected(best, newTip) \/ todo' = <<>>
        /\ UNCHANGED <<tip, ibd, moves, events, pool, best, newTip, attempt, startTip, left, found, had>>
        /\ failures' \in 0 .. MaxFailures /\ disturbed' \in BOOLEAN
    <3>1. failures \in 0 .. MaxFailures /\ disturbed \in BOOLEAN /\ MaxFailures \in Nat
      BY MempoolAssumption DEF TypeOK
    <3>2. CASE FetchDisconnectedTxs
      BY <3>1, <3>2 DEF FetchDisconnectedTxs, chain, history
    <3>3. CASE FetchFails
      BY <3>1, <3>3 DEF FetchFails, chain, history
    <3> QED
      BY <1>2, <3>2, <3>3
  <2>2. todo' \in Seq(Txs)
    <3>1. best \in GenBlock /\ newTip \in GenBlock
      BY DEF TypeOK
    <3>2. Disconnected(best, newTip) \in Seq(Txs) /\ <<>> \in Seq(Txs)
      BY <3>1, ChainTypes
    <3> QED
      BY <2>1, <3>2
  <2>3. TypeOK'
    BY <2>1, <2>2 DEF TypeOK
  <2>4. NoDoubleSpend'
    BY <2>1, PoolSame
  <2>5. CallSound'
    BY <2>1 DEF CallSound
  <2> QED
    BY <2>1, <2>3, <2>4, <2>5
<1>3. CASE Reset
  <2>1. /\ best' = tip /\ pool' = <<>> /\ Continue(todo \o pool)
        /\ UNCHANGED <<tip, ibd, moves, events, newTip, startTip, left, found, failures, had, disturbed>>
    BY <1>3 DEF Reset, chain, history
  <2>2. todo \o pool \in Seq(Txs)
    BY DEF TypeOK
  <2>3. /\ todo' \in Seq(Txs) /\ attempt' = 0
        /\ phase' \in {"idle", "add"} /\ (phase' = "add" => todo' # <<>>)
    BY <2>1, <2>2, ContinueIs
  <2>4. TypeOK'
    BY <2>1, <2>3, MempoolAssumption DEF TypeOK
  <2>5. Synced' /\ NoDoubleSpend'
    BY <2>1, EmptySynced
  <2>6. CallSound'
    BY <2>3, MempoolAssumption DEF CallSound
  <2> QED
    BY <2>1, <2>4, <2>5, <2>6
<1> QED
  BY <1>1, <1>2, <1>3

\* A transaction is submitted, skipped, or its verification begins or is given up.
LEMMA AttemptSteps ==
    ASSUME PoolInv, SkipDuplicate \/ BeginAttempt \/ TipMoved \/ \E t \in Txs : SubmitTx(t)
    PROVE  PoolInv'
<1> USE DEF PoolInv
<1>1. /\ UNCHANGED <<tip, ibd, moves, events, pool, best, newTip, failures, had, disturbed>>
      /\ phase \in {"idle", "add", "verify"}
  BY DEF SkipDuplicate, BeginAttempt, TipMoved, SubmitTx, chain, history, Verified
<1>2. NoDoubleSpend' /\ PoolTxs' = PoolTxs
  BY <1>1, PoolSame
<1>3. events' = <<>> => Synced'
  BY <1>1, SyncedSame
<1>4. ASSUME NEW rest \in Seq(Txs), Continue(rest), UNCHANGED <<startTip, left, found>>
      PROVE  TypeOK' /\ CallSound'
  <2>1. /\ todo' \in Seq(Txs) /\ attempt' = 0
        /\ phase' \in {"idle", "add"} /\ (phase' = "add" => todo' # <<>>)
    BY <1>4, ContinueIs
  <2>2. TypeOK'
    BY <1>1, <1>4, <2>1, MempoolAssumption DEF TypeOK
  <2>3. CallSound'
    BY <2>1, MempoolAssumption DEF CallSound
  <2> QED
    BY <2>2, <2>3
<1>5. CASE SkipDuplicate
  <2>1. Tail(todo) \in Seq(Txs)
    BY <1>5, PoolType DEF SkipDuplicate, TypeOK
  <2> QED
    BY <1>1, <1>2, <1>3, <1>4, <1>5, <2>1 DEF SkipDuplicate
<1>6. CASE \E t \in Txs : SubmitTx(t)
  <2>1. PICK t \in Txs : SubmitTx(t)
    BY <1>6
  <2>2. CASE ibd
    <3>1. UNCHANGED <<phase, todo, attempt, startTip, left, found>> /\ phase = "idle"
      BY <2>1, <2>2 DEF SubmitTx
    <3> QED
      BY <1>1, <1>2, <1>3, <3>1 DEF TypeOK, CallSound
  <2>3. CASE ~ibd
    <3>1. <<t>> \in Seq(Txs)
      OBVIOUS
    <3> QED
      BY <1>1, <1>2, <1>3, <1>4, <2>1, <2>3, <3>1 DEF SubmitTx
  <2> QED
    BY <2>2, <2>3
<1>7. CASE BeginAttempt
  <2>1. /\ phase = "add" /\ phase' = "verify" /\ startTip' = tip /\ attempt' = attempt + 1
        /\ left' = Spends[Head(todo)] /\ found' = TRUE /\ todo' = todo /\ Head(todo) \notin PoolTxs
    BY <1>7 DEF BeginAttempt
  <2>2. todo # <<>> /\ Head(todo) \in Txs /\ attempt < MaxAttempts
    BY <2>1, PoolType DEF TypeOK, CallSound
  <2>3. TypeOK'
    BY <1>1, <2>1, <2>2, MempoolAssumption DEF TypeOK
  <2>4. CallSound'
    BY <1>1, <1>2, <2>1 DEF CallSound
  <2> QED
    BY <1>1, <1>2, <1>3, <2>1, <2>3, <2>4
<1>8. CASE TipMoved
  <2>1. phase = "verify" /\ todo # <<>> /\ Tail(todo) \in Seq(Txs) /\ UNCHANGED <<startTip, left, found>>
    BY <1>8, PoolType DEF TipMoved, Verified, TypeOK
  <2>2. CASE Retry
    <3>1. phase' = "add" /\ UNCHANGED <<todo, attempt>>
      BY <1>8, <2>2 DEF TipMoved
    <3>2. TypeOK'
      BY <1>1, <2>1, <3>1 DEF TypeOK
    <3>3. CallSound'
      BY <2>2, <3>1 DEF CallSound, Retry
    <3> QED
      BY <1>1, <1>2, <1>3, <3>2, <3>3
  <2>3. CASE ~Retry
    BY <1>1, <1>2, <1>3, <1>4, <1>8, <2>1, <2>3 DEF TipMoved
  <2> QED
    BY <2>2, <2>3
<1> QED
  BY <1>5, <1>6, <1>7, <1>8

\* An input is looked up.
LEMMA CheckInputStep ==
    ASSUME PoolInv, NEW output \in left, CheckInput(output)
    PROVE  PoolInv'
<1> USE DEF PoolInv
<1>1. /\ UNCHANGED <<tip, ibd, moves, events, pool, best, newTip, failures, had, disturbed,
                     phase, todo, attempt, startTip>>
      /\ phase = "verify" /\ found' = Available(output)
      /\ left' = IF Available(output) THEN left \ {output} ELSE {}
  BY DEF CheckInput, chain, history
<1>2. NoDoubleSpend' /\ PoolTxs' = PoolTxs /\ \A o : Available(o)' <=> Available(o)
  BY <1>1, PoolSame
<1>3. events' = <<>> => Synced'
  BY <1>1, SyncedSame
<1>4. Available(output) \in BOOLEAN
  BY DEF Available
<1>5. TypeOK'
  BY <1>1, <1>4 DEF TypeOK
<1>6. CallSound'
  <2>1. ASSUME events = <<>>, found'
        PROVE  \A o \in Spends[Head(todo)] \ left' : Available(o)
    <3>1. Available(output) /\ left' = left \ {output}
      BY <1>1, <2>1
    <3>2. found
      BY <1>1 DEF CallSound
    <3> QED
      BY <1>1, <2>1, <3>1, <3>2 DEF CallSound
  <2> QED
    BY <1>1, <1>2, <2>1 DEF CallSound
<1> QED
  BY <1>1, <1>2, <1>3, <1>5, <1>6

\* The transaction is added or rejected.
LEMMA AddedStep ==
    ASSUME PoolInv, AddedOrRejected
    PROVE  PoolInv'
<1> USE DEF PoolInv
<1>1. /\ UNCHANGED <<tip, ibd, moves, events, best, newTip, failures, had, disturbed,
                     startTip, left, found>>
      /\ phase = "verify" /\ left = {} /\ tip = startTip
      /\ pool' = IF found /\ ~Conflicts(Head(todo)) THEN Append(pool, Head(todo)) ELSE pool
      /\ Continue(Tail(todo))
  BY DEF AddedOrRejected, Verified, chain, history
<1>2. todo # <<>> /\ Head(todo) \in Txs /\ Tail(todo) \in Seq(Txs) /\ Head(todo) \notin PoolTxs
  BY <1>1, PoolType DEF TypeOK, CallSound
<1>3. /\ todo' \in Seq(Txs) /\ attempt' = 0
      /\ phase' \in {"idle", "add"} /\ (phase' = "add" => todo' # <<>>)
  BY <1>1, <1>2, ContinueIs
<1>4. CallSound'
  BY <1>3, MempoolAssumption DEF CallSound
<1>5. CASE found /\ ~Conflicts(Head(todo))
  <2> DEFINE t == Head(todo)
  <2>1. pool' = Append(pool, t) /\ t \in Txs /\ t \notin PoolTxs /\ ~Conflicts(t)
    BY <1>1, <1>2, <1>5
  <2>2. events = <<>> => \A o \in Spends[t] : Available(o)
    BY <1>1, <1>5 DEF CallSound
  <2> HIDE DEF t
  <2>3. pool' \in Seq(Txs)
    BY <2>1, AppendedPool
  <2>4. NoDoubleSpend'
    BY <2>1, AddedWithoutConflict
  <2>5. events' = <<>> => Synced'
    BY <1>1, <2>1, <2>2, AddedInSync
  <2>6. TypeOK'
    BY <1>1, <1>3, <2>3, MempoolAssumption DEF TypeOK
  <2> QED
    BY <1>1, <1>4, <2>4, <2>5, <2>6
<1>6. CASE ~(found /\ ~Conflicts(Head(todo)))
  <2>1. pool' = pool
    BY <1>1, <1>6
  <2>2. NoDoubleSpend'
    BY <2>1, PoolSame
  <2>3. events' = <<>> => Synced'
    BY <1>1, <2>1, SyncedSame
  <2>4. TypeOK'
    BY <1>1, <1>3, <2>1, MempoolAssumption DEF TypeOK
  <2> QED
    BY <1>1, <1>4, <2>2, <2>3, <2>4
<1> QED
  BY <1>5, <1>6

\* Every step keeps PoolInv.
LEMMA NextPool ==
    ASSUME PoolInv, [Next]_vars
    PROVE  PoolInv'
<1>1. CASE UNCHANGED vars
  <2>1. UNCHANGED <<tip, ibd, moves, events, pool, best, phase, newTip, todo, attempt, startTip,
                    left, found, failures, had, disturbed>>
    BY <1>1 DEF vars, chain, call, history
  <2>2. /\ PoolTxs' = PoolTxs /\ (NoDoubleSpend => NoDoubleSpend')
        /\ \A o : Available(o)' <=> Available(o)
    BY <2>1, PoolSame
  <2>3. Synced => Synced'
    BY <2>1, SyncedSame
  <2>4. TypeOK' /\ CallSound'
    BY <2>1, <2>2 DEF PoolInv, TypeOK, CallSound
  <2> QED
    BY <2>1, <2>2, <2>3, <2>4 DEF PoolInv
<1>2. CASE Next
  BY <1>2, TipSteps, EventSteps, AttemptSteps, CheckInputStep, AddedStep DEF Next, ExecuteCall
<1> QED
  BY <1>1, <1>2

\* PoolInv is an invariant: it holds when the mempool starts with an empty pool,
\* and every step keeps it.
THEOREM PoolInvariant == Spec => []PoolInv
<1>1. Init => PoolInv
  <2> SUFFICES ASSUME Init
               PROVE  PoolInv
    OBVIOUS
  <2>1. TypeOK
    BY MempoolAssumption DEF Init, TypeOK
  <2>2. NoDoubleSpend /\ CallSound /\ Synced
    BY DEF Init, NoDoubleSpend, CallSound, Synced
  <2> QED
    BY <2>1, <2>2 DEF Init, PoolInv
<1>2. PoolInv /\ [Next]_vars => PoolInv'
  BY NextPool
<1> QED
  BY <1>1, <1>2, PTL DEF Spec

\* However the tip moves, no two transactions of the pool spend the same output,
\* and when all events are handled the pool fits the tip (handle_new_tip,
\* validate_transaction, check_mempool_policy).
THEOREM PoolIsSound == Spec => []PoolSound
<1>1. PoolInv => PoolSound
  BY DEF PoolInv, PoolSound, InSyncWhenSettled, Settled, Synced
<1> QED
  BY <1>1, PoolInvariant, PTL

-----------------------------------------------------------------------------
(* The steps that could lose a transaction                                 *)

\* The first transaction is done with.
LEMMA DropHead ==
    ASSUME NEW rest \in Seq(Txs), rest # <<>>, had \subseteq Txs, HadClosed,
           NEW done, NEW more, done \subseteq more, ToAdd(done, rest),
           Head(rest) \in more \/ Head(rest) \notin had
    PROVE  ToAdd(more, Tail(rest))
<1>1. /\ Len(rest) \in Nat /\ Len(rest) >= 1 /\ DOMAIN rest = 1 .. Len(rest)
      /\ Tail(rest) \in Seq(Txs) /\ DOMAIN Tail(rest) = 1 .. (Len(rest) - 1)
      /\ Head(rest) = rest[1]
      /\ \A n \in 1 .. (Len(rest) - 1) : Tail(rest)[n] = rest[n + 1]
  OBVIOUS
<1> DEFINE tl == Tail(rest)
<1>2. \A n \in DOMAIN rest : n = 1 \/ (n - 1 \in DOMAIN tl /\ rest[n] = tl[n - 1])
  <2> SUFFICES ASSUME NEW n \in DOMAIN rest, n # 1
               PROVE  n - 1 \in DOMAIN tl /\ rest[n] = tl[n - 1]
    OBVIOUS
  <2>1. n - 1 \in 1 .. (Len(rest) - 1) /\ (n - 1) + 1 = n
    BY <1>1
  <2> QED
    BY <1>1, <2>1
<1>3. /\ \A n \in DOMAIN tl : n + 1 \in DOMAIN rest /\ tl[n] = rest[n + 1]
      /\ \A n \in DOMAIN tl : \A m \in 1 .. ((n + 1) - 1) :
            m = 1 \/ (m - 1 \in 1 .. (n - 1) /\ rest[m] = tl[m - 1])
  <2>1. \A n \in DOMAIN tl : n + 1 \in DOMAIN rest /\ tl[n] = rest[n + 1]
    BY <1>1
  <2>2. ASSUME NEW n \in DOMAIN tl, NEW m \in 1 .. ((n + 1) - 1), m # 1
        PROVE  m - 1 \in 1 .. (n - 1) /\ m \in DOMAIN rest
    BY <1>1, <2>2
  <2> QED
    BY <1>2, <2>1, <2>2
<1>4. rest[1] \in more \/ rest[1] \notin had
  BY <1>1
<1> HIDE DEF tl
<1>5. had \subseteq more \cup ToSet(tl)
  <2> SUFFICES ASSUME NEW t \in had, t \notin more
               PROVE  \E n \in DOMAIN tl : t = tl[n]
    BY DEF ToSet
  <2>1. PICK n \in DOMAIN rest : t = rest[n]
    BY DEF ToAdd, ToSet
  <2> QED
    BY <1>2, <1>4, <2>1
<1>6. ASSUME NEW n \in DOMAIN tl, tl[n] \in had, NEW o \in Spends[tl[n]] \cap Txs
      PROVE  o \in more \/ \E m \in 1 .. (n - 1) : tl[m] = o
  <2>1. n + 1 \in DOMAIN rest /\ tl[n] = rest[n + 1]
    BY <1>3
  <2>2. o \in done \/ \E m \in 1 .. ((n + 1) - 1) : rest[m] = o
    BY <1>6, <2>1 DEF ToAdd
  <2>3. CASE o \in done
    BY <2>3
  <2>4. CASE \E m \in 1 .. ((n + 1) - 1) : rest[m] = o
    <3>1. PICK m \in 1 .. ((n + 1) - 1) : rest[m] = o
      BY <2>4
    <3>2. CASE m = 1
      <4>1. o \in had
        BY <1>6, MempoolAssumption DEF HadClosed
      <4> QED
        BY <1>4, <3>1, <3>2, <4>1
    <3>3. CASE m # 1
      BY <1>3, <3>1, <3>3
    <3> QED
      BY <3>2, <3>3
  <2> QED
    BY <2>2, <2>3, <2>4
<1> QED
  BY <1>5, <1>6 DEF ToAdd, tl

\* The tip moves away from a mempool that has caught up.
LEMMA MoveFromSettled ==
    ASSUME TypeOK, Synced, had' = PoolTxs \cup ChainTxs(tip), UNCHANGED <<pool, best>>
    PROVE  HadClosed' /\ Waiting'
<1>1. tip \in GenBlock /\ DOMAIN pool = 1 .. Len(pool) /\ Len(pool) \in Nat /\ PoolTxs \subseteq Txs
  BY PoolType DEF TypeOK
<1>2. Utxos(tip) \subseteq Coins \cup ChainTxs(tip)
  BY DEF Utxos
<1>3. PoolTxs' = PoolTxs /\ PoolTxs = {pool[n] : n \in DOMAIN pool}
  BY DEF PoolTxs, ToSet
<1>4. \A n \in DOMAIN pool : \A m \in 1 .. (n - 1) : m \in DOMAIN pool
  BY <1>1
<1>5. ASSUME NEW t \in had'
      PROVE  Spends[t] \subseteq Coins \cup had'
  <2>1. CASE t \in ChainTxs(tip)
    BY <1>1, <2>1, ChainClosed
  <2>2. CASE t \in PoolTxs
    <3>1. PICK n \in DOMAIN pool : t = pool[n]
      BY <1>3, <2>2
    <3>2. Spends[t] \subseteq Utxos(tip) \cup {pool[m] : m \in 1..(n - 1)}
      BY <3>1 DEF Synced
    <3>3. {pool[m] : m \in 1..(n - 1)} \subseteq PoolTxs
      BY <1>3, <1>4
    <3> QED
      BY <1>2, <3>2, <3>3
  <2> QED
    BY <2>1, <2>2
<1>6. HadClosed'
  BY <1>5 DEF HadClosed
<1>7. had' \subseteq ChainTxs(best') \cup PoolTxs'
  BY <1>3 DEF Synced
<1>8. ASSUME NEW n \in DOMAIN pool, NEW o \in Spends[pool[n]] \cap Txs
      PROVE  o \in ChainTxs(best) \/ \E m \in 1 .. (n - 1) : pool[m] = o
  <2>1. o \in Utxos(tip) \/ \E m \in 1 .. (n - 1) : pool[m] = o
    BY DEF Synced
  <2>2. o \in Utxos(tip) => o \in ChainTxs(best)
    BY <1>2, MempoolAssumption DEF Synced
  <2> QED
    BY <2>1, <2>2
<1> QED
  BY <1>6, <1>7, <1>8 DEF Waiting

\* The tip moves, or an event is taken.
LEMMA TipKeeps ==
    ASSUME PoolInv, LossInv,
           TakeEvent \/ \E b \in Block, stillIbd \in BOOLEAN : MoveTip(b, stillIbd)
    PROVE  LossInv'
<1>0. TypeOK
  BY DEF PoolInv
<1>1. CASE \E b \in Block, stillIbd \in BOOLEAN : MoveTip(b, stillIbd)
  <2>1. PICK b \in Block, stillIbd \in BOOLEAN : MoveTip(b, stillIbd)
    BY <1>1
  <2>2. /\ tip' = b /\ ibd' = stillIbd /\ (stillIbd => ibd)
        /\ events' = Append(events, b)
        /\ had' = (IF Settled THEN {} ELSE had) \cup PoolTxs \cup ChainTxs(tip)
        /\ disturbed' = (disturbed \/ ~Settled)
        /\ UNCHANGED <<pool, best, phase, newTip, todo, attempt, startTip, left, found, failures>>
    BY <2>1 DEF MoveTip, call
  <2>3. /\ phase' \in {"idle", "discard", "fetch"} => todo' = <<>>
        /\ phase' = "verify" => left' \subseteq Spends[Head(todo')]
    BY <2>2 DEF LossInv
  <2>4. CASE disturbed \/ ~Settled
    BY <2>2, <2>3, <2>4 DEF LossInv
  <2>5. CASE ~disturbed /\ Settled
    <3>1. phase = "idle" /\ events = <<>> /\ Synced /\ ~ibd /\ had' = PoolTxs \cup ChainTxs(tip)
      BY <2>2, <2>5 DEF Settled, PoolInv, LossInv
    <3>2. HadClosed' /\ Waiting'
      BY <1>0, <2>2, <3>1, MoveFromSettled
    <3>3. events' # <<>> /\ Len(events') = 1
      BY <2>2, <3>1
    <3> QED
      BY <2>2, <2>3, <3>1, <3>2, <3>3 DEF LossInv
  <2> QED
    BY <2>4, <2>5
<1>2. CASE TakeEvent
  <2>1. /\ phase = "idle" /\ events # <<>> /\ events' = Tail(events) /\ newTip' = Head(events)
        /\ phase' \in {"idle", "discard", "fetch"}
        /\ ~ibd /\ Head(events) = tip => phase' = "fetch"
        /\ UNCHANGED <<tip, ibd, moves, pool, best, todo, attempt, startTip, left, found, failures, had, disturbed>>
    BY <1>0, <1>2 DEF TakeEvent, Rest, IsOutdated, chain, history, TypeOK
  <2>2. todo' = <<>> /\ phase' # "verify"
    BY <2>1 DEF LossInv
  <2>3. CASE disturbed
    BY <2>1, <2>2, <2>3 DEF LossInv
  <2>4. CASE ~disturbed
    <3>1. ~ibd /\ HadClosed /\ Waiting /\ Len(events) = 1
      BY <2>1, <2>4 DEF LossInv
    <3>2. events \in Seq(Block) /\ events[Len(events)] = tip
      BY <1>0, <2>1 DEF TypeOK, PoolInv
    <3>3. Head(events) = tip /\ events' = <<>>
      BY <2>1, <3>1, <3>2
    <3>4. phase' = "fetch" /\ newTip' = tip'
      BY <2>1, <3>1, <3>3
    <3>5. HadClosed' /\ Waiting'
      BY <2>1, <3>1 DEF HadClosed, Waiting, PoolTxs
    <3> QED
      BY <2>1, <2>2, <3>1, <3>3, <3>4, <3>5 DEF LossInv
  <2> QED
    BY <2>3, <2>4
<1> QED
  BY <1>1, <1>2

\* The pool is reset: nothing that was on the old chain or in the pool is forgotten.
LEMMA ResetRecovers ==
    ASSUME TypeOK, Waiting, todo = Disconnected(best, tip), todo' = todo \o pool, pool' = <<>>,
           UNCHANGED <<tip, had>>
    PROVE  Recovering'
<1> DEFINE D == Disconnected(best, tip)
<1>1. best \in GenBlock /\ tip \in GenBlock /\ pool \in Seq(Txs)
  BY DEF TypeOK
<1>2. /\ ChainTxs(best) \subseteq ChainTxs(tip) \cup ToSet(D)
      /\ \A i \in DOMAIN D : \A o \in Spends[D[i]] \cap Txs :
            o \in ChainTxs(tip) \/ \E m \in 1 .. (i - 1) : D[m] = o
  BY <1>1, DisconnectedIs
<1>3. D \in Seq(Txs)
  BY <1>1, ChainTypes
<1>4. D = todo
  OBVIOUS
<1> HIDE DEF D
<1> DEFINE all == D \o pool
<1>5. /\ Len(D) \in Nat /\ Len(pool) \in Nat /\ DOMAIN D = 1 .. Len(D) /\ DOMAIN pool = 1 .. Len(pool)
      /\ DOMAIN all = 1 .. (Len(D) + Len(pool))
      /\ \A i \in 1 .. Len(D) : all[i] = D[i]
      /\ \A i \in 1 .. Len(pool) : all[Len(D) + i] = pool[i]
  BY <1>1, <1>3
<1>6. todo' = all
  BY <1>4
<1> HIDE DEF all
<1>7. /\ \A i \in 1 .. Len(D) : i \in DOMAIN all
      /\ \A i \in 1 .. Len(pool) : Len(D) + i \in DOMAIN all
  BY <1>5
<1>8. ToSet(D) \subseteq ToSet(all) /\ PoolTxs \subseteq ToSet(all)
  BY <1>5, <1>7 DEF ToSet, PoolTxs
<1>9. had \subseteq ChainTxs(tip) \cup ToSet(all)
  BY <1>2, <1>8 DEF Waiting
<1>10. ASSUME NEW n \in DOMAIN all, all[n] \in had, NEW o \in Spends[all[n]] \cap Txs
       PROVE  o \in ChainTxs(tip) \/ \E m \in 1 .. (n - 1) : all[m] = o
  <2>1. CASE n \in 1 .. Len(D)
    <3>1. o \in ChainTxs(tip) \/ \E m \in 1 .. (n - 1) : D[m] = o
      BY <1>2, <1>5, <2>1
    <3>2. \A m \in 1 .. (n - 1) : all[m] = D[m]
      BY <1>5, <2>1
    <3> QED
      BY <3>1, <3>2
  <2>2. CASE n \notin 1 .. Len(D)
    <3> DEFINE k == n - Len(D)
    <3>1. k \in 1 .. Len(pool) /\ n = Len(D) + k
      BY <1>5, <2>2
    <3> HIDE DEF k
    <3>2. all[n] = pool[k]
      BY <1>5, <3>1
    <3>3. o \in ChainTxs(best) \/ \E m \in 1 .. (k - 1) : pool[m] = o
      BY <1>5, <1>10, <3>1, <3>2 DEF Waiting
    <3>4. CASE o \in ChainTxs(best)
      <4>1. o \in ChainTxs(tip) \/ \E m \in DOMAIN D : D[m] = o
        BY <1>2, <3>4 DEF ToSet
      <4>2. \A m \in DOMAIN D : m \in 1 .. (n - 1) /\ all[m] = D[m]
        BY <1>5, <3>1
      <4> QED
        BY <4>1, <4>2
    <3>5. CASE \E m \in 1 .. (k - 1) : pool[m] = o
      <4>1. PICK m \in 1 .. (k - 1) : pool[m] = o
        BY <3>5
      <4>2. Len(D) + m \in 1 .. (n - 1) /\ m \in 1 .. Len(pool)
        BY <1>5, <3>1
      <4>3. all[Len(D) + m] = o
        BY <1>5, <4>1, <4>2
      <4> QED
        BY <4>2, <4>3
    <3> QED
      BY <3>3, <3>4, <3>5
  <2> QED
    BY <2>1, <2>2
<1>11. PoolTxs' = {}
  BY DEF PoolTxs, ToSet
<1>12. NeverAgain({})'
  BY DEF NeverAgain
<1>13. ToAdd(ChainTxs(tip), all)
  BY <1>9, <1>10 DEF ToAdd
<1>14. ToAdd({} \cup ChainTxs(tip) \cup PoolTxs, todo)'
  BY <1>6, <1>11, <1>13 DEF ToAdd
<1> QED
  BY <1>12, <1>14 DEF Recovering

\* A new tip is handled.
LEMMA EventKeeps ==
    ASSUME PoolInv, LossInv, Discard \/ FetchDisconnectedTxs \/ FetchFails \/ Reset
    PROVE  LossInv'
<1>0. TypeOK
  BY DEF PoolInv
<1>1. CASE Discard
  <2>1. /\ phase = "discard" /\ phase' = "idle" /\ UNCHANGED <<todo, disturbed>>
    BY <1>1 DEF Discard, history
  <2> QED
    BY <2>1 DEF LossInv
<1>2. CASE FetchDisconnectedTxs
  <2>1. /\ phase = "fetch" /\ phase' = "reset" /\ todo' = Disconnected(best, newTip)
        /\ UNCHANGED <<tip, ibd, moves, events, pool, best, newTip, attempt, startTip, left, found, had, disturbed>>
    BY <1>2 DEF FetchDisconnectedTxs, chain, history
  <2>2. CASE ~disturbed
    <3>1. newTip = tip /\ events = <<>> /\ HadClosed /\ Waiting /\ ~ibd
      BY <2>1, <2>2 DEF LossInv
    <3>2. HadClosed' /\ Waiting'
      BY <2>1, <3>1 DEF HadClosed, Waiting, PoolTxs
    <3> QED
      BY <2>1, <3>1, <3>2 DEF LossInv
  <2> QED
    BY <2>1, <2>2 DEF LossInv
<1>3. CASE FetchFails
  <2>1. phase' = "reset" /\ disturbed'
    BY <1>3 DEF FetchFails
  <2> QED
    BY <2>1 DEF LossInv
<1>4. CASE Reset
  <2>1. /\ phase = "reset" /\ best' = tip /\ pool' = <<>> /\ todo' = todo \o pool
        /\ phase' = IF todo \o pool = <<>> THEN "idle" ELSE "add"
        /\ UNCHANGED <<tip, ibd, moves, events, newTip, startTip, left, found, failures, had, disturbed>>
    BY <1>4 DEF Reset, Continue, chain, history
  <2>2. phase' \in {"idle", "add"} /\ (phase' = "idle" => todo' = <<>>)
    BY <2>1
  <2>3. CASE ~disturbed
    <3>1. events = <<>> /\ HadClosed /\ Waiting /\ ~ibd /\ todo = Disconnected(best, tip)
      BY <2>1, <2>3 DEF LossInv
    <3>2. Recovering'
      BY <1>0, <2>1, <3>1, ResetRecovers
    <3>3. HadClosed'
      BY <2>1, <3>1 DEF HadClosed
    <3> QED
      BY <2>1, <2>2, <3>1, <3>2, <3>3 DEF LossInv
  <2> QED
    BY <2>1, <2>2, <2>3 DEF LossInv
<1> QED
  BY <1>1, <1>2, <1>3, <1>4

\* Waiting and the rest only depend on what the attempts leave alone.
LEMMA LossSame ==
    ASSUME UNCHANGED <<tip, pool, best, had>>
    PROVE  /\ HadClosed => HadClosed'
           /\ Waiting => Waiting'
           /\ PoolTxs' = PoolTxs
           /\ \A o : Available(o)' <=> Available(o)
           /\ \A dead : NeverAgain(dead) => NeverAgain(dead)'
           /\ \A done, rest : ToAdd(done, rest) => ToAdd(done, rest)'
<1>1. PoolTxs' = PoolTxs /\ (\A o : Available(o)' <=> Available(o))
  BY PoolSame
<1>2. HadClosed => HadClosed'
  BY DEF HadClosed
<1>3. Waiting => Waiting'
  BY <1>1 DEF Waiting
<1>4. \A t : Conflicts(t)' <=> Conflicts(t)
  BY <1>1 DEF Conflicts
<1>5. \A dead : NeverAgain(dead) => NeverAgain(dead)'
  BY <1>1, <1>4 DEF NeverAgain
<1>6. \A done, rest : ToAdd(done, rest) => ToAdd(done, rest)'
  BY DEF ToAdd
<1> QED
  BY <1>1, <1>2, <1>3, <1>5, <1>6

\* A transaction is submitted, skipped, or its verification begins or is given up.
LEMMA AttemptKeeps ==
    ASSUME PoolInv, LossInv, SkipDuplicate \/ BeginAttempt \/ TipMoved \/ \E t \in Txs : SubmitTx(t)
    PROVE  LossInv'
<1>0. TypeOK /\ had \subseteq Txs /\ todo \in Seq(Txs)
  BY DEF PoolInv, TypeOK
<1>1. /\ UNCHANGED <<tip, ibd, moves, events, pool, best, newTip, failures, had, disturbed>>
      /\ phase \in {"idle", "add", "verify"}
  BY DEF SkipDuplicate, BeginAttempt, TipMoved, SubmitTx, chain, history, Verified
<1>2. /\ HadClosed => HadClosed'
      /\ Waiting => Waiting'
      /\ PoolTxs' = PoolTxs
      /\ \A dead : NeverAgain(dead) => NeverAgain(dead)'
      /\ \A done, rest : ToAdd(done, rest) => ToAdd(done, rest)'
  BY <1>1, LossSame
<1>3. /\ phase' \in {"idle", "add", "verify"}
      /\ phase' = "idle" => todo' = <<>>
      /\ phase' = "verify" => left' \subseteq Spends[Head(todo')] /\ found'
  <2>1. CASE SkipDuplicate
    BY <2>1 DEF SkipDuplicate, Continue
  <2>2. CASE BeginAttempt
    BY <2>2 DEF BeginAttempt
  <2>3. CASE TipMoved
    BY <2>3 DEF TipMoved, Continue
  <2>4. CASE \E t \in Txs : SubmitTx(t)
    BY <2>4 DEF SubmitTx, Continue, LossInv
  <2> QED
    BY <2>1, <2>2, <2>3, <2>4
<1>4. CASE disturbed
  BY <1>1, <1>3, <1>4 DEF LossInv
<1>5. CASE ~disturbed /\ events # <<>>
  <2>1. ~ibd /\ HadClosed /\ Waiting /\ Len(events) = 1
    BY <1>5 DEF LossInv
  <2> QED
    BY <1>1, <1>2, <1>3, <1>5, <2>1 DEF LossInv
<1>6. CASE ~disturbed /\ events = <<>>
  <2>1. ~ibd /\ HadClosed /\ Recovering
    BY <1>1, <1>6 DEF LossInv
  <2> DEFINE done(dead) == dead \cup ChainTxs(tip) \cup PoolTxs
  <2>2. PICK dead \in SUBSET had : NeverAgain(dead) /\ ToAdd(done(dead), todo)
    BY <2>1 DEF Recovering
  <2>3. done(dead)' = done(dead)
    BY <1>1, <1>2
  <2>4. ToAdd(done(dead), todo')
    <3>1. CASE SkipDuplicate
      <4>1. todo # <<>> /\ Head(todo) \in PoolTxs /\ todo' = Tail(todo)
        BY <1>0, <3>1 DEF SkipDuplicate, Continue, TypeOK
      <4>2. Head(todo) \in done(dead)
        BY <4>1
      <4> HIDE DEF done
      <4>3. ToAdd(done(dead), Tail(todo))
        BY <1>0, <2>1, <2>2, <4>1, <4>2, DropHead
      <4> QED
        BY <4>1, <4>3
    <3>2. CASE BeginAttempt
      <4>1. todo' = todo
        BY <3>2 DEF BeginAttempt
      <4> QED
        BY <2>2, <4>1
    <3>3. CASE TipMoved
      BY <1>6, <3>3 DEF TipMoved, Verified, PoolInv, CallSound
    <3>4. CASE \E t \in Txs : SubmitTx(t)
      <4>1. PICK t \in Txs : phase = "idle" /\ todo' = <<t>>
        BY <2>1, <3>4 DEF SubmitTx, Continue
      <4>2. todo = <<>>
        BY <4>1 DEF LossInv
      <4>3. had \subseteq done(dead)
        BY <2>2, <4>2 DEF ToAdd, ToSet
      <4>4. \A s \in had : \A o \in Spends[s] \cap Txs : o \in had
        BY <2>1, MempoolAssumption DEF HadClosed
      <4> HIDE DEF done
      <4>5. ToAdd(done(dead), <<t>>)
        BY <4>3, <4>4 DEF ToAdd
      <4> QED
        BY <4>1, <4>5
    <3> QED
      BY <3>1, <3>2, <3>3, <3>4
  <2> HIDE DEF done
  <2>5. NeverAgain(dead)'
    BY <1>2, <2>2
  <2>6. Recovering'
    <3>1. dead \in SUBSET had'
      BY <1>1
    <3>2. ToAdd(dead \cup ChainTxs(tip) \cup PoolTxs, todo)'
      BY <1>1, <2>3, <2>4 DEF done, ToAdd
    <3> QED
      BY <2>5, <3>1, <3>2 DEF Recovering
  <2> QED
    BY <1>1, <1>2, <1>3, <1>6, <2>1, <2>6 DEF LossInv
<1> QED
  BY <1>4, <1>5, <1>6

\* An input is looked up.
LEMMA CheckInputKeeps ==
    ASSUME PoolInv, LossInv, NEW output \in left, CheckInput(output)
    PROVE  LossInv'
<1>1. /\ UNCHANGED <<tip, ibd, moves, events, pool, best, newTip, failures, had, disturbed,
                     phase, todo, attempt, startTip>>
      /\ phase = "verify" /\ found' = Available(output)
      /\ left' = IF Available(output) THEN left \ {output} ELSE {}
  BY DEF CheckInput, chain, history
<1>2. /\ HadClosed => HadClosed'
      /\ Waiting => Waiting'
      /\ PoolTxs' = PoolTxs
      /\ \A o : Available(o)' <=> Available(o)
      /\ \A dead : NeverAgain(dead) => NeverAgain(dead)'
      /\ \A done, rest : ToAdd(done, rest) => ToAdd(done, rest)'
  BY <1>1, LossSame
<1>3. left' \subseteq Spends[Head(todo)] /\ output \in Spends[Head(todo)]
  BY <1>1 DEF LossInv
<1>4. Recovering => Recovering'
  <2> SUFFICES ASSUME Recovering
               PROVE  Recovering'
    OBVIOUS
  <2> DEFINE done(dead) == dead \cup ChainTxs(tip) \cup PoolTxs
  <2>1. PICK dead \in SUBSET had : NeverAgain(dead) /\ ToAdd(done(dead), todo)
    BY DEF Recovering
  <2>2. done(dead)' = done(dead)
    BY <1>1, <1>2
  <2> HIDE DEF done
  <2>3. NeverAgain(dead)' /\ ToAdd(done(dead), todo)'
    BY <1>1, <1>2, <2>1, <2>2 DEF ToAdd
  <2>4. ToAdd(dead \cup ChainTxs(tip) \cup PoolTxs, todo)' /\ dead \in SUBSET had'
    BY <1>1, <2>3 DEF done
  <2> QED
    BY <2>3, <2>4 DEF Recovering
<1>5. ~found' => \E o \in Spends[Head(todo)'] : ~Available(o)'
  BY <1>1, <1>2, <1>3
<1> QED
  BY <1>1, <1>2, <1>3, <1>4, <1>5 DEF LossInv

\* What can never be added again still cannot after a transaction that could.
LEMMA StillNever ==
    ASSUME PoolInv, Synced, Synced', NEW dead, NeverAgain(dead), NEW t \in Txs,
           t \notin PoolTxs, \A o \in Spends[t] : Available(o), ~Conflicts(t),
           pool' = Append(pool, t), UNCHANGED tip
    PROVE  NeverAgain(dead)'
<1>0. TypeOK
  BY DEF PoolInv
<1>1. PoolTxs' = PoolTxs \cup {t}
  BY <1>0, AppendedPool
<1>2. t \notin ChainTxs(tip)
  <2>1. DOMAIN pool' = DOMAIN pool \cup {Len(pool) + 1} /\ pool'[Len(pool) + 1] = t
    BY <1>0, AppendedPool
  <2> QED
    BY <2>1 DEF Synced
<1>3. t \notin dead /\ t \notin Coins
  BY MempoolAssumption DEF NeverAgain
<1>4. SpentBy(PoolTxs') = SpentBy(PoolTxs) \cup Spends[t]
  BY <1>1 DEF SpentBy
<1>5. t \notin Utxos(tip)
  BY <1>2, <1>3 DEF Utxos
<1>6. \A d : Conflicts(d) => Conflicts(d)'
  BY <1>4 DEF Conflicts
<1>7. ASSUME NEW o, ~Available(o), o # t
      PROVE  ~Available(o)'
  BY <1>1, <1>4, <1>7 DEF Available
<1>8. ASSUME NEW d \in dead
      PROVE  \/ Conflicts(d)'
             \/ \E o \in Spends[d] : /\ ~Available(o)'
                                     /\ o \in Coins \cup dead \cup ChainTxs(tip) \cup PoolTxs'
  <2>1. CASE Conflicts(d)
    BY <1>6, <2>1
  <2>2. CASE \E o \in Spends[d] : /\ ~Available(o)
                                  /\ o \in Coins \cup dead \cup ChainTxs(tip) \cup PoolTxs
    <3>1. PICK o \in Spends[d] : ~Available(o) /\ o \in Coins \cup dead \cup ChainTxs(tip) \cup PoolTxs
      BY <2>2
    <3>2. o # t
      BY <1>2, <1>3, <3>1
    <3>3. ~Available(o)'
      BY <1>7, <3>1, <3>2
    <3> QED
      BY <1>1, <3>1, <3>3
  <2> QED
    BY <2>1, <2>2 DEF NeverAgain
<1> QED
  BY <1>8 DEF NeverAgain

\* The transaction is added or rejected.
LEMMA AddedKeeps ==
    ASSUME PoolInv, LossInv, AddedOrRejected
    PROVE  LossInv'
<1> DEFINE t == Head(todo)
<1>0. /\ TypeOK /\ had \subseteq Txs /\ todo \in Seq(Txs) /\ best \in GenBlock
      /\ PoolInv'
  BY AddedStep DEF PoolInv, TypeOK
<1>1. /\ UNCHANGED <<tip, ibd, moves, events, best, newTip, failures, had, disturbed,
                     startTip, left, found>>
      /\ phase = "verify" /\ left = {} /\ tip = startTip
      /\ pool' = IF found /\ ~Conflicts(t) THEN Append(pool, t) ELSE pool
      /\ todo' = Tail(todo) /\ phase' = IF Tail(todo) = <<>> THEN "idle" ELSE "add"
  BY DEF AddedOrRejected, Continue, Verified, chain, history
<1>2. todo # <<>> /\ t \in Txs /\ Tail(todo) \in Seq(Txs) /\ t \notin PoolTxs
  BY <1>0, <1>1, PoolType DEF TypeOK, CallSound, PoolInv
<1>3. phase' \in {"idle", "add"} /\ (phase' = "idle" => todo' = <<>>)
  BY <1>1
<1>4. HadClosed => HadClosed'
  BY <1>1 DEF HadClosed
<1> HIDE DEF t
<1>5. CASE disturbed
  BY <1>1, <1>3, <1>5 DEF LossInv
<1>6. CASE ~disturbed /\ events # <<>>
  <2>1. ~ibd /\ HadClosed /\ Waiting /\ Len(events) = 1
    BY <1>6 DEF LossInv
  <2>2. Waiting'
    <3>1. CASE pool' = pool
      BY <1>1, <2>1, <3>1 DEF Waiting, PoolTxs
    <3>2. CASE pool' = Append(pool, t)
      <4>1. /\ DOMAIN pool' = DOMAIN pool \cup {Len(pool) + 1}
            /\ \A n \in DOMAIN pool : pool'[n] = pool[n]
            /\ pool'[Len(pool) + 1] = t
            /\ DOMAIN pool = 1 .. Len(pool) /\ Len(pool) \in Nat
            /\ PoolTxs' = PoolTxs \cup {t}
        BY <1>0, <1>2, <3>2, AppendedPool
      <4>2. had' \subseteq ChainTxs(best') \cup PoolTxs'
        BY <1>1, <2>1, <4>1 DEF Waiting
      <4>3. ASSUME NEW n \in DOMAIN pool', pool'[n] \in had, NEW o \in Spends[pool'[n]] \cap Txs
            PROVE  o \in ChainTxs(best) \/ \E m \in 1 .. (n - 1) : pool'[m] = o
        <5>1. CASE n \in DOMAIN pool
          <6>1. \A m \in 1 .. (n - 1) : pool'[m] = pool[m]
            BY <4>1, <5>1
          <6>2. o \in ChainTxs(best) \/ \E m \in 1 .. (n - 1) : pool[m] = o
            BY <2>1, <4>1, <4>3, <5>1 DEF Waiting
          <6> QED
            BY <6>1, <6>2
        <5>2. CASE n = Len(pool) + 1
          <6>1. t \in ChainTxs(best)
            BY <1>2, <2>1, <4>1, <4>3, <5>2 DEF Waiting
          <6>2. Spends[t] \subseteq Coins \cup ChainTxs(best)
            BY <1>0, <6>1, ChainClosed
          <6> QED
            BY <4>1, <5>2, <6>2, MempoolAssumption
        <5> QED
          BY <4>1, <5>1, <5>2
      <4> QED
        BY <1>1, <4>2, <4>3 DEF Waiting
    <3> QED
      BY <1>1, <3>1, <3>2
  <2> QED
    BY <1>1, <1>3, <1>4, <1>6, <2>1, <2>2 DEF LossInv
<1>7. CASE ~disturbed /\ events = <<>>
  <2>1. ~ibd /\ HadClosed /\ Recovering /\ Synced /\ Synced'
    BY <1>0, <1>1, <1>3, <1>7 DEF LossInv, PoolInv
  <2> DEFINE done(dead) == dead \cup ChainTxs(tip) \cup PoolTxs
  <2>2. PICK dead \in SUBSET had : NeverAgain(dead) /\ ToAdd(done(dead), todo)
    BY <2>1 DEF Recovering
  <2>3. Recovering'
    <3>1. CASE found /\ ~Conflicts(t)
      <4>1. pool' = Append(pool, t)
        BY <1>1, <3>1
      <4>2. PoolTxs' = PoolTxs \cup {t}
        BY <1>0, <1>2, <4>1, AppendedPool
      <4>3. \A o \in Spends[t] : Available(o)
        BY <1>1, <1>7, <3>1 DEF PoolInv, CallSound, t
      <4>4. NeverAgain(dead)'
        BY <1>1, <1>2, <2>1, <2>2, <3>1, <4>1, <4>3, StillNever
      <4>5. /\ done(dead) \subseteq done(dead) \cup {t}
            /\ done(dead) \cup {t} = (dead \cup ChainTxs(tip) \cup PoolTxs)'
        BY <1>1, <4>2
      <4> HIDE DEF done
      <4>6. ToAdd(done(dead) \cup {t}, Tail(todo))
        BY <1>0, <1>2, <2>1, <2>2, <4>5, DropHead DEF t
      <4>7. ToAdd(dead \cup ChainTxs(tip) \cup PoolTxs, todo)'
        BY <1>1, <4>5, <4>6 DEF ToAdd
      <4>8. dead \in SUBSET had'
        BY <1>1
      <4> QED
        BY <4>4, <4>7, <4>8 DEF Recovering
    <3>2. CASE ~(found /\ ~Conflicts(t))
      <4>1. pool' = pool
        BY <1>1, <3>2
      <4>2. /\ PoolTxs' = PoolTxs
            /\ \A S : NeverAgain(S) => NeverAgain(S)'
            /\ \A D, rest : ToAdd(D, rest) => ToAdd(D, rest)'
        BY <1>1, <4>1, LossSame
      <4>0. PICK more \in SUBSET had : more = IF t \in had THEN dead \cup {t} ELSE dead
        OBVIOUS
      <4>3. NeverAgain(more)
        <5>1. CASE t \notin had
          BY <2>2, <4>0, <5>1
        <5>2. CASE t \in had /\ Conflicts(t)
          BY <2>2, <4>0, <5>2 DEF NeverAgain
        <5>3. CASE t \in had /\ ~Conflicts(t)
          <6>1. ~found
            BY <3>2, <5>3
          <6>2. PICK o \in Spends[t] : ~Available(o)
            BY <1>1, <1>7, <6>1 DEF LossInv, t
          <6>3. o \in Coins \cup Txs
            BY <1>2, <6>2, MempoolAssumption
          <6>4. 1 \in DOMAIN todo /\ todo[1] = t /\ 1 .. (1 - 1) = {}
            BY <1>0, <1>2 DEF t
          <6>5. o \in Txs => o \in done(dead)
            BY <2>2, <5>3, <6>2, <6>4 DEF ToAdd
          <6>6. o \in Coins \cup more \cup ChainTxs(tip) \cup PoolTxs
            BY <4>0, <5>3, <6>3, <6>5
          <6> QED
            BY <2>2, <4>0, <5>3, <6>2, <6>6 DEF NeverAgain
        <5> QED
          BY <5>1, <5>2, <5>3
      <4>4. done(dead) \subseteq done(more) /\ (t \in done(more) \/ t \notin had)
        BY <4>0
      <4>5. done(more) = (more \cup ChainTxs(tip) \cup PoolTxs)'
        BY <1>1, <4>2
      <4> HIDE DEF done
      <4>6. ToAdd(done(more), Tail(todo))
        BY <1>0, <1>2, <2>1, <2>2, <4>4, DropHead DEF t
      <4>7. ToAdd(more \cup ChainTxs(tip) \cup PoolTxs, todo)'
        BY <1>1, <4>5, <4>6 DEF ToAdd
      <4>8. NeverAgain(more)' /\ more \in SUBSET had'
        BY <1>1, <4>2, <4>3
      <4> QED
        BY <4>7, <4>8 DEF Recovering
    <3> QED
      BY <3>1, <3>2
  <2> QED
    BY <1>1, <1>3, <1>4, <1>7, <2>1, <2>3 DEF LossInv
<1> QED
  BY <1>5, <1>6, <1>7

\* Every step keeps LossInv.
LEMMA NextLoss ==
    ASSUME PoolInv, LossInv, [Next]_vars
    PROVE  LossInv'
<1>1. CASE UNCHANGED vars
  <2>1. UNCHANGED <<tip, ibd, moves, events, pool, best, phase, newTip, todo, attempt, startTip,
                    left, found, failures, had, disturbed>>
    BY <1>1 DEF vars, chain, call, history
  <2>2. PoolTxs' = PoolTxs /\ (\A o : Available(o)' <=> Available(o))
        /\ (HadClosed => HadClosed') /\ (Waiting => Waiting')
    BY <2>1, LossSame
  <2>3. Recovering => Recovering'
    BY <2>1 DEF Recovering, NeverAgain, ToAdd, Conflicts, Available, PoolTxs
  <2> QED
    BY <2>1, <2>2, <2>3 DEF LossInv
<1>2. CASE Next
  BY <1>2, TipKeeps, EventKeeps, AttemptKeeps, CheckInputKeeps, AddedKeeps DEF Next, ExecuteCall
<1> QED
  BY <1>1, <1>2

\* While the tip waits for the mempool, a reorg loses no transaction: what was in
\* the pool or on the chain is on the new chain or in the pool, or cannot be added
\* (into_disconnected_transactions, reorg_mempool_transactions).
THEOREM NothingIsLost == Spec => []NothingLost
<1>1. Init => LossInv
  <2> SUFFICES ASSUME Init
               PROVE  LossInv
    OBVIOUS
  <2>1. NeverAgain({}) /\ {} \in SUBSET had /\ ToAdd({} \cup ChainTxs(tip) \cup PoolTxs, todo)
    BY DEF Init, NeverAgain, ToAdd
  <2> QED
    BY <2>1 DEF Init, LossInv, HadClosed, Recovering
<1>2. PoolInv /\ LossInv /\ [Next]_vars => LossInv'
  BY NextLoss
<1>3. LossInv => NothingLost
  <2> SUFFICES ASSUME LossInv, Settled, ~disturbed,
                      NEW t \in had \ (ChainTxs(tip) \cup PoolTxs)
               PROVE  Conflicts(t) \/ \E o \in Spends[t] : ~Available(o)
    BY DEF NothingLost
  <2>1. todo = <<>> /\ Recovering
    BY DEF LossInv, Settled
  <2>2. PICK dead \in SUBSET had :
          NeverAgain(dead) /\ ToAdd(dead \cup ChainTxs(tip) \cup PoolTxs, todo)
    BY <2>1 DEF Recovering
  <2>3. t \in dead
    BY <2>1, <2>2 DEF ToAdd, ToSet
  <2> QED
    BY <2>2, <2>3 DEF NeverAgain
<1> QED
  BY <1>1, <1>2, <1>3, PoolInvariant, PTL DEF Spec
=============================================================================
