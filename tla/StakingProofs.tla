---------------------------- MODULE StakingProofs ----------------------------
(***************************************************************************)
(* Proofs about EpochSeal and PosAccounting: what is sealed is what the    *)
(* main chain determines, and the accounts of pools and delegations agree  *)
(* and are given back by the undos of a block.                             *)
(***************************************************************************)
EXTENDS PosAccounting, EpochSeal, TLAPS, FiniteSetTheorems, WellFoundedInduction

\* Every set of numbers has a least element.
LEMMA LeastNumber ==
  ASSUME NEW S, S \subseteq Nat, S # {}
  PROVE  \E m \in S : \A n \in S : m <= n
  <1> DEFINE R == OpToRel(<, Nat)
  <1>1. IsWellFoundedOn(R, Nat)
    BY NatLessThanWellFounded
  <1>2. \A x, y \in Nat : x < y => <<x, y>> \in R
    BY DEF OpToRel
  <1> HIDE DEF R
  <1>3. PICK m \in S : \A n \in S : ~(<<n, m>> \in R)
    BY <1>1, WFMin
  <1>4. \A n \in S : ~(n < m)
    BY <1>2, <1>3, Zenon
  <1>5. m \in Nat /\ S \subseteq Nat
    OBVIOUS
  <1> QED BY <1>4, <1>5

----------------------------------------------------------------------------
(* Deltas. *)

\* States and deltas of accounts D with values V and balances A.
DataDeltas(D, V) == UNION {[K -> [old : V, new : V]] : K \in SUBSET D}
DeltaSet(D, V, A) == [data : DataDeltas(D, V), amounts : [A -> Int]]
StateSet(D, V, A) == [data : [D -> V], amounts : [A -> Int]]

\* The delta starts from the data of the state.
Matches(st, d) == \A k \in DOMAIN d.data : st.data[k] = d.data[k].old

\* What a collection of data deltas is.
LEMMA DataDeltaIs ==
  ASSUME NEW K, NEW W
  PROVE  /\ \A c \in DataDeltas(K, W) : /\ DOMAIN c \in SUBSET K
                                          /\ c \in [DOMAIN c -> [old : W, new : W]]
         /\ \A X \in SUBSET K : \A c \in [X -> [old : W, new : W]] : c \in DataDeltas(K, W)
  BY DEF DataDeltas

\* Applying a delta to a state leaves a state.
LEMMA ApplyType ==
  ASSUME NEW K, NEW W, NEW B, NEW st \in StateSet(K, W, B), NEW d \in DeltaSet(K, W, B)
  PROVE  /\ Apply(st, d) \in StateSet(K, W, B)
         /\ \A k \in K : Apply(st, d).data[k] =
               IF k \in DOMAIN d.data THEN d.data[k].new ELSE st.data[k]
         /\ \A k \in B : Apply(st, d).amounts[k] = st.amounts[k] + d.amounts[k]
  <1> DEFINE D == DOMAIN d.data
             data == [k \in K |-> IF k \in D THEN d.data[k].new ELSE st.data[k]]
             am == [k \in B |-> st.amounts[k] + d.amounts[k]]
  <1>1. d.data \in DataDeltas(K, W) /\ d.amounts \in [B -> Int]
    BY DEF DeltaSet
  <1>2. D \in SUBSET K /\ d.data \in [D -> [old : W, new : W]]
    BY <1>1, DataDeltaIs
  <1>3. /\ st.data \in [K -> W] /\ st.amounts \in [B -> Int]
        /\ DOMAIN st.data = K /\ DOMAIN st.amounts = B
    BY DEF StateSet
  <1>4. Apply(st, d) = [data |-> data, amounts |-> am]
    BY <1>3 DEF Apply, MergeAmounts
  <1> HIDE DEF D
  <1>5. data \in [K -> W]
    <2>1. \A k \in K : (IF k \in D THEN d.data[k].new ELSE st.data[k]) \in W
      BY <1>2, <1>3
    <2> QED BY <2>1
  <1>6. am \in [B -> Int]
    BY <1>1, <1>3
  <1>7. Apply(st, d).data = data /\ Apply(st, d).amounts = am
    BY <1>4
  <1>8. Apply(st, d) \in StateSet(K, W, B)
    BY <1>4, <1>5, <1>6 DEF StateSet
  <1> QED BY <1>7, <1>8 DEF D

\* Two states with the same data and amounts are the same.
LEMMA SameState ==
  ASSUME NEW K, NEW W, NEW B, NEW s \in StateSet(K, W, B), NEW t \in StateSet(K, W, B),
         \A k \in K : s.data[k] = t.data[k],
         \A k \in B : s.amounts[k] = t.amounts[k]
  PROVE  s = t
  <1>1. /\ s.data \in [K -> W] /\ t.data \in [K -> W]
        /\ s.amounts \in [B -> Int] /\ t.amounts \in [B -> Int]
        /\ s = [data |-> s.data, amounts |-> s.amounts]
        /\ t = [data |-> t.data, amounts |-> t.amounts]
    BY DEF StateSet
  <1>2. s.data = t.data
    BY <1>1
  <1>3. s.amounts = t.amounts
    BY <1>1
  <1> QED BY <1>1, <1>2, <1>3

\* A delta that starts where another one ends can be merged into it, which is the same as
\* applying one after the other.
LEMMA MergeIsApplyBoth ==
  ASSUME NEW K, NEW W, NEW B, NEW st \in StateSet(K, W, B), NEW d \in DeltaSet(K, W, B), NEW c \in DeltaSet(K, W, B),
         Matches(st, d), Matches(Apply(st, d), c)
  PROVE  /\ Merge(d, c) \in DeltaSet(K, W, B)
         /\ Mergeable(d, c)
         /\ Matches(st, Merge(d, c))
         /\ Apply(st, Merge(d, c)) = Apply(Apply(st, d), c)
  <1> DEFINE V == [old : W, new : W]
             D == DOMAIN d.data
             C == DOMAIN c.data
             m == Merge(d, c)
             at(k) == IF k \notin C THEN d.data[k]
                      ELSE IF k \notin D THEN c.data[k]
                      ELSE [old |-> d.data[k].old, new |-> c.data[k].new]
  <1>1. /\ d.data \in DataDeltas(K, W) /\ d.amounts \in [B -> Int]
        /\ c.data \in DataDeltas(K, W) /\ c.amounts \in [B -> Int]
    BY DEF DeltaSet
  <1>2. /\ D \in SUBSET K /\ d.data \in [D -> V]
        /\ C \in SUBSET K /\ c.data \in [C -> V]
    BY <1>1, DataDeltaIs
  <1>3. m = [data |-> [k \in D \cup C |-> at(k)],
             amounts |-> [k \in B |-> d.amounts[k] + c.amounts[k]]]
    BY <1>1 DEF Merge, MergeData, MergeAmounts, CombineDeltaData, DataDelta
  <1>4. /\ DOMAIN m.data = D \cup C /\ \A k \in D \cup C : m.data[k] = at(k)
        /\ m.data = [k \in D \cup C |-> at(k)]
        /\ \A k \in B : m.amounts[k] = d.amounts[k] + c.amounts[k]
    BY <1>3
  <1>5. m \in DeltaSet(K, W, B)
    <2>1. \A k \in D \cup C : at(k) \in V
      BY <1>2
    <2>2. [k \in D \cup C |-> at(k)] \in [D \cup C -> V] /\ D \cup C \in SUBSET K
      BY <1>2, <2>1
    <2>3. [k \in D \cup C |-> at(k)] \in DataDeltas(K, W)
      BY <2>2, Zenon DEF DataDeltas
    <2>4. [k \in B |-> d.amounts[k] + c.amounts[k]] \in [B -> Int]
      BY <1>1
    <2> HIDE DEF at, m
    <2> QED BY <1>3, <2>3, <2>4 DEF DeltaSet
  <1>6. ASSUME NEW k \in C
        PROVE  c.data[k].old = IF k \in D THEN d.data[k].new ELSE st.data[k]
    <2>1. k \in K
      BY <1>2
    <2>2. Apply(st, d).data[k] = IF k \in D THEN d.data[k].new ELSE st.data[k]
      BY <2>1, ApplyType
    <2> QED BY <2>2 DEF Matches
  <1>7. Mergeable(d, c)
    BY <1>6 DEF Mergeable, Combinable
  <1> HIDE DEF m
  <1>8. Matches(st, m)
    <2> SUFFICES ASSUME NEW k \in D \cup C
                 PROVE  st.data[k] = at(k).old
      BY <1>4 DEF Matches
    <2>1. k \in D => st.data[k] = d.data[k].old
      BY DEF Matches
    <2>2. CASE k \notin C
      BY <2>1, <2>2
    <2>3. CASE k \in C
      BY <1>6, <2>1, <2>3
    <2> QED BY <2>2, <2>3
  <1>9. Apply(st, m) = Apply(Apply(st, d), c)
    <2> DEFINE s == Apply(st, m)
               u == Apply(st, d)
               t == Apply(u, c)
    <2>1. u \in StateSet(K, W, B)
      BY ApplyType
    <2>2. s \in StateSet(K, W, B) /\ t \in StateSet(K, W, B)
      BY <1>5, <2>1, ApplyType
    <2>3. ASSUME NEW k \in K
          PROVE  s.data[k] = t.data[k]
      <3>1. s.data[k] = IF k \in D \cup C THEN at(k).new ELSE st.data[k]
        BY <1>4, <1>5, ApplyType
      <3>2. u.data[k] = IF k \in D THEN d.data[k].new ELSE st.data[k]
        BY ApplyType
      <3>3. t.data[k] = IF k \in C THEN c.data[k].new ELSE u.data[k]
        BY <2>1, ApplyType
      <3> HIDE DEF s, u, t
      <3> QED BY <3>1, <3>2, <3>3
    <2>4. ASSUME NEW k \in B
          PROVE  s.amounts[k] = t.amounts[k]
      <3>1. s.amounts[k] = st.amounts[k] + (d.amounts[k] + c.amounts[k])
        BY <1>4, <1>5, ApplyType
      <3>2. u.amounts[k] = st.amounts[k] + d.amounts[k]
        BY ApplyType
      <3>3. t.amounts[k] = u.amounts[k] + c.amounts[k]
        BY <2>1, ApplyType
      <3>4. st.amounts[k] \in Int /\ d.amounts[k] \in Int /\ c.amounts[k] \in Int
        BY <1>1 DEF StateSet
      <3> HIDE DEF s, u, t
      <3> QED BY <3>1, <3>2, <3>3, <3>4
    <2> HIDE DEF s, t
    <2>5. s = t
      BY <2>2, <2>3, <2>4, SameState
    <2> QED BY <2>5 DEF s, t
  <1> QED BY <1>5, <1>7, <1>8, <1>9 DEF m

\* The inverse of a delta takes a state back.
LEMMA InverseTakesBack ==
  ASSUME NEW K, NEW W, NEW B, NEW st \in StateSet(K, W, B), NEW c \in DeltaSet(K, W, B), Matches(st, c)
  PROVE  /\ InvertAll(c) \in DeltaSet(K, W, B)
         /\ Matches(Apply(st, c), InvertAll(c))
         /\ Apply(Apply(st, c), InvertAll(c)) = st
  <1> DEFINE V == [old : W, new : W]
             C == DOMAIN c.data
             m == InvertAll(c)
             u == Apply(st, c)
  <1>1. c.data \in DataDeltas(K, W) /\ c.amounts \in [B -> Int]
    BY DEF DeltaSet
  <1>2. C \in SUBSET K /\ c.data \in [C -> V]
    BY <1>1, DataDeltaIs
  <1>3. m = [data |-> [k \in C |-> [old |-> c.data[k].new, new |-> c.data[k].old]],
             amounts |-> [k \in B |-> -c.amounts[k]]]
    BY <1>1 DEF InvertAll, Invert, DataDelta
  <1>4. /\ DOMAIN m.data = C
        /\ \A k \in C : m.data[k].old = c.data[k].new /\ m.data[k].new = c.data[k].old
        /\ \A k \in B : m.amounts[k] = -c.amounts[k]
    BY <1>3
  <1>5. m \in DeltaSet(K, W, B)
    <2>1. [k \in C |-> [old |-> c.data[k].new, new |-> c.data[k].old]] \in [C -> V]
      BY <1>2
    <2>2. [k \in C |-> [old |-> c.data[k].new, new |-> c.data[k].old]] \in DataDeltas(K, W)
      BY <1>2, <2>1, DataDeltaIs
    <2>3. [k \in B |-> -c.amounts[k]] \in [B -> Int]
      BY <1>1
    <2> HIDE DEF m
    <2> QED BY <1>3, <2>2, <2>3 DEF DeltaSet
  <1>6. u \in StateSet(K, W, B)
    BY ApplyType
  <1> HIDE DEF m
  <1>7. Matches(u, m)
    <2> SUFFICES ASSUME NEW k \in C
                 PROVE  u.data[k] = c.data[k].new
      BY <1>4 DEF Matches
    <2>1. k \in K
      BY <1>2
    <2> QED BY <2>1, ApplyType
  <1>8. Apply(u, m) = st
    <2> DEFINE t == Apply(u, m)
    <2>1. t \in StateSet(K, W, B)
      BY <1>5, <1>6, ApplyType
    <2>2. ASSUME NEW k \in K
          PROVE  t.data[k] = st.data[k]
      <3>1. u.data[k] = IF k \in C THEN c.data[k].new ELSE st.data[k]
        BY ApplyType
      <3>2. t.data[k] = IF k \in C THEN m.data[k].new ELSE u.data[k]
        BY <1>4, <1>5, <1>6, ApplyType
      <3>3. k \in C => c.data[k].old = st.data[k]
        BY DEF Matches
      <3> HIDE DEF t, u
      <3> QED BY <1>4, <3>1, <3>2, <3>3
    <2>3. ASSUME NEW k \in B
          PROVE  t.amounts[k] = st.amounts[k]
      <3>1. u.amounts[k] = st.amounts[k] + c.amounts[k]
        BY ApplyType
      <3>2. t.amounts[k] = u.amounts[k] + m.amounts[k]
        BY <1>5, <1>6, ApplyType
      <3>3. st.amounts[k] \in Int /\ c.amounts[k] \in Int
        BY <1>1 DEF StateSet
      <3> HIDE DEF t, u
      <3> QED BY <1>4, <3>1, <3>2, <3>3
    <2> HIDE DEF t
    <2>4. t = st
      BY <2>1, <2>2, <2>3, SameState
    <2> QED BY <2>4 DEF t
  <1> QED BY <1>5, <1>7, <1>8 DEF m, u
----------------------------------------------------------------------------
(* Epochs. *)

\* Products of natural numbers grow with their factors.
LEMMA Times ==
  ASSUME NEW L \in Nat, NEW a \in Int, NEW b \in Int, a <= b
  PROVE  a * L <= b * L /\ a * L \in Int /\ b * L \in Int /\ (a + 1) * L = a * L + L
  <1>1. PICK c \in Nat : b = a + c
    <2>1. b - a \in Nat /\ b = a + (b - a)
      OBVIOUS
    <2> QED BY <2>1
  <1>2. c * L \in Nat /\ (a + c) * L = a * L + c * L /\ a * L \in Int
    OBVIOUS
  <1>3. (a + 1) * L = a * L + L
    OBVIOUS
  <1> QED BY <1>1, <1>2, <1>3

\* The first and the last height of an epoch.
LEMMA EpochHeights ==
  ASSUME NEW e \in Int
  PROVE  /\ FirstHeight(e) \in Int /\ LastHeight(e) \in Int /\ e + 1 \in Int
         /\ FirstHeight(e) <= LastHeight(e)
         /\ LastHeight(e) = FirstHeight(e + 1) - 1
  <1>1. EpochLength \in Nat /\ EpochLength >= 1
    BY EpochAssumption
  <1>2. (e + 1) * EpochLength = e * EpochLength + EpochLength /\ e * EpochLength \in Int
    BY <1>1, Times
  <1> QED BY <1>1, <1>2 DEF FirstHeight, LastHeight

LEMMA FirstEpoch == FirstHeight(0) = 0 /\ LastHeight(0) \in Int /\ 0 <= LastHeight(0)
  <1>1. EpochLength \in Nat /\ EpochLength >= 1
    BY EpochAssumption
  <1>2. 0 * EpochLength = 0 /\ (0 + 1) * EpochLength = EpochLength
    BY <1>1
  <1> QED BY <1>1, <1>2 DEF FirstHeight, LastHeight

\* Epochs follow one another.
LEMMA EpochOrder ==
  ASSUME NEW e \in Int, NEW f \in Int
  PROVE  /\ e < f => LastHeight(e) < FirstHeight(f)
         /\ e <= f => FirstHeight(e) <= FirstHeight(f) /\ LastHeight(e) <= LastHeight(f)
  <1>1. EpochLength \in Nat /\ EpochLength >= 1
    BY EpochAssumption
  <1>2. /\ FirstHeight(e) = e * EpochLength /\ FirstHeight(f) = f * EpochLength
        /\ LastHeight(e) = (e + 1) * EpochLength - 1 /\ LastHeight(f) = (f + 1) * EpochLength - 1
    BY DEF FirstHeight, LastHeight
  <1>3. e < f => (e + 1) * EpochLength <= f * EpochLength
    BY <1>1, Times
  <1>4. e <= f => /\ e * EpochLength <= f * EpochLength
                  /\ (e + 1) * EpochLength <= (f + 1) * EpochLength
    BY <1>1, Times
  <1>5. /\ e * EpochLength \in Int /\ (e + 1) * EpochLength \in Int
        /\ f * EpochLength \in Int /\ (f + 1) * EpochLength \in Int
    BY <1>1
  <1> QED BY <1>2, <1>3, <1>4, <1>5

\* The heights of an epoch.
LEMMA EpochOf ==
  ASSUME NEW h \in Nat
  PROVE  LET e == EpochIndexFromHeight(h)
         IN e \in Nat /\ FirstHeight(e) <= h /\ h <= LastHeight(e)
  <1> DEFINE L == EpochLength
  <1>1. L \in Nat /\ L >= 1
    BY EpochAssumption
  <1>2. h \div L \in Nat /\ (h \div L) * L <= h /\ h < (h \div L) * L + L
    BY <1>1
  <1>3. ((h \div L) + 1) * L = (h \div L) * L + L
    BY <1>1, <1>2, Times
  <1>4. L \in Int /\ (h \div L) * L \in Int
    BY <1>1, <1>2
  <1> QED BY <1>2, <1>3, <1>4 DEF EpochIndexFromHeight, FirstHeight, LastHeight

LEMMA EpochIs ==
  ASSUME NEW h \in Nat, NEW e \in Int, FirstHeight(e) <= h, h <= LastHeight(e)
  PROVE  EpochIndexFromHeight(h) = e
  <1> DEFINE q == EpochIndexFromHeight(h)
  <1>1. q \in Nat /\ FirstHeight(q) <= h /\ h <= LastHeight(q)
    BY EpochOf
  <1> HIDE DEF q
  <1>2. q < e => LastHeight(q) < FirstHeight(e)
    BY <1>1, EpochOrder
  <1>3. e < q => LastHeight(e) < FirstHeight(q)
    BY <1>1, EpochOrder
  <1>4. /\ LastHeight(q) \in Int /\ FirstHeight(e) \in Int
        /\ LastHeight(e) \in Int /\ FirstHeight(q) \in Int
    BY <1>1, EpochHeights
  <1>5. q = e
    BY <1>1, <1>2, <1>3, <1>4
  <1> QED BY <1>5 DEF q

\* The last height of an epoch.
LEMMA LastIs ==
  ASSUME NEW h \in Nat
  PROVE  IsLastBlockInEpoch(h) <=> h = LastHeight(EpochIndexFromHeight(h))
  <1> DEFINE L == EpochLength
             q == (h + 1) \div L
             e == EpochIndexFromHeight(h)
  <1>1. L \in Nat /\ L >= 1
    BY EpochAssumption
  <1>2. /\ q \in Nat /\ (h + 1) % L \in 0 .. (L - 1)
        /\ h + 1 = q * L + ((h + 1) % L)
    BY <1>1
  <1>3. ASSUME IsLastBlockInEpoch(h)
        PROVE  h = LastHeight(e)
    <2>1. (h + 1) % L = 0
      BY <1>3 DEF IsLastBlockInEpoch
    <2>2. h + 1 = q * L /\ q # 0
      <3>1. 0 * L = 0
        BY <1>1
      <3>2. q * L \in Nat
        BY <1>1, <1>2
      <3> HIDE DEF q
      <3> QED BY <1>2, <2>1, <3>1, <3>2
    <2> HIDE DEF q
    <2>3. LastHeight(q - 1) = q * L - 1
      BY <1>2 DEF LastHeight
    <2>4. h = LastHeight(q - 1) /\ q - 1 \in Int
      <3>1. q * L \in Nat
        BY <1>1, <1>2
      <3> QED BY <1>2, <2>2, <2>3, <3>1
    <2>5. FirstHeight(q - 1) <= LastHeight(q - 1)
      BY <2>4, EpochHeights
    <2>6. FirstHeight(q - 1) \in Int /\ LastHeight(q - 1) \in Int
      BY <2>4, EpochHeights
    <2>7. e = q - 1
      BY <2>4, <2>5, <2>6, EpochIs
    <2> QED BY <2>4, <2>7
  <1>4. ASSUME h = LastHeight(e)
        PROVE  IsLastBlockInEpoch(h)
    <2>1. e \in Nat
      BY EpochOf
    <2> HIDE DEF e
    <2>2. h + 1 = (e + 1) * L
      <3>1. LastHeight(e) = (e + 1) * L - 1 /\ (e + 1) * L \in Int
        BY <1>1, <2>1 DEF LastHeight
      <3> QED BY <1>4, <3>1
    <2>3. ((e + 1) * L) % L = 0
      BY <1>1, <2>1
    <2> QED BY <2>2, <2>3 DEF IsLastBlockInEpoch
  <1> QED BY <1>3, <1>4

\* Epochs before and after the one of a height.
LEMMA EpochCompare ==
  ASSUME NEW h \in Nat, NEW e \in Int
  PROVE  /\ e < EpochIndexFromHeight(h) <=> LastHeight(e) < h
         /\ e > EpochIndexFromHeight(h) <=> FirstHeight(e) > h
  <1> DEFINE q == EpochIndexFromHeight(h)
  <1>1. q \in Nat /\ FirstHeight(q) <= h /\ h <= LastHeight(q)
    BY EpochOf
  <1> HIDE DEF q
  <1>2. /\ e < q => LastHeight(e) < FirstHeight(q)
        /\ q <= e => LastHeight(q) <= LastHeight(e)
        /\ q < e => LastHeight(q) < FirstHeight(e)
        /\ e <= q => FirstHeight(e) <= FirstHeight(q)
    BY <1>1, EpochOrder
  <1>3. /\ LastHeight(q) \in Int /\ FirstHeight(e) \in Int
        /\ LastHeight(e) \in Int /\ FirstHeight(q) \in Int
    BY <1>1, EpochHeights
  <1>4. (e < q <=> LastHeight(e) < h) /\ (e > q <=> FirstHeight(e) > h)
    BY <1>1, <1>2, <1>3
  <1> QED BY <1>4 DEF q

\* The next height: a new epoch starts after the last height of one, and the last height
\* of an epoch is the one where another epoch is sealed.
LEMMA NextHeight ==
  ASSUME NEW h \in Nat
  PROVE  /\ EpochIndexFromHeight(h + 1) =
              IF IsLastBlockInEpoch(h) THEN EpochIndexFromHeight(h) + 1
              ELSE EpochIndexFromHeight(h)
         /\ SealedEpochIndex(h + 1) =
              IF IsLastBlockInEpoch(h + 1) THEN SealedEpochIndex(h) + 1 ELSE SealedEpochIndex(h)
  <1> DEFINE q == EpochIndexFromHeight(h)
             n == EpochIndexFromHeight(h + 1)
  <1>1. q \in Nat /\ FirstHeight(q) <= h /\ h <= LastHeight(q)
    BY EpochOf
  <1>2. h + 1 \in Nat /\ n \in Nat
    BY EpochOf
  <1>3. IsLastBlockInEpoch(h) <=> h = LastHeight(q)
    BY LastIs
  <1>4. /\ LastHeight(q) \in Int /\ FirstHeight(q) \in Int /\ q + 1 \in Int
        /\ LastHeight(q) = FirstHeight(q + 1) - 1
    BY <1>1, EpochHeights
  <1>5. LastHeight(q + 1) \in Int /\ FirstHeight(q + 1) \in Int /\ FirstHeight(q + 1) <= LastHeight(q + 1)
    BY <1>4, EpochHeights
  <1> HIDE DEF q
  <1>6. n = IF IsLastBlockInEpoch(h) THEN q + 1 ELSE q
    <2>1. CASE IsLastBlockInEpoch(h)
      <3>1. FirstHeight(q + 1) <= h + 1 /\ h + 1 <= LastHeight(q + 1)
        BY <1>3, <1>4, <1>5, <2>1
      <3> QED BY <1>2, <1>4, <2>1, <3>1, EpochIs
    <2>2. CASE ~IsLastBlockInEpoch(h)
      <3>1. FirstHeight(q) <= h + 1 /\ h + 1 <= LastHeight(q)
        BY <1>1, <1>3, <1>4, <2>2
      <3> QED BY <1>1, <1>2, <2>2, <3>1, EpochIs
    <2> QED BY <2>1, <2>2
  <1> HIDE DEF n
  <1>7. /\ SealedEpochIndex(h) = q - Distance - (IF IsLastBlockInEpoch(h) THEN 0 ELSE 1)
        /\ SealedEpochIndex(h + 1) = n - Distance - (IF IsLastBlockInEpoch(h + 1) THEN 0 ELSE 1)
    BY DEF SealedEpochIndex, q, n
  <1>8. Distance \in Nat
    BY EpochAssumption
  <1>9. SealedEpochIndex(h + 1) =
          IF IsLastBlockInEpoch(h + 1) THEN SealedEpochIndex(h) + 1 ELSE SealedEpochIndex(h)
    BY <1>1, <1>2, <1>6, <1>7, <1>8
  <1> QED BY <1>6, <1>9 DEF q, n

\* The sealed epochs are before the one of the tip.
LEMMA SealedBefore ==
  ASSUME NEW h \in Nat
  PROVE  /\ SealedEpochIndex(h) \in Int /\ SealedEpochIndex(h) < EpochIndexFromHeight(h)
         /\ IsDueForEpochSeal(h) <=> IsLastBlockInEpoch(h) /\ SealedEpochIndex(h) >= 0
         /\ IsDueForEpochSeal(h) => EpochIndexFromHeight(h) - Distance = SealedEpochIndex(h)
         /\ SealedEpochIndex(0) < 0
  <1>1. Distance \in Nat /\ Distance >= 1
    BY EpochAssumption
  <1>2. EpochIndexFromHeight(h) \in Nat
    BY EpochOf
  <1>3. EpochIndexFromHeight(0) = 0
    <2>1. FirstHeight(0) <= 0 /\ 0 <= LastHeight(0)
      BY FirstEpoch
    <2> QED BY <2>1, EpochIs
  <1> QED BY <1>1, <1>2, <1>3 DEF SealedEpochIndex, IsDueForEpochSeal

\* The epochs up to the bound on the height.
LEMMA EpochsAre ==
  /\ \A e \in Epochs : e \in Nat /\ e \in Int
  /\ \A h \in 0 .. MaxHeight : EpochIndexFromHeight(h) \in Epochs
  /\ \A h \in 0 .. MaxHeight : \A e \in 0 .. EpochIndexFromHeight(h) : e \in Epochs
  <1> DEFINE M == EpochIndexFromHeight(MaxHeight)
  <1>1. MaxHeight \in Nat
    BY EpochAssumption
  <1>2. M \in Nat /\ MaxHeight <= LastHeight(M)
    BY <1>1, EpochOf
  <1>3. Epochs = 0 .. M
    BY DEF Epochs
  <1> HIDE DEF M
  <1>4. ASSUME NEW h \in 0 .. MaxHeight
        PROVE  EpochIndexFromHeight(h) \in 0 .. M
    <2> DEFINE q == EpochIndexFromHeight(h)
    <2>1. h \in Nat /\ h <= MaxHeight
      BY <1>1
    <2>2. q \in Nat /\ FirstHeight(q) <= h
      BY <2>1, EpochOf
    <2> HIDE DEF q
    <2>3. M < q => LastHeight(M) < FirstHeight(q)
      BY <1>2, <2>2, EpochOrder
    <2>4. LastHeight(M) \in Int /\ FirstHeight(q) \in Int
      BY <1>2, <2>2, EpochHeights
    <2>5. q \in 0 .. M
      BY <1>1, <1>2, <2>1, <2>2, <2>3, <2>4
    <2> QED BY <2>5 DEF q
  <1> QED BY <1>2, <1>3, <1>4
----------------------------------------------------------------------------
(* The state and the randomness that a chain determines. *)

\* One step of ReplayOf, after f.
ReplayStep(bs, f, i) ==
  IF i = 0 THEN Genesis ELSE Apply(f[i - 1], OrNoChange(bs[i].delta))
IsReplay(bs, n, f) == f = [i \in 0 .. n |-> ReplayStep(bs, f, i)]

LEMMA ReplayExists ==
  ASSUME NEW bs, NEW N \in Nat
  PROVE  \E f : IsReplay(bs, N, f)
  <1> DEFINE T == {n \in Nat : ~(\E f : IsReplay(bs, n, f))}
  <1> SUFFICES ASSUME N \in T PROVE FALSE
    OBVIOUS
  <1>1. PICK m \in T : \A n \in T : m <= n
    <2>1. T \subseteq Nat /\ T # {}
      OBVIOUS
    <2> HIDE DEF T
    <2> QED BY <2>1, LeastNumber
  <1>2. CASE m = 0
    <2> DEFINE f == [i \in 0 .. 0 |-> Genesis]
    <2>1. IsReplay(bs, 0, f)
      BY DEF IsReplay, ReplayStep
    <2> QED BY <1>2, <2>1
  <1>3. CASE m # 0
    <2>1. m \in Nat /\ m - 1 \in Nat /\ ~(m <= m - 1)
      BY <1>3
    <2>2. PICK g : IsReplay(bs, m - 1, g)
      BY <1>1, <2>1
    <2> DEFINE f == [i \in 0 .. m |-> ReplayStep(bs, g, i)]
    <2>3. \A i \in 0 .. (m - 1) : g[i] = f[i]
      <3> TAKE i \in 0 .. (m - 1)
      <3>1. g[i] = ReplayStep(bs, g, i) /\ i \in 0 .. m
        BY <2>1, <2>2 DEF IsReplay
      <3> QED BY <3>1
    <2>4. ASSUME NEW i \in 0 .. m
          PROVE  ReplayStep(bs, g, i) = ReplayStep(bs, f, i)
      <3>1. CASE i = 0
        BY <3>1 DEF ReplayStep
      <3>2. CASE i # 0
        <4>1. g[i - 1] = f[i - 1]
          BY <2>1, <2>3, <3>2
        <4> QED BY <3>2, <4>1 DEF ReplayStep
      <3> QED BY <3>1, <3>2
    <2>5. IsReplay(bs, m, f)
      BY <2>4 DEF IsReplay
    <2> QED BY <2>5
  <1> QED BY <1>2, <1>3

\* ReplayOf applies the deltas of the blocks one after the other.
LEMMA ReplayIs ==
  ASSUME NEW bs, Len(bs) \in Nat
  PROVE  /\ ReplayOf(bs, 0) = Genesis
         /\ \A i \in 1 .. Len(bs) :
              ReplayOf(bs, i) = Apply(ReplayOf(bs, i - 1), OrNoChange(bs[i].delta))
  <1> DEFINE f == CHOOSE g : IsReplay(bs, Len(bs), g)
  <1>1. \E g : IsReplay(bs, Len(bs), g)
    BY ReplayExists
  <1>2. IsReplay(bs, Len(bs), f)
    BY <1>1
  <1>3. \A i : ReplayOf(bs, i) = f[i]
    BY DEF ReplayOf, IsReplay, ReplayStep
  <1> HIDE DEF f
  <1>4. \A i \in 0 .. Len(bs) : f[i] = ReplayStep(bs, f, i)
    BY <1>2 DEF IsReplay
  <1>5. f[0] = Genesis
    BY <1>4 DEF ReplayStep
  <1>6. ASSUME NEW i \in 1 .. Len(bs)
        PROVE  f[i] = Apply(f[i - 1], OrNoChange(bs[i].delta))
    <2>1. i \in 0 .. Len(bs) /\ i # 0
      OBVIOUS
    <2> QED BY <1>4, <2>1 DEF ReplayStep
  <1> QED BY <1>3, <1>5, <1>6

\* Later blocks do not matter.
LEMMA ReplayPrefix ==
  ASSUME NEW bs, NEW cs, NEW n \in Nat, Len(bs) \in Nat, Len(cs) \in Nat,
         n <= Len(bs), n <= Len(cs), \A i \in 1 .. n : bs[i] = cs[i]
  PROVE  \A i \in 0 .. n : ReplayOf(bs, i) = ReplayOf(cs, i)
  <1> DEFINE T == {i \in 0 .. n : ReplayOf(bs, i) # ReplayOf(cs, i)}
  <1> SUFFICES ASSUME T # {} PROVE FALSE
    OBVIOUS
  <1>1. PICK m \in T : \A i \in T : m <= i
    <2>1. T \subseteq Nat
      OBVIOUS
    <2> HIDE DEF T
    <2> QED BY <2>1, LeastNumber
  <1>2. ReplayOf(bs, 0) = ReplayOf(cs, 0)
    BY ReplayIs
  <1>3. m \in 1 .. n /\ m - 1 \in 0 .. n /\ ~(m <= m - 1)
    BY <1>1, <1>2
  <1>4. ReplayOf(bs, m - 1) = ReplayOf(cs, m - 1)
    BY <1>1, <1>3
  <1>5. m \in 1 .. Len(bs) /\ m \in 1 .. Len(cs)
    BY <1>3
  <1>6. /\ ReplayOf(bs, m) = Apply(ReplayOf(bs, m - 1), OrNoChange(bs[m].delta))
        /\ ReplayOf(cs, m) = Apply(ReplayOf(cs, m - 1), OrNoChange(cs[m].delta))
    BY <1>5, ReplayIs
  <1>7. bs[m] = cs[m]
    BY <1>3
  <1>8. ReplayOf(bs, m) = ReplayOf(cs, m)
    BY <1>4, <1>6, <1>7
  <1> QED BY <1>1, <1>8

\* One step of RandomnessOf.
RandomnessStep(bs, f, e) ==
  LET s == SealedEpochIndex(LastHeight(e))
  IN IF LastHeight(e) = 0 THEN NoData
     ELSE [seed |-> bs[LastHeight(e)].seed, from |-> IF s < 0 THEN NoData ELSE f[s]]
IsRandomness(bs, n, f) == f = [e \in 0 .. n |-> RandomnessStep(bs, f, e)]

\* Randomness comes from earlier epochs.
LEMMA SealedEarlier ==
  ASSUME NEW e \in Nat
  PROVE  /\ LastHeight(e) \in Nat /\ EpochIndexFromHeight(LastHeight(e)) = e
         /\ SealedEpochIndex(LastHeight(e)) \in Int /\ SealedEpochIndex(LastHeight(e)) < e
  <1>1. /\ LastHeight(e) \in Int /\ FirstHeight(e) \in Int
        /\ FirstHeight(e) <= LastHeight(e)
    BY EpochHeights
  <1>2. 0 <= e => LastHeight(0) <= LastHeight(e)
    BY EpochOrder
  <1>3. LastHeight(e) \in Nat
    BY <1>1, <1>2, FirstEpoch
  <1>4. EpochIndexFromHeight(LastHeight(e)) = e
    BY <1>1, <1>3, EpochIs
  <1> QED BY <1>3, <1>4, SealedBefore

LEMMA RandomnessExists ==
  ASSUME NEW bs, NEW N \in Nat
  PROVE  \E f : IsRandomness(bs, N, f)
  <1> DEFINE T == {n \in Nat : ~(\E f : IsRandomness(bs, n, f))}
  <1> SUFFICES ASSUME N \in T PROVE FALSE
    OBVIOUS
  <1>1. PICK m \in T : \A n \in T : m <= n
    <2>1. T \subseteq Nat /\ T # {}
      OBVIOUS
    <2> HIDE DEF T
    <2> QED BY <2>1, LeastNumber
  <1>2. PICK g : m = 0 \/ IsRandomness(bs, m - 1, g)
    <2>1. CASE m = 0
      BY <2>1
    <2>2. CASE m # 0
      <3>1. m \in Nat /\ m - 1 \in Nat /\ ~(m <= m - 1)
        BY <2>2
      <3> QED BY <1>1, <3>1
    <2> QED BY <2>1, <2>2
  <1> DEFINE f == [e \in 0 .. m |-> RandomnessStep(bs, g, e)]
  <1>3. m \in Nat
    OBVIOUS
  <1>4. ASSUME NEW e \in 0 .. m, e < m
        PROVE  g[e] = f[e]
    <2>1. m # 0 /\ e \in 0 .. (m - 1)
      BY <1>3, <1>4
    <2>2. g[e] = RandomnessStep(bs, g, e)
      BY <1>2, <2>1 DEF IsRandomness
    <2> QED BY <2>2
  <1>5. ASSUME NEW e \in 0 .. m
        PROVE  RandomnessStep(bs, g, e) = RandomnessStep(bs, f, e)
    <2> DEFINE s == SealedEpochIndex(LastHeight(e))
    <2>1. e \in Nat
      BY <1>3
    <2>2. s \in Int /\ s < e
      BY <2>1, SealedEarlier
    <2>3. s >= 0 => s \in 0 .. m /\ s < m
      BY <1>3, <2>2
    <2> HIDE DEF f
    <2>4. s >= 0 => g[s] = f[s]
      BY <1>4, <2>3
    <2>5. (IF s < 0 THEN NoData ELSE g[s]) = (IF s < 0 THEN NoData ELSE f[s])
      BY <2>2, <2>4
    <2> QED BY <2>5 DEF RandomnessStep
  <1>6. IsRandomness(bs, m, f)
    BY <1>5 DEF IsRandomness
  <1> QED BY <1>6

LEMMA RandomnessIs ==
  ASSUME NEW bs, NEW e \in Epochs
  PROVE  LET s == SealedEpochIndex(LastHeight(e))
         IN RandomnessOf(bs, e) =
              IF LastHeight(e) = 0 THEN NoData
              ELSE [seed |-> bs[LastHeight(e)].seed,
                    from |-> IF s < 0 THEN NoData ELSE RandomnessOf(bs, s)]
  <1> DEFINE M == EpochIndexFromHeight(MaxHeight)
             f == CHOOSE g : IsRandomness(bs, M, g)
  <1>1. M \in Nat
    BY EpochAssumption, EpochOf
  <1>2. \E g : IsRandomness(bs, M, g)
    BY <1>1, RandomnessExists
  <1>3. IsRandomness(bs, M, f)
    BY <1>2
  <1>4. \A x : RandomnessOf(bs, x) = f[x]
    BY DEF RandomnessOf, IsRandomness, RandomnessStep, Epochs
  <1>5. e \in 0 .. M
    BY DEF Epochs
  <1> HIDE DEF f, M
  <1>6. f[e] = RandomnessStep(bs, f, e)
    BY <1>3, <1>5 DEF IsRandomness
  <1> QED BY <1>4, <1>6 DEF RandomnessStep

\* Later blocks do not matter.
LEMMA RandomnessPrefix ==
  ASSUME NEW bs, NEW cs, NEW n \in Nat, \A i \in 1 .. n : bs[i] = cs[i]
  PROVE  \A e \in Epochs : LastHeight(e) <= n => RandomnessOf(bs, e) = RandomnessOf(cs, e)
  <1> DEFINE T == {e \in Epochs : LastHeight(e) <= n /\ RandomnessOf(bs, e) # RandomnessOf(cs, e)}
  <1> SUFFICES ASSUME T # {} PROVE FALSE
    OBVIOUS
  <1>1. PICK m \in T : \A e \in T : m <= e
    <2>1. T \subseteq Nat
      BY EpochsAre
    <2> HIDE DEF T
    <2> QED BY <2>1, LeastNumber
  <1> DEFINE h == LastHeight(m)
             s == SealedEpochIndex(h)
  <1>2. m \in Epochs /\ m \in Nat /\ h <= n /\ RandomnessOf(bs, m) # RandomnessOf(cs, m)
    BY <1>1, EpochsAre
  <1>3. h \in Nat /\ s \in Int /\ s < m
    BY <1>2, SealedEarlier
  <1>4. /\ RandomnessOf(bs, m) = IF h = 0 THEN NoData
              ELSE [seed |-> bs[h].seed, from |-> IF s < 0 THEN NoData ELSE RandomnessOf(bs, s)]
        /\ RandomnessOf(cs, m) = IF h = 0 THEN NoData
              ELSE [seed |-> cs[h].seed, from |-> IF s < 0 THEN NoData ELSE RandomnessOf(cs, s)]
    BY <1>2, RandomnessIs
  <1>5. h # 0 => bs[h] = cs[h]
    BY <1>2, <1>3
  <1>6. s >= 0 => RandomnessOf(bs, s) = RandomnessOf(cs, s)
    <2> SUFFICES ASSUME s >= 0 PROVE RandomnessOf(bs, s) = RandomnessOf(cs, s)
      OBVIOUS
    <2>1. s \in Epochs
      <3>1. MaxHeight \in Nat
        BY EpochAssumption
      <3>2. EpochIndexFromHeight(MaxHeight) \in Nat
        BY <3>1, EpochOf
      <3> QED BY <1>2, <1>3, <3>2 DEF Epochs
    <2>2. LastHeight(s) <= n
      <3>1. LastHeight(s) <= LastHeight(m)
        BY <1>2, <1>3, EpochOrder
      <3>2. LastHeight(s) \in Int
        BY <1>3, EpochHeights
      <3> QED BY <1>2, <1>3, <3>1, <3>2
    <2>3. ~(m <= s)
      BY <1>2, <1>3
    <2>4. s \notin T
      BY <1>1, <2>3
    <2> QED BY <2>1, <2>2, <2>4
  <1> HIDE DEF h, s
  <1>7. (IF s < 0 THEN NoData ELSE RandomnessOf(bs, s)) = (IF s < 0 THEN NoData ELSE RandomnessOf(cs, s))
    BY <1>3, <1>6
  <1> QED BY <1>2, <1>4, <1>5, <1>7
----------------------------------------------------------------------------
(* What deltas lead to. *)

Vals == Values \cup {NoData}
SealState == StateSet(AccountKeys, Vals, BalanceKeys)

\* The delta d leads from s to t.
Leads(s, d, t) == d \in SealDeltas /\ Matches(s, d) /\ Apply(s, d) = t

LEMMA SealTypes ==
  /\ SealDeltas = DeltaSet(AccountKeys, Vals, BalanceKeys)
  /\ \A s \in SealStates : s \in SealState
  /\ NoData \notin SealDeltas
  <1>1. SealDeltas = DeltaSet(AccountKeys, Vals, BalanceKeys)
    BY DEF SealDeltas, DeltaSet, DataDeltas, Vals
  <1>2. NoData \notin SealDeltas
    BY EpochAssumption
  <1>3. \A s \in SealStates : s \in SealState
    <2>1. MaxAmount \in Nat
      BY EpochAssumption
    <2> QED BY <2>1 DEF SealStates, SealState, StateSet, Vals
  <1> QED BY <1>1, <1>2, <1>3

LEMMA LeadsApplies ==
  ASSUME NEW s \in SealState, NEW t \in SealStates, NEW d, Leads(s, d, t)
  PROVE  Applies(s, d)
  <1>1. d \in DeltaSet(AccountKeys, Vals, BalanceKeys) /\ Matches(s, d) /\ Apply(s, d) = t
    BY SealTypes DEF Leads
  <1>2. \A k \in BalanceKeys : t.amounts[k] = s.amounts[k] + d.amounts[k]
    BY <1>1, ApplyType DEF SealState
  <1>3. \A k \in BalanceKeys : t.amounts[k] >= 0
    <2>1. MaxAmount \in Nat
      BY EpochAssumption
    <2> QED BY <2>1 DEF SealStates
  <1>4. DOMAIN s.amounts = BalanceKeys
    BY DEF SealState, StateSet
  <1> QED BY <1>1, <1>2, <1>3, <1>4 DEF Applies, Matches, DataMatches

LEMMA LeadsOn ==
  ASSUME NEW s \in SealState, NEW t, NEW u, NEW c, NEW d, Leads(s, c, t), Leads(t, d, u)
  PROVE  Leads(s, Merge(c, d), u) /\ Mergeable(c, d)
  <1>1. /\ c \in DeltaSet(AccountKeys, Vals, BalanceKeys) /\ Matches(s, c) /\ Apply(s, c) = t
        /\ d \in DeltaSet(AccountKeys, Vals, BalanceKeys) /\ Matches(t, d) /\ Apply(t, d) = u
    BY SealTypes DEF Leads
  <1>2. /\ Merge(c, d) \in DeltaSet(AccountKeys, Vals, BalanceKeys)
        /\ Mergeable(c, d) /\ Matches(s, Merge(c, d))
        /\ Apply(s, Merge(c, d)) = u
    BY <1>1, MergeIsApplyBoth DEF SealState
  <1> QED BY <1>2, SealTypes DEF Leads

LEMMA LeadsBack ==
  ASSUME NEW s \in SealState, NEW t, NEW d, Leads(s, d, t)
  PROVE  Leads(t, InvertAll(d), s)
  <1>1. d \in DeltaSet(AccountKeys, Vals, BalanceKeys) /\ Matches(s, d) /\ Apply(s, d) = t
    BY SealTypes DEF Leads
  <1>2. /\ InvertAll(d) \in DeltaSet(AccountKeys, Vals, BalanceKeys)
        /\ Matches(t, InvertAll(d)) /\ Apply(t, InvertAll(d)) = s
    BY <1>1, InverseTakesBack DEF SealState
  <1> QED BY <1>2, SealTypes DEF Leads

LEMMA LeadsNowhere ==
  ASSUME NEW s \in SealState
  PROVE  Leads(s, NoChange(BalanceKeys), s)
  <1> DEFINE d == NoChange(BalanceKeys)
             K == {}
  <1>1. d = [data |-> [k \in {} |-> NoData], amounts |-> [k \in BalanceKeys |-> 0]]
    BY DEF NoChange
  <1>2. d \in DeltaSet(AccountKeys, Vals, BalanceKeys)
    <2>1. [k \in {} |-> NoData] \in [{} -> [old : Vals, new : Vals]]
      OBVIOUS
    <2>2. {} \in SUBSET AccountKeys
      OBVIOUS
    <2>3. [k \in {} |-> NoData] \in DataDeltas(AccountKeys, Vals)
      BY <2>1, <2>2, Zenon DEF DataDeltas
    <2>4. [k \in BalanceKeys |-> 0] \in [BalanceKeys -> Int]
      OBVIOUS
    <2> QED BY <1>1, <2>3, <2>4 DEF DeltaSet
  <1>3. DOMAIN d.data = {} /\ \A k \in BalanceKeys : d.amounts[k] = 0
    BY <1>1
  <1> HIDE DEF d
  <1>4. Matches(s, d)
    BY <1>3 DEF Matches
  <1>5. Apply(s, d) = s
    <2> DEFINE t == Apply(s, d)
    <2>1. /\ t \in StateSet(AccountKeys, Vals, BalanceKeys)
          /\ s \in StateSet(AccountKeys, Vals, BalanceKeys)
          /\ \A k \in AccountKeys : t.data[k] = s.data[k]
          /\ \A k \in BalanceKeys : t.amounts[k] = s.amounts[k] + d.amounts[k]
      BY <1>2, <1>3, ApplyType DEF SealState
    <2> HIDE DEF t
    <2>2. \A k \in BalanceKeys : s.amounts[k] \in Int
      BY <2>1 DEF StateSet
    <2>3. \A k \in BalanceKeys : t.amounts[k] = s.amounts[k]
      BY <1>3, <2>1, <2>2
    <2>4. t = s
      BY <2>1, <2>3, SameState
    <2> QED BY <2>4 DEF t
  <1> QED BY <1>2, <1>4, <1>5, SealTypes DEF Leads, d

\* OrNoChange of what is stored is a delta.
LEMMA Stored ==
  /\ \A d \in SealDeltas : OrNoChange(d) = d /\ d # NoData
  /\ OrNoChange(NoData) = NoChange(BalanceKeys)
  BY SealTypes DEF OrNoChange
----------------------------------------------------------------------------
(* The main chain. *)

BlockType == [delta : SealDeltas \cup {NoData}, seed : Seeds]

\* Blocks that lead from one state to the next, and to t in the end.
ChainHolds(bs, t) ==
  /\ bs \in Seq(BlockType) /\ Len(bs) <= MaxHeight
  /\ \A h \in 0 .. Len(bs) : ReplayOf(bs, h) \in SealStates
  /\ \A h \in 1 .. Len(bs) : Leads(ReplayOf(bs, h - 1), OrNoChange(bs[h].delta), ReplayOf(bs, h))
  /\ t = ReplayOf(bs, Len(bs))

\* cs is bs with one block more.
Longer(bs, cs) ==
  /\ Len(bs) \in Nat /\ Len(cs) = Len(bs) + 1 /\ Len(cs) \in 1 .. MaxHeight
  /\ \A i \in 1 .. Len(bs) : cs[i] = bs[i]
  /\ \A h \in 0 .. Len(bs) : ReplayOf(cs, h) = ReplayOf(bs, h) /\ ReplayOf(cs, h) \in SealStates

\* cs is bs and a block.
Extended(bs, delta, seed, cs) == cs = Append(bs, [delta |-> delta, seed |-> seed])

LEMMA ChainGrows ==
  ASSUME NEW bs, NEW t, ChainHolds(bs, t), Len(bs) < MaxHeight,
         NEW delta \in SealDeltas \cup {NoData}, NEW seed \in Seeds,
         NEW u \in SealStates, Leads(t, OrNoChange(delta), u),
         NEW cs, Extended(bs, delta, seed, cs)
  PROVE  /\ ChainHolds(cs, u) /\ Longer(bs, cs)
         /\ cs[Len(cs)] = [delta |-> delta, seed |-> seed]
  <1> USE DEF Extended
  <1> DEFINE n == Len(bs)
             b == [delta |-> delta, seed |-> seed]
  <1>1. bs \in Seq(BlockType) /\ n \in Nat /\ MaxHeight \in Nat /\ b \in BlockType
    BY EpochAssumption DEF ChainHolds, BlockType
  <1> HIDE DEF b
  <1>2. /\ cs \in Seq(BlockType) /\ Len(cs) = n + 1 /\ n + 1 \in Nat
        /\ cs[n + 1] = b /\ \A i \in 1 .. n : cs[i] = bs[i]
    BY <1>1 DEF b
  <1>3. \A h \in 0 .. n : ReplayOf(cs, h) = ReplayOf(bs, h)
    <2>1. n <= Len(bs) /\ n <= Len(cs) /\ Len(cs) \in Nat
      BY <1>1, <1>2
    <2> QED BY <1>1, <1>2, <2>1, ReplayPrefix
  <1>4. ReplayOf(cs, n + 1) = u
    <2>1. n + 1 \in 1 .. Len(cs) /\ Len(cs) \in Nat /\ (n + 1) - 1 = n /\ n \in 0 .. n
      BY <1>1, <1>2
    <2>2. ReplayOf(cs, n + 1) = Apply(ReplayOf(cs, (n + 1) - 1), OrNoChange(cs[n + 1].delta))
      BY <2>1, ReplayIs
    <2>3. ReplayOf(cs, n) = t
      BY <1>3, <2>1 DEF ChainHolds
    <2>4. cs[n + 1].delta = delta
      BY <1>2 DEF b
    <2> QED BY <2>1, <2>2, <2>3, <2>4 DEF Leads
  <1>5. ASSUME NEW h \in 0 .. (n + 1)
        PROVE  ReplayOf(cs, h) \in SealStates
    <2>1. h \in 0 .. n \/ h = n + 1
      BY <1>1
    <2> QED BY <1>3, <1>4, <2>1 DEF ChainHolds
  <1>6. ASSUME NEW h \in 1 .. (n + 1)
        PROVE  Leads(ReplayOf(cs, h - 1), OrNoChange(cs[h].delta), ReplayOf(cs, h))
    <2>1. CASE h = n + 1
      <3>1. h - 1 = n /\ n \in 0 .. n
        BY <1>1, <2>1
      <3>2. ReplayOf(cs, h - 1) = t
        BY <1>3, <3>1 DEF ChainHolds
      <3>3. cs[h].delta = delta
        BY <1>2, <2>1 DEF b
      <3> QED BY <1>4, <2>1, <3>2, <3>3
    <2>2. CASE h # n + 1
      <3>1. h \in 1 .. n /\ h \in 0 .. n /\ h - 1 \in 0 .. n
        BY <1>1, <2>2
      <3>2. Leads(ReplayOf(bs, h - 1), OrNoChange(bs[h].delta), ReplayOf(bs, h))
        BY <3>1 DEF ChainHolds
      <3>3. ReplayOf(cs, h - 1) = ReplayOf(bs, h - 1) /\ ReplayOf(cs, h) = ReplayOf(bs, h) /\ cs[h] = bs[h]
        BY <1>2, <1>3, <3>1
      <3> QED BY <3>2, <3>3
    <2> QED BY <2>1, <2>2
  <1>7. n + 1 <= MaxHeight /\ n + 1 \in 1 .. MaxHeight
    BY <1>1
  <1>8. ChainHolds(cs, u)
    BY <1>2, <1>4, <1>5, <1>6, <1>7 DEF ChainHolds
  <1>9. Longer(bs, cs)
    <2>1. \A h \in 0 .. n : h \in 0 .. (n + 1)
      BY <1>1
    <2> QED BY <1>1, <1>2, <1>3, <1>5, <1>7, <2>1 DEF Longer
  <1> QED BY <1>2, <1>8, <1>9 DEF b

LEMMA ChainShrinks ==
  ASSUME NEW bs, NEW t, ChainHolds(bs, t), bs # <<>>, NEW cs, cs = Front(bs)
  PROVE  /\ ChainHolds(cs, ReplayOf(bs, Len(cs))) /\ Longer(cs, bs)
         /\ Last(bs) = bs[Len(bs)] /\ bs[Len(bs)] \in BlockType
         /\ Leads(ReplayOf(bs, Len(cs)), OrNoChange(bs[Len(bs)].delta), t)
  <1> DEFINE n == Len(bs)
             m == n - 1
  <1>1. bs \in Seq(BlockType) /\ n \in Nat /\ MaxHeight \in Nat /\ n <= MaxHeight
    BY EpochAssumption DEF ChainHolds
  <1>2. n # 0 /\ n \in 1 .. n /\ m \in Nat /\ m + 1 = n
    BY <1>1
  <1>3. cs = [i \in 1 .. m |-> bs[i]]
    BY <1>2 DEF Front, SubSeq
  <1>4. \A i \in 1 .. m : bs[i] \in BlockType /\ i \in 1 .. n
    BY <1>1, <1>2
  <1> HIDE DEF m
  <1>5. cs \in Seq(BlockType) /\ Len(cs) = m /\ \A i \in 1 .. m : cs[i] = bs[i]
    BY <1>2, <1>3, <1>4
  <1>6. \A h \in 0 .. m : ReplayOf(cs, h) = ReplayOf(bs, h)
    <2>1. m <= Len(bs) /\ m <= Len(cs) /\ Len(cs) \in Nat
      BY <1>1, <1>2, <1>5
    <2> QED BY <1>1, <1>2, <1>5, <2>1, ReplayPrefix
  <1>7. ASSUME NEW h \in 0 .. m
        PROVE  ReplayOf(bs, h) \in SealStates
    <2>1. h \in 0 .. n
      BY <1>1, <1>2
    <2> QED BY <2>1 DEF ChainHolds
  <1>8. ASSUME NEW h \in 1 .. m
        PROVE  Leads(ReplayOf(cs, h - 1), OrNoChange(cs[h].delta), ReplayOf(cs, h))
    <2>1. h \in 1 .. n /\ h \in 0 .. m /\ h - 1 \in 0 .. m
      BY <1>1, <1>2
    <2>2. Leads(ReplayOf(bs, h - 1), OrNoChange(bs[h].delta), ReplayOf(bs, h))
      BY <2>1 DEF ChainHolds
    <2>3. ReplayOf(cs, h - 1) = ReplayOf(bs, h - 1) /\ ReplayOf(cs, h) = ReplayOf(bs, h) /\ cs[h] = bs[h]
      BY <1>5, <1>6, <2>1
    <2> QED BY <2>2, <2>3
  <1>9. m \in 0 .. m /\ m <= MaxHeight /\ n \in 1 .. MaxHeight
    BY <1>1, <1>2
  <1>10. ChainHolds(cs, ReplayOf(bs, m))
    BY <1>5, <1>6, <1>7, <1>8, <1>9 DEF ChainHolds
  <1>11. Longer(cs, bs)
    BY <1>2, <1>5, <1>6, <1>7, <1>9 DEF Longer
  <1>12. Last(bs) = bs[n] /\ bs[n] \in BlockType
    BY <1>1, <1>2 DEF Last
  <1>13. Leads(ReplayOf(bs, n - 1), OrNoChange(bs[n].delta), t)
    BY <1>2 DEF ChainHolds
  <1>14. n - 1 = m
    BY DEF m
  <1> QED BY <1>5, <1>10, <1>11, <1>12, <1>13, <1>14
----------------------------------------------------------------------------
(* The deltas of epochs. *)

\* The two differ in e only.
SameBut(e, new, old) == \A f \in Epochs \ {e} : new[f] = old[f]

\* The height before an epoch, of genesis for the first one.
Before(e) == Larger(FirstHeight(e) - 1, 0)

DeltasHold(bs, ed) ==
  /\ ed \in [Epochs -> SealDeltas \cup {NoData}]
  /\ \A e \in Epochs :
       IF e > EpochIndexFromHeight(Len(bs)) THEN ed[e] = NoData
       ELSE Leads(ReplayOf(bs, Before(e)), OrNoChange(ed[e]),
                  ReplayOf(bs, Smaller(LastHeight(e), Len(bs))))

LEMMA BeforeIs ==
  ASSUME NEW h \in Nat, NEW e \in Nat
  PROVE  /\ e <= EpochIndexFromHeight(h + 1) => Before(e) \in 0 .. h
         /\ e < EpochIndexFromHeight(h) => LastHeight(e) \in 0 .. (h - 1) /\ Smaller(LastHeight(e), h) = LastHeight(e)
         /\ e = EpochIndexFromHeight(h) => Smaller(LastHeight(e), h) = h
         /\ Before(e + 1) = LastHeight(e)
  <1> DEFINE q == EpochIndexFromHeight(h + 1)
             p == EpochIndexFromHeight(h)
  <1>1. q \in Nat /\ FirstHeight(q) <= h + 1 /\ p \in Nat /\ FirstHeight(p) <= h /\ h <= LastHeight(p)
    <2>1. h + 1 \in Nat
      OBVIOUS
    <2> QED BY <2>1, EpochOf
  <1>2. e < p => LastHeight(e) < h
    BY EpochCompare
  <1>3. LastHeight(e) \in Nat /\ FirstHeight(e) \in Int /\ LastHeight(e) = FirstHeight(e + 1) - 1
    BY EpochHeights, SealedEarlier
  <1> HIDE DEF q, p
  <1>4. e <= q => FirstHeight(e) <= FirstHeight(q)
    BY <1>1, EpochOrder
  <1>5. FirstHeight(q) \in Int /\ LastHeight(p) \in Int
    BY <1>1, EpochHeights
  <1>6. e <= q => Before(e) \in 0 .. h
    BY <1>1, <1>3, <1>4, <1>5 DEF Before, Larger
  <1>7. e < p => LastHeight(e) \in 0 .. (h - 1) /\ Smaller(LastHeight(e), h) = LastHeight(e)
    BY <1>2, <1>3 DEF Smaller
  <1>8. e = p => Smaller(LastHeight(e), h) = h
    BY <1>1, <1>5 DEF Smaller
  <1>9. Before(e + 1) = LastHeight(e)
    BY <1>3 DEF Before, Larger
  <1> QED BY <1>6, <1>7, <1>8, <1>9 DEF p, q

\* The epoch of the next block, before the block.
LEMMA CurrentDelta ==
  ASSUME NEW bs, NEW cs, NEW ed, Longer(bs, cs), DeltasHold(bs, ed)
  PROVE  LET e == EpochIndexFromHeight(Len(cs))
         IN /\ e \in Epochs /\ Before(e) \in 0 .. Len(bs)
            /\ Leads(ReplayOf(cs, Before(e)), OrNoChange(ed[e]), ReplayOf(cs, Len(bs)))
  <1> DEFINE n == Len(bs)
             e == EpochIndexFromHeight(Len(cs))
             p == EpochIndexFromHeight(n)
  <1>1. n \in Nat /\ Len(cs) = n + 1 /\ n + 1 \in 0 .. MaxHeight /\ n + 1 \in Nat
    BY DEF Longer
  <1>2. e \in Epochs /\ e \in Nat
    BY <1>1, EpochsAre
  <1>3. e = IF IsLastBlockInEpoch(n) THEN p + 1 ELSE p
    BY <1>1, NextHeight
  <1>4. p \in Nat /\ (IsLastBlockInEpoch(n) <=> n = LastHeight(p))
    BY <1>1, EpochOf, LastIs
  <1>5. Before(e) \in 0 .. n /\ n \in 0 .. n
    <2>1. e <= EpochIndexFromHeight(n + 1)
      BY <1>1, <1>2
    <2> QED BY <1>1, <1>2, <2>1, BeforeIs
  <1>6. /\ ReplayOf(cs, Before(e)) = ReplayOf(bs, Before(e))
        /\ ReplayOf(cs, n) = ReplayOf(bs, n) /\ ReplayOf(cs, n) \in SealStates
    BY <1>5 DEF Longer
  <1> HIDE DEF e, p
  <1>7. CASE IsLastBlockInEpoch(n)
    <2>1. e > p /\ Before(e) = n
      BY <1>1, <1>3, <1>4, <1>7, BeforeIs
    <2>2. ed[e] = NoData
      BY <1>2, <2>1 DEF DeltasHold, p
    <2>3. ReplayOf(cs, n) \in SealState
      BY <1>6, SealTypes
    <2> QED BY <1>2, <1>5, <2>1, <2>2, <2>3, LeadsNowhere, Stored DEF e
  <1>8. CASE ~IsLastBlockInEpoch(n)
    <2>1. e = p /\ ~(e > p)
      BY <1>3, <1>4, <1>8
    <2>2. Smaller(LastHeight(e), n) = n
      BY <1>1, <1>2, <2>1, BeforeIs DEF p
    <2>3. Leads(ReplayOf(bs, Before(e)), OrNoChange(ed[e]), ReplayOf(bs, Smaller(LastHeight(e), n)))
      BY <1>2, <2>1 DEF DeltasHold, p
    <2> QED BY <1>2, <1>5, <1>6, <2>2, <2>3 DEF e
  <1> QED BY <1>7, <1>8

\* An epoch before that of the last block.
LEMMA EarlierDelta ==
  ASSUME NEW bs, NEW cs, Longer(bs, cs), NEW f \in Nat,
         f < EpochIndexFromHeight(Len(cs))
  PROVE  LET n == Len(bs)
         IN /\ f <= EpochIndexFromHeight(n)
            /\ ReplayOf(cs, Before(f)) = ReplayOf(bs, Before(f))
            /\ ReplayOf(cs, Smaller(LastHeight(f), n + 1)) = ReplayOf(bs, Smaller(LastHeight(f), n))
            /\ LastHeight(f) \in 0 .. n
            /\ ReplayOf(cs, LastHeight(f)) = ReplayOf(bs, LastHeight(f))
  <1> DEFINE n == Len(bs)
             e == EpochIndexFromHeight(n + 1)
             p == EpochIndexFromHeight(n)
  <1>1. n \in Nat /\ Len(cs) = n + 1 /\ n + 1 \in Nat
    BY DEF Longer
  <1>2. e = (IF IsLastBlockInEpoch(n) THEN p + 1 ELSE p) /\ p \in Nat
    BY <1>1, NextHeight, EpochOf
  <1>3. f <= p /\ f <= e
    BY <1>1, <1>2
  <1>4. Before(f) \in 0 .. n
    BY <1>1, <1>3, BeforeIs
  <1>5. LastHeight(f) \in 0 .. ((n + 1) - 1) /\ Smaller(LastHeight(f), n + 1) = LastHeight(f)
    BY <1>1, BeforeIs
  <1>6. LastHeight(f) \in 0 .. n /\ Smaller(LastHeight(f), n) = LastHeight(f)
    BY <1>1, <1>5 DEF Smaller
  <1> HIDE DEF p, e
  <1>7. /\ ReplayOf(cs, Before(f)) = ReplayOf(bs, Before(f))
        /\ ReplayOf(cs, LastHeight(f)) = ReplayOf(bs, LastHeight(f))
    BY <1>4, <1>6 DEF Longer
  <1> QED BY <1>3, <1>5, <1>6, <1>7 DEF p

\* A block that is connected leads the delta of its epoch to the new tip.
LEMMA DeltasGrow ==
  ASSUME NEW bs, NEW cs, NEW ed, Longer(bs, cs), DeltasHold(bs, ed),
         NEW new \in [Epochs -> SealDeltas \cup {NoData}],
         NEW e, e = EpochIndexFromHeight(Len(cs)),
         \A f \in Epochs \ {e} : new[f] = ed[f],
         Leads(ReplayOf(cs, Before(e)), OrNoChange(new[e]), ReplayOf(cs, Len(cs)))
  PROVE  DeltasHold(cs, new)
  <1> DEFINE n == Len(bs)
             p == EpochIndexFromHeight(n)
  <1>1. n \in Nat /\ Len(cs) = n + 1 /\ n + 1 \in 0 .. MaxHeight /\ n + 1 \in Nat
    BY DEF Longer
  <1>2. e \in Nat /\ Smaller(LastHeight(e), n + 1) = n + 1
    BY <1>1, EpochOf, BeforeIs
  <1>3. e = (IF IsLastBlockInEpoch(n) THEN p + 1 ELSE p) /\ p \in Nat
    BY <1>1, NextHeight, EpochOf
  <1> SUFFICES ASSUME NEW f \in Epochs
               PROVE  IF f > e THEN new[f] = NoData
                      ELSE Leads(ReplayOf(cs, Before(f)), OrNoChange(new[f]),
                                 ReplayOf(cs, Smaller(LastHeight(f), n + 1)))
    BY <1>1 DEF DeltasHold
  <1>4. f \in Nat
    BY EpochsAre
  <1>5. CASE f > e
    <2>1. f > p /\ f # e
      BY <1>2, <1>3, <1>4, <1>5
    <2>2. ed[f] = NoData
      BY <2>1 DEF DeltasHold
    <2> QED BY <1>5, <2>1, <2>2
  <1>6. CASE f = e
    BY <1>1, <1>2, <1>6
  <1>7. CASE f < e
    <2>1. /\ f <= p
          /\ ReplayOf(cs, Before(f)) = ReplayOf(bs, Before(f))
          /\ ReplayOf(cs, Smaller(LastHeight(f), n + 1)) = ReplayOf(bs, Smaller(LastHeight(f), n))
      BY <1>4, <1>7, EarlierDelta
    <2>2. ~(f > p) /\ ~(f > e) /\ f # e
      BY <1>2, <1>3, <1>4, <1>7, <2>1
    <2>3. Leads(ReplayOf(bs, Before(f)), OrNoChange(ed[f]), ReplayOf(bs, Smaller(LastHeight(f), n)))
      BY <2>2 DEF DeltasHold
    <2> QED BY <2>1, <2>2, <2>3
  <1> QED BY <1>2, <1>4, <1>5, <1>6, <1>7

\* A block that is disconnected leads it back, unless there is none left in the epoch.
LedBack(bs, cs, new, e) ==
  IF IsLastBlockInEpoch(Len(bs)) THEN new[e] = NoData
  ELSE Leads(ReplayOf(cs, Before(e)), OrNoChange(new[e]), ReplayOf(cs, Len(bs)))

LEMMA DeltasShrink ==
  ASSUME NEW bs, NEW cs, NEW ed, Longer(bs, cs), DeltasHold(cs, ed),
         NEW new \in [Epochs -> SealDeltas \cup {NoData}],
         NEW e, e = EpochIndexFromHeight(Len(cs)), SameBut(e, new, ed), LedBack(bs, cs, new, e)
  PROVE  DeltasHold(bs, new)
  <1> USE DEF SameBut, LedBack
  <1> DEFINE n == Len(bs)
             p == EpochIndexFromHeight(n)
  <1>1. n \in Nat /\ Len(cs) = n + 1 /\ n + 1 \in 0 .. MaxHeight /\ n + 1 \in Nat
    BY DEF Longer
  <1>2. e \in Nat /\ e \in Epochs
    BY <1>1, EpochsAre
  <1>3. e = (IF IsLastBlockInEpoch(n) THEN p + 1 ELSE p) /\ p \in Nat
    BY <1>1, NextHeight, EpochOf
  <1> SUFFICES ASSUME NEW f \in Epochs
               PROVE  IF f > p THEN new[f] = NoData
                      ELSE Leads(ReplayOf(bs, Before(f)), OrNoChange(new[f]),
                                 ReplayOf(bs, Smaller(LastHeight(f), n)))
    BY DEF DeltasHold
  <1>4. f \in Nat
    BY EpochsAre
  <1>5. CASE f > e
    <2>1. f > p /\ f # e
      BY <1>2, <1>3, <1>4, <1>5
    <2>2. ed[f] = NoData
      BY <1>5 DEF DeltasHold
    <2> QED BY <2>1, <2>2
  <1>6. CASE f = e /\ IsLastBlockInEpoch(n)
    BY <1>2, <1>3, <1>6
  <1>7. CASE f = e /\ ~IsLastBlockInEpoch(n)
    <2>1. f = p /\ ~(f > p)
      BY <1>3, <1>7
    <2>2. Smaller(LastHeight(f), n) = n
      BY <1>1, <1>4, <2>1, BeforeIs
    <2>3. f <= EpochIndexFromHeight(n + 1)
      BY <1>1, <1>2, <1>7
    <2>4. Before(f) \in 0 .. n /\ n \in 0 .. n
      BY <1>1, <1>4, <2>3, BeforeIs
    <2>5. ReplayOf(cs, Before(f)) = ReplayOf(bs, Before(f)) /\ ReplayOf(cs, n) = ReplayOf(bs, n)
      BY <2>4 DEF Longer
    <2> QED BY <1>7, <2>1, <2>2, <2>5
  <1>8. CASE f < e
    <2>1. /\ f <= p
          /\ ReplayOf(cs, Before(f)) = ReplayOf(bs, Before(f))
          /\ ReplayOf(cs, Smaller(LastHeight(f), n + 1)) = ReplayOf(bs, Smaller(LastHeight(f), n))
      BY <1>4, <1>8, EarlierDelta
    <2>2. ~(f > p) /\ ~(f > e) /\ f # e
      BY <1>2, <1>3, <1>4, <1>8, <2>1
    <2>3. Leads(ReplayOf(cs, Before(f)), OrNoChange(ed[f]), ReplayOf(cs, Smaller(LastHeight(f), n + 1)))
      BY <1>1, <2>2 DEF DeltasHold
    <2> QED BY <2>1, <2>2, <2>3
  <1> QED BY <1>2, <1>4, <1>5, <1>6, <1>7, <1>8
----------------------------------------------------------------------------
(* The seal. *)

SealedHolds(bs, s) == s = ReplayOf(bs, Larger(LastHeight(SealedEpochIndex(Len(bs))), 0))

\* What the last block of cs seals, if anything, and what its disconnection takes back.
SealMoves(bs, cs, ed) ==
  LET n == Len(cs)
      e == SealedEpochIndex(n)
      X == ReplayOf(cs, Before(e))
      Y == ReplayOf(cs, LastHeight(e))
  IN IF IsDueForEpochSeal(n)
     THEN /\ e \in Epochs /\ e < EpochIndexFromHeight(n)
          /\ X \in SealStates /\ Y \in SealStates
          /\ Leads(X, OrNoChange(ed[e]), Y)
          /\ \A x : SealedHolds(bs, x) <=> x = X
          /\ \A x : SealedHolds(cs, x) <=> x = Y
     ELSE \A x : SealedHolds(bs, x) <=> SealedHolds(cs, x)

LEMMA SealStep ==
  ASSUME NEW bs, NEW cs, Longer(bs, cs), NEW ed, DeltasHold(cs, ed)
  PROVE  SealMoves(bs, cs, ed)
  <1> USE DEF SealMoves
  <1> DEFINE m == Len(bs)
             n == Len(cs)
             e == SealedEpochIndex(n)
             s == SealedEpochIndex(m)
             E == EpochIndexFromHeight(n)
  <1>1. m \in Nat /\ n = m + 1 /\ n \in 0 .. MaxHeight /\ n \in Nat
    BY DEF Longer
  <1>2. e = IF IsLastBlockInEpoch(n) THEN s + 1 ELSE s
    BY <1>1, NextHeight
  <1>3. e \in Int /\ s \in Int /\ e < E /\ E \in Nat /\ E \in Epochs
    BY <1>1, SealedBefore, EpochsAre
  <1>4. IsDueForEpochSeal(n) <=> IsLastBlockInEpoch(n) /\ e >= 0
    BY <1>1, SealedBefore
  <1>5. /\ \A x : SealedHolds(bs, x) <=> x = ReplayOf(bs, Larger(LastHeight(s), 0))
        /\ \A x : SealedHolds(cs, x) <=> x = ReplayOf(cs, Larger(LastHeight(e), 0))
    BY DEF SealedHolds
  <1>6. ASSUME NEW x \in Int, x < 0
        PROVE  Larger(LastHeight(x), 0) = 0
    <2>1. LastHeight(x) < FirstHeight(0) /\ LastHeight(x) \in Int
      BY <1>6, EpochOrder, EpochHeights
    <2> QED BY <2>1, FirstEpoch DEF Larger
  <1>7. ASSUME e >= 0
        PROVE  /\ e \in Nat /\ e \in Epochs
               /\ LastHeight(e) \in 0 .. m /\ Larger(LastHeight(e), 0) = LastHeight(e)
               /\ ReplayOf(cs, LastHeight(e)) = ReplayOf(bs, LastHeight(e))
               /\ ReplayOf(cs, LastHeight(e)) \in SealStates
    <2>1. e \in Nat /\ e \in 0 .. E
      BY <1>3, <1>7
    <2>2. e \in Epochs
      BY <1>1, <2>1, EpochsAre
    <2>3. LastHeight(e) \in 0 .. m /\ ReplayOf(cs, LastHeight(e)) = ReplayOf(bs, LastHeight(e))
      BY <1>3, <2>1, EarlierDelta
    <2>4. ReplayOf(cs, LastHeight(e)) \in SealStates
      BY <2>3 DEF Longer
    <2>5. Larger(LastHeight(e), 0) = LastHeight(e)
      BY <2>3 DEF Larger
    <2> QED BY <2>1, <2>2, <2>3, <2>4, <2>5
  <1> HIDE DEF e, s, E, n, m
  <1>8. CASE IsDueForEpochSeal(n)
    <2>1. e >= 0 /\ s = e - 1
      BY <1>2, <1>3, <1>4, <1>8
    <2>2. Larger(LastHeight(s), 0) = Before(e)
      <3>1. LastHeight(s) = FirstHeight(s + 1) - 1 /\ s + 1 = e
        BY <1>3, <2>1, EpochHeights
      <3> QED BY <3>1 DEF Before
    <2>3. Before(e) \in 0 .. m
      <3>1. e <= EpochIndexFromHeight(m + 1)
        BY <1>1, <1>3 DEF E
      <3> QED BY <1>1, <1>7, <2>1, <3>1, BeforeIs
    <2>4. ReplayOf(cs, Before(e)) = ReplayOf(bs, Before(e)) /\ ReplayOf(cs, Before(e)) \in SealStates
      BY <2>3 DEF Longer, m
    <2>5. Smaller(LastHeight(e), n) = LastHeight(e)
      BY <1>1, <1>3, <1>7, <2>1, BeforeIs DEF E
    <2>6. ~(e > EpochIndexFromHeight(Len(cs)))
      BY <1>3 DEF E, n
    <2>7. Leads(ReplayOf(cs, Before(e)), OrNoChange(ed[e]), ReplayOf(cs, Smaller(LastHeight(e), Len(cs))))
      BY <1>7, <2>1, <2>6 DEF DeltasHold
    <2>8. Leads(ReplayOf(cs, Before(e)), OrNoChange(ed[e]), ReplayOf(cs, LastHeight(e)))
      BY <2>5, <2>7 DEF n
    <2> QED BY <1>3, <1>5, <1>7, <1>8, <2>1, <2>2, <2>4, <2>8 DEF e, n, E
  <1>9. CASE ~IsDueForEpochSeal(n)
    <2>1. ReplayOf(bs, Larger(LastHeight(s), 0)) = ReplayOf(cs, Larger(LastHeight(e), 0))
      <3>1. CASE e < 0
        <4>1. Larger(LastHeight(s), 0) = 0 /\ Larger(LastHeight(e), 0) = 0
          BY <1>2, <1>3, <1>6, <3>1
        <4>2. 0 \in 0 .. Len(bs)
          BY <1>1 DEF m
        <4>3. ReplayOf(cs, 0) = ReplayOf(bs, 0)
          BY <4>2 DEF Longer
        <4> QED BY <4>1, <4>3
      <3>2. CASE e >= 0
        <4>1. s = e
          BY <1>2, <1>4, <1>9, <3>2
        <4> QED BY <1>7, <3>2, <4>1
      <3> QED BY <1>3, <3>1, <3>2
    <2> QED BY <1>5, <1>9, <2>1 DEF n
  <1> QED BY <1>8, <1>9

\* Exactly the sealed epochs that have a delta can be unsealed.
UndosHold(bs, ed, eu) ==
  /\ eu \in [Epochs -> SealDeltas \cup {NoData}]
  /\ \A e \in Epochs :
       eu[e] = IF e <= SealedEpochIndex(Len(bs)) /\ ed[e] # NoData THEN InvertAll(ed[e]) ELSE NoData

\* Which epochs are sealed, at the next height.
LEMMA SealedNext ==
  ASSUME NEW bs, NEW cs, Longer(bs, cs), NEW f \in Epochs
  PROVE  LET n == Len(cs)
             e == SealedEpochIndex(n)
         IN /\ f <= SealedEpochIndex(Len(bs)) <=> f <= e /\ ~(IsDueForEpochSeal(n) /\ f = e)
            /\ f <= e => f # EpochIndexFromHeight(n)
            /\ IsDueForEpochSeal(n) => e <= e
  <1> DEFINE m == Len(bs)
             n == Len(cs)
             e == SealedEpochIndex(n)
             s == SealedEpochIndex(m)
  <1>1. m \in Nat /\ n = m + 1 /\ n \in Nat
    BY DEF Longer
  <1>2. e = IF IsLastBlockInEpoch(n) THEN s + 1 ELSE s
    BY <1>1, NextHeight
  <1>3. e \in Int /\ s \in Int /\ e < EpochIndexFromHeight(n) /\ EpochIndexFromHeight(n) \in Nat
    BY <1>1, SealedBefore, EpochOf
  <1>4. IsDueForEpochSeal(n) <=> IsLastBlockInEpoch(n) /\ e >= 0
    BY <1>1, SealedBefore
  <1>5. f \in Nat
    BY EpochsAre
  <1> HIDE DEF e, s, n, m
  <1>6. f <= s <=> f <= e /\ ~(IsDueForEpochSeal(n) /\ f = e)
    BY <1>2, <1>3, <1>4, <1>5
  <1> QED BY <1>3, <1>5, <1>6 DEF e, s, n, m

\* What undoes the seal of e becomes x, if an epoch is sealed or unsealed at the height.
UndoStep(n, eu, u, x) ==
  LET e == SealedEpochIndex(n)
  IN /\ u \in [Epochs -> SealDeltas \cup {NoData}]
     /\ IF IsDueForEpochSeal(n) THEN SameBut(e, u, eu) /\ u[e] = x ELSE u = eu

LEMMA UndosGrow ==
  ASSUME NEW bs, NEW cs, Longer(bs, cs), NEW ed, NEW eu, UndosHold(bs, ed, eu),
         NEW new, SameBut(EpochIndexFromHeight(Len(cs)), new, ed),
         NEW u, NEW x, UndoStep(Len(cs), eu, u, x),
         IsDueForEpochSeal(Len(cs)) =>
           LET e == SealedEpochIndex(Len(cs))
           IN x = IF new[e] # NoData THEN InvertAll(new[e]) ELSE NoData
  PROVE  UndosHold(cs, new, u)
  <1> DEFINE e == SealedEpochIndex(Len(cs))
  <1> USE DEF SameBut, UndoStep
  <1> SUFFICES ASSUME NEW f \in Epochs
               PROVE  u[f] = IF f <= e /\ new[f] # NoData THEN InvertAll(new[f]) ELSE NoData
    BY DEF UndosHold
  <1>1. /\ f <= SealedEpochIndex(Len(bs)) <=> f <= e /\ ~(IsDueForEpochSeal(Len(cs)) /\ f = e)
        /\ f <= e => f # EpochIndexFromHeight(Len(cs))
    BY SealedNext
  <1>2. f <= e => new[f] = ed[f]
    BY <1>1
  <1>3. eu[f] = IF f <= SealedEpochIndex(Len(bs)) /\ ed[f] # NoData THEN InvertAll(ed[f]) ELSE NoData
    BY DEF UndosHold
  <1>4. CASE IsDueForEpochSeal(Len(cs)) /\ f = e
    <2>1. e <= e
      <3>1. f \in Nat
        BY EpochsAre
      <3> QED BY <1>4, <3>1
    <2> QED BY <1>4, <2>1
  <1>5. CASE ~(IsDueForEpochSeal(Len(cs)) /\ f = e)
    <2>1. u[f] = eu[f]
      BY <1>5
    <2>2. f <= SealedEpochIndex(Len(bs)) <=> f <= e
      BY <1>1, <1>5
    <2>3. CASE f <= e
      BY <1>2, <1>3, <2>1, <2>2, <2>3
    <2>4. CASE ~(f <= e)
      BY <1>3, <2>1, <2>2, <2>4
    <2> QED BY <2>3, <2>4
  <1> QED BY <1>4, <1>5

LEMMA UndosShrink ==
  ASSUME NEW bs, NEW cs, Longer(bs, cs), NEW ed, NEW eu, UndosHold(cs, ed, eu),
         NEW new, SameBut(EpochIndexFromHeight(Len(cs)), new, ed),
         NEW u, UndoStep(Len(cs), eu, u, NoData)
  PROVE  UndosHold(bs, new, u)
  <1> DEFINE e == SealedEpochIndex(Len(cs))
  <1> USE DEF SameBut, UndoStep
  <1> SUFFICES ASSUME NEW f \in Epochs
               PROVE  u[f] = IF f <= SealedEpochIndex(Len(bs)) /\ new[f] # NoData
                             THEN InvertAll(new[f]) ELSE NoData
    BY DEF UndosHold
  <1>1. /\ f <= SealedEpochIndex(Len(bs)) <=> f <= e /\ ~(IsDueForEpochSeal(Len(cs)) /\ f = e)
        /\ f <= e => f # EpochIndexFromHeight(Len(cs))
    BY SealedNext
  <1>2. f <= e => new[f] = ed[f]
    BY <1>1
  <1>3. eu[f] = IF f <= e /\ ed[f] # NoData THEN InvertAll(ed[f]) ELSE NoData
    BY DEF UndosHold
  <1>4. CASE IsDueForEpochSeal(Len(cs)) /\ f = e
    BY <1>1, <1>4
  <1>5. CASE ~(IsDueForEpochSeal(Len(cs)) /\ f = e)
    <2>1. u[f] = eu[f]
      BY <1>5
    <2>2. f <= SealedEpochIndex(Len(bs)) <=> f <= e
      BY <1>1, <1>5
    <2>3. CASE f <= e
      BY <1>2, <1>3, <2>1, <2>2, <2>3
    <2>4. CASE ~(f <= e)
      BY <1>3, <2>1, <2>2, <2>4
    <2> QED BY <2>3, <2>4
  <1> QED BY <1>4, <1>5
----------------------------------------------------------------------------
(* The randomness. *)

RandomHolds(bs, data) ==
  /\ DOMAIN data = Epochs
  /\ \A e \in Epochs : LastHeight(e) <= Len(bs) => data[e] = RandomnessOf(bs, e)

\* A block of the seed at the height
DataStep(n, seed, data, new) ==
  LET E == EpochIndexFromHeight(n)
  IN /\ DOMAIN new = Epochs /\ SameBut(E, new, data)
     /\ new[E] = IF IsLastBlockInEpoch(n) THEN RandomnessAt(n, seed, data) ELSE data[E]

LEMMA RandomGrows ==
  ASSUME NEW bs, NEW cs, Longer(bs, cs), NEW data, RandomHolds(bs, data),
         NEW new, NEW n, n = Len(cs), DataStep(n, cs[n].seed, data, new)
  PROVE  RandomHolds(cs, new)
  <1> DEFINE E == EpochIndexFromHeight(n)
  <1> USE DEF SameBut, DataStep
  <1> DEFINE m == Len(bs)
             s == SealedEpochIndex(n)
  <1>1. m \in Nat /\ n = m + 1 /\ n \in Nat /\ n # 0 /\ n \in 0 .. MaxHeight
    BY DEF Longer
  <1>2. E \in Nat /\ E \in Epochs /\ n <= LastHeight(E) /\ LastHeight(E) \in Int
    BY <1>1, EpochOf, EpochsAre, EpochHeights
  <1>3. IsLastBlockInEpoch(n) <=> n = LastHeight(E)
    BY <1>1, LastIs
  <1>4. \A f \in Epochs : LastHeight(f) <= m => RandomnessOf(bs, f) = RandomnessOf(cs, f)
    <2>1. \A i \in 1 .. m : bs[i] = cs[i]
      BY DEF Longer
    <2> QED BY <1>1, <2>1, RandomnessPrefix
  <1> SUFFICES ASSUME NEW f \in Epochs, LastHeight(f) <= n
               PROVE  new[f] = RandomnessOf(cs, f)
    BY DEF RandomHolds
  <1>5. f \in Nat /\ LastHeight(f) \in Nat
    BY EpochsAre, SealedEarlier
  <1>6. CASE LastHeight(f) <= m
    <2>1. new[f] = data[f]
      BY <1>1, <1>2, <1>3, <1>5, <1>6
    <2> QED BY <1>4, <1>6, <2>1 DEF RandomHolds
  <1>7. CASE ~(LastHeight(f) <= m)
    <2>1. LastHeight(f) = n
      BY <1>1, <1>5, <1>7
    <2>2. f = E
      BY <1>5, <2>1, SealedEarlier
    <2>3. new[f] = [seed |-> cs[n].seed, from |-> IF s < 0 THEN NoData ELSE data[s]]
      BY <1>3, <2>1, <2>2 DEF RandomnessAt
    <2>4. RandomnessOf(cs, f) = [seed |-> cs[n].seed, from |-> IF s < 0 THEN NoData ELSE RandomnessOf(cs, s)]
      BY <1>1, <2>1, RandomnessIs
    <2>5. s \in Int /\ s < E
      BY <1>1, SealedBefore
    <2>6. s >= 0 => data[s] = RandomnessOf(cs, s)
      <3> SUFFICES ASSUME s >= 0 PROVE data[s] = RandomnessOf(cs, s)
        OBVIOUS
      <3>1. s \in Nat /\ s \in 0 .. E
        BY <1>2, <2>5
      <3>2. s \in Epochs
        BY <1>1, <3>1, EpochsAre
      <3>3. LastHeight(s) \in 0 .. m
        BY <2>5, <3>1, EarlierDelta
      <3>4. LastHeight(s) <= m
        BY <1>1, <3>3
      <3> HIDE DEF s
      <3>5. data[s] = RandomnessOf(bs, s)
        BY <3>2, <3>4 DEF RandomHolds
      <3> QED BY <1>4, <3>2, <3>4, <3>5
    <2> HIDE DEF s
    <2>7. (IF s < 0 THEN NoData ELSE data[s]) = (IF s < 0 THEN NoData ELSE RandomnessOf(cs, s))
      BY <2>5, <2>6
    <2> QED BY <2>3, <2>4, <2>7
  <1> QED BY <1>6, <1>7

LEMMA RandomShrinks ==
  ASSUME NEW bs, NEW cs, Longer(bs, cs), NEW data, RandomHolds(cs, data),
         NEW new, DOMAIN new = Epochs, SameBut(EpochIndexFromHeight(Len(cs)), new, data)
  PROVE  RandomHolds(bs, new)
  <1> USE DEF SameBut
  <1> DEFINE m == Len(bs)
             n == Len(cs)
             E == EpochIndexFromHeight(n)
  <1>1. m \in Nat /\ n = m + 1 /\ n \in Nat
    BY DEF Longer
  <1>2. E \in Nat /\ n <= LastHeight(E) /\ LastHeight(E) \in Int
    BY <1>1, EpochOf, EpochHeights
  <1>3. \A f \in Epochs : LastHeight(f) <= m => RandomnessOf(bs, f) = RandomnessOf(cs, f)
    <2>1. \A i \in 1 .. m : bs[i] = cs[i]
      BY DEF Longer
    <2> QED BY <1>1, <2>1, RandomnessPrefix
  <1> SUFFICES ASSUME NEW f \in Epochs, LastHeight(f) <= m
               PROVE  new[f] = RandomnessOf(bs, f)
    BY DEF RandomHolds
  <1>4. f \in Nat /\ LastHeight(f) \in Nat
    BY EpochsAre, SealedEarlier
  <1>5. f # E /\ LastHeight(f) <= n
    BY <1>1, <1>2, <1>4
  <1>6. new[f] = data[f]
    BY <1>5
  <1> QED BY <1>3, <1>5, <1>6 DEF RandomHolds

----------------------------------------------------------------------------
(* Connecting and disconnecting a block. *)

\* All that the stored values have to do with the main chain.
Holds(bs, t, s, ed, eu, data) ==
  /\ ChainHolds(bs, t) /\ DeltasHold(bs, ed) /\ SealedHolds(bs, s)
  /\ UndosHold(bs, ed, eu) /\ RandomHolds(bs, data)

\* A state the chain went through is one, with negative amounts allowed as well.
LEMMA TipState ==
  ASSUME NEW bs, NEW t, ChainHolds(bs, t)
  PROVE  t \in SealStates /\ t \in SealState /\ Len(bs) \in Nat
  <1>1. Len(bs) \in Nat
    BY DEF ChainHolds
  <1>2. t \in SealStates
    BY <1>1 DEF ChainHolds
  <1> QED BY <1>1, <1>2, SealTypes

\* The delta of the epoch of a connected block.
\* The delta is merged into that of the epoch.
DeltaStep(E, delta, ed, new) ==
  new = IF delta = NoData THEN ed ELSE [ed EXCEPT ![E] = Merge(OrNoChange(ed[E]), delta)]

LEMMA ConnectedDelta ==
  ASSUME NEW bs, NEW cs, Longer(bs, cs), NEW ed, DeltasHold(bs, ed),
         NEW t, t = ReplayOf(cs, Len(bs)), NEW u, u = ReplayOf(cs, Len(cs)),
         NEW delta \in SealDeltas \cup {NoData}, Leads(t, OrNoChange(delta), u),
         NEW E, E = EpochIndexFromHeight(Len(cs)),
         NEW new, DeltaStep(E, delta, ed, new)
  PROVE  /\ DeltasHold(cs, new) /\ SameBut(E, new, ed)
         /\ delta # NoData => Mergeable(OrNoChange(ed[E]), delta)
  <1> USE DEF SameBut, DeltaStep
  <1> DEFINE X == ReplayOf(cs, Before(E))
  <1>1. /\ E \in Epochs /\ Before(E) \in 0 .. Len(bs)
        /\ Leads(X, OrNoChange(ed[E]), t)
    BY CurrentDelta
  <1>2. X \in SealState
    BY <1>1, SealTypes DEF Longer
  <1> HIDE DEF X
  <1>3. ed \in [Epochs -> SealDeltas \cup {NoData}]
    BY DEF DeltasHold
  <1>4. Leads(X, Merge(OrNoChange(ed[E]), OrNoChange(delta)), u) /\ Mergeable(OrNoChange(ed[E]), OrNoChange(delta))
    BY <1>1, <1>2, LeadsOn
  <1>5. CASE delta = NoData
    <2>1. Apply(t, OrNoChange(delta)) = u /\ t \in SealState
      <3>1. t \in SealStates
        <4>1. Len(bs) \in 0 .. Len(bs)
          BY DEF Longer
        <4> QED BY <4>1 DEF Longer
      <3> QED BY <3>1, SealTypes DEF Leads
    <2>2. Leads(t, OrNoChange(delta), t)
      BY <1>5, <2>1, Stored, LeadsNowhere
    <2>3. u = t
      BY <2>1, <2>2 DEF Leads
    <2>4. new = ed
      BY <1>5
    <2>5. Leads(X, OrNoChange(new[E]), u)
      BY <1>1, <2>3, <2>4
    <2> QED BY <1>3, <1>5, <2>4, <2>5, DeltasGrow DEF X
  <1>6. CASE delta # NoData
    <2>1. delta \in SealDeltas /\ OrNoChange(delta) = delta
      BY <1>6, Stored
    <2> DEFINE m == Merge(OrNoChange(ed[E]), delta)
    <2>2. Leads(X, m, u) /\ Mergeable(OrNoChange(ed[E]), delta)
      BY <1>4, <2>1
    <2>3. m \in SealDeltas /\ OrNoChange(m) = m
      BY <2>2, Stored DEF Leads
    <2> HIDE DEF m
    <2>4. new = [ed EXCEPT ![E] = m]
      BY <1>6 DEF m
    <2>5. /\ new \in [Epochs -> SealDeltas \cup {NoData}] /\ new[E] = m
          /\ \A f \in Epochs \ {E} : new[f] = ed[f]
      BY <1>1, <1>3, <2>3, <2>4
    <2>6. Leads(X, OrNoChange(new[E]), u)
      BY <2>2, <2>3, <2>5
    <2> QED BY <2>2, <2>5, <2>6, DeltasGrow DEF X
  <1> QED BY <1>5, <1>6

LEMMA BlockConnected ==
  ASSUME NEW bs, NEW t, NEW s, NEW ed, NEW eu, NEW data, Holds(bs, t, s, ed, eu, data),
         Len(bs) < MaxHeight,
         NEW delta \in SealDeltas \cup {NoData}, NEW seed \in Seeds,
         NEW u \in SealStates, Leads(t, OrNoChange(delta), u),
         NEW cs, Extended(bs, delta, seed, cs),
         NEW n, n = Len(bs) + 1, NEW E, E = EpochIndexFromHeight(n),
         NEW ed2, DeltaStep(E, delta, ed, ed2),
         NEW e, e = E - Distance, NEW s2, NEW eu2,
         IF IsDueForEpochSeal(n) /\ ed2[e] # NoData
         THEN s2 = Apply(s, ed2[e]) /\ eu2 = [eu EXCEPT ![e] = InvertAll(ed2[e])]
         ELSE s2 = s /\ eu2 = eu,
         NEW data2,
         data2 = IF IsLastBlockInEpoch(n) THEN [data EXCEPT ![E] = RandomnessAt(n, seed, data)]
                 ELSE data
  PROVE  /\ Holds(cs, u, s2, ed2, eu2, data2)
         /\ delta # NoData => Applies(t, delta) /\ Mergeable(OrNoChange(ed[E]), delta)
         /\ IsDueForEpochSeal(n) /\ ed2[e] # NoData => Applies(s, ed2[e])
  <1>1. ChainHolds(bs, t) /\ DeltasHold(bs, ed) /\ SealedHolds(bs, s) /\ UndosHold(bs, ed, eu) /\ RandomHolds(bs, data)
    BY DEF Holds
  <1>2. t \in SealStates /\ t \in SealState /\ Len(bs) \in Nat
    BY <1>1, TipState
  <1>3. ChainHolds(cs, u) /\ Longer(bs, cs) /\ cs[Len(cs)] = [delta |-> delta, seed |-> seed]
    BY <1>1, ChainGrows
  <1>4. n = Len(cs) /\ n \in Nat /\ n \in 0 .. MaxHeight /\ cs[n].seed = seed /\ E \in Epochs
    BY <1>2, <1>3, EpochsAre DEF Longer
  <1>5. t = ReplayOf(cs, Len(bs)) /\ u = ReplayOf(cs, Len(cs))
    <2>1. Len(bs) \in 0 .. Len(bs)
      BY <1>2
    <2>2. t = ReplayOf(bs, Len(bs)) /\ u = ReplayOf(cs, Len(cs))
      BY <1>1, <1>3 DEF ChainHolds
    <2> QED BY <1>3, <2>1, <2>2 DEF Longer
  <1>6. /\ DeltasHold(cs, ed2) /\ SameBut(E, ed2, ed)
        /\ delta # NoData => Mergeable(OrNoChange(ed[E]), delta)
    BY <1>1, <1>3, <1>4, <1>5, ConnectedDelta
  <1>7. delta # NoData => Applies(t, delta)
    <2>1. Applies(t, OrNoChange(delta))
      BY <1>2, LeadsApplies
    <2>2. delta # NoData => OrNoChange(delta) = delta
      BY Stored
    <2> QED BY <2>1, <2>2
  <1>8. /\ ed2 \in [Epochs -> SealDeltas \cup {NoData}] /\ eu \in [Epochs -> SealDeltas \cup {NoData}]
        /\ DOMAIN data = Epochs
    BY <1>1, <1>6 DEF DeltasHold, UndosHold, RandomHolds
  <1>9. RandomHolds(cs, data2)
    <2>1. DataStep(n, cs[n].seed, data, data2)
      BY <1>4, <1>8 DEF DataStep, SameBut
    <2> QED BY <1>1, <1>3, <1>4, <2>1, RandomGrows
  <1> DEFINE x == SealedEpochIndex(n)
             X == ReplayOf(cs, Before(x))
             Y == ReplayOf(cs, LastHeight(x))
  <1>10. IF IsDueForEpochSeal(n)
         THEN /\ x \in Epochs /\ X \in SealStates /\ Y \in SealStates
              /\ Leads(X, OrNoChange(ed2[x]), Y)
              /\ \A y : SealedHolds(bs, y) <=> y = X
              /\ \A y : SealedHolds(cs, y) <=> y = Y
         ELSE \A y : SealedHolds(bs, y) <=> SealedHolds(cs, y)
    <2>1. SealMoves(bs, cs, ed2)
      BY <1>3, <1>6, SealStep
    <2> QED BY <1>4, <2>1 DEF SealMoves
  <1>11. IsDueForEpochSeal(n) => e = x
    BY <1>4, SealedBefore
  <1> HIDE DEF x, X, Y
  <1>12. CASE ~IsDueForEpochSeal(n)
    <2>1. s2 = s /\ eu2 = eu /\ SealedHolds(cs, s2)
      BY <1>1, <1>10, <1>12
    <2>2. UndosHold(cs, ed2, eu2)
      <3>1. UndoStep(Len(cs), eu, eu2, NoData) /\ ~IsDueForEpochSeal(Len(cs))
        BY <1>4, <1>8, <1>12, <2>1 DEF UndoStep
      <3>2. SameBut(EpochIndexFromHeight(Len(cs)), ed2, ed)
        BY <1>4, <1>6
      <3> QED BY <1>1, <1>3, <3>1, <3>2, UndosGrow
    <2> QED BY <1>3, <1>6, <1>7, <1>9, <1>12, <2>1, <2>2 DEF Holds
  <1>13. CASE IsDueForEpochSeal(n) /\ ed2[e] = NoData
    <2>1. s2 = s /\ eu2 = eu /\ e = x /\ s = X /\ e \in Epochs
      BY <1>1, <1>10, <1>11, <1>13
    <2>2. X \in SealState /\ Leads(X, NoChange(BalanceKeys), Y)
      BY <1>10, <1>13, <2>1, Stored, SealTypes
    <2>3. X = Y
      BY <2>2, LeadsNowhere DEF Leads
    <2>4. SealedHolds(cs, s2)
      BY <1>10, <1>13, <2>1, <2>3
    <2>5. eu2[e] = NoData
      <3>1. e # E /\ ed2[e] = ed[e]
        <4>1. x < EpochIndexFromHeight(n) /\ x \in Int /\ EpochIndexFromHeight(n) \in Nat
          BY <1>4, SealedBefore, EpochsAre DEF x
        <4> QED BY <1>6, <2>1, <4>1 DEF SameBut
      <3> QED BY <1>1, <1>13, <2>1, <3>1 DEF UndosHold
    <2>6. UndosHold(cs, ed2, eu2)
      <3>1. x = SealedEpochIndex(Len(cs)) /\ IsDueForEpochSeal(Len(cs))
        BY <1>4, <1>13 DEF x
      <3>2. eu2[x] = IF ed2[x] # NoData THEN InvertAll(ed2[x]) ELSE NoData
        BY <1>13, <2>1, <2>5
      <3>3. SameBut(x, eu2, eu)
        BY <2>1 DEF SameBut
      <3>4. UndoStep(Len(cs), eu, eu2, eu2[x])
        BY <1>8, <2>1, <3>1, <3>3 DEF UndoStep
      <3>5. SameBut(EpochIndexFromHeight(Len(cs)), ed2, ed)
        BY <1>4, <1>6
      <3>6. LET y == SealedEpochIndex(Len(cs))
            IN eu2[x] = IF ed2[y] # NoData THEN InvertAll(ed2[y]) ELSE NoData
        BY <3>1, <3>2
      <3> QED BY <1>1, <1>3, <3>4, <3>5, <3>6, UndosGrow
    <2> QED BY <1>3, <1>6, <1>7, <1>9, <1>13, <2>4, <2>6 DEF Holds
  <1>14. CASE IsDueForEpochSeal(n) /\ ed2[e] # NoData
    <2>1. /\ s2 = Apply(s, ed2[e]) /\ eu2 = [eu EXCEPT ![e] = InvertAll(ed2[e])]
          /\ e = x /\ s = X /\ e \in Epochs /\ X \in SealState
      BY <1>1, <1>10, <1>11, <1>14, SealTypes
    <2>2. ed2[e] \in SealDeltas /\ OrNoChange(ed2[e]) = ed2[e]
      BY <1>8, <1>14, <2>1, Stored
    <2>3. Leads(X, ed2[e], Y) /\ Y \in SealStates
      BY <1>10, <1>14, <2>1, <2>2
    <2>4. Applies(s, ed2[e]) /\ SealedHolds(cs, s2)
      <3>1. s2 = Y
        BY <2>1, <2>3 DEF Leads
      <3>2. Applies(s, ed2[e])
        BY <2>1, <2>3, LeadsApplies
      <3> QED BY <1>10, <1>14, <3>1, <3>2
    <2>5. InvertAll(ed2[e]) \in SealDeltas
      <3>1. Leads(Y, InvertAll(ed2[e]), X)
        BY <2>1, <2>3, LeadsBack
      <3> QED BY <3>1 DEF Leads
    <2>6. UndosHold(cs, ed2, eu2)
      <3>1. x = SealedEpochIndex(Len(cs)) /\ IsDueForEpochSeal(Len(cs))
        BY <1>4, <1>14 DEF x
      <3>2. eu2[x] = IF ed2[x] # NoData THEN InvertAll(ed2[x]) ELSE NoData
        BY <1>8, <1>14, <2>1
      <3>3. SameBut(x, eu2, eu)
        BY <1>8, <2>1 DEF SameBut
      <3>4. UndoStep(Len(cs), eu, eu2, eu2[x])
        BY <1>8, <2>1, <2>5, <3>1, <3>3 DEF UndoStep
      <3>5. SameBut(EpochIndexFromHeight(Len(cs)), ed2, ed)
        BY <1>4, <1>6
      <3>6. LET y == SealedEpochIndex(Len(cs))
            IN eu2[x] = IF ed2[y] # NoData THEN InvertAll(ed2[y]) ELSE NoData
        BY <3>1, <3>2
      <3> QED BY <1>1, <1>3, <3>4, <3>5, <3>6, UndosGrow
    <2> QED BY <1>3, <1>6, <1>7, <1>9, <1>14, <2>4, <2>6 DEF Holds
  <1> QED BY <1>12, <1>13, <1>14

\* The delta of the epoch of a disconnected block.
LEMMA DisconnectedDelta ==
  ASSUME NEW bs, NEW cs, Longer(cs, bs), NEW ed, DeltasHold(bs, ed),
         NEW t, t = ReplayOf(bs, Len(bs)), NEW v, v = ReplayOf(bs, Len(cs)),
         NEW inverse \in SealDeltas \cup {NoData}, Leads(t, OrNoChange(inverse), v),
         t \in SealState,
         NEW E, E = EpochIndexFromHeight(Len(bs)),
         NEW ed1, DeltaStep(E, inverse, ed, ed1),
         NEW ed2, ed2 = Forgotten(Len(bs), ed1)
  PROVE  /\ DeltasHold(cs, ed2) /\ SameBut(E, ed2, ed)
         /\ inverse # NoData => Mergeable(OrNoChange(ed[E]), inverse)
  <1> USE DEF SameBut, DeltaStep
  <1> DEFINE X == ReplayOf(bs, Before(E))
             m == Merge(OrNoChange(ed[E]), inverse)
             n == Len(cs)
  <1>0. n \in Nat /\ Len(bs) = n + 1 /\ Len(bs) \in 0 .. MaxHeight /\ Len(bs) - 1 = n /\ Len(bs) \in Nat
    BY EpochAssumption DEF Longer
  <1>1. E \in Epochs /\ Before(E) \in 0 .. n
    BY <1>0, EpochsAre, BeforeIs
  <1>2. X \in SealState
    BY <1>1, SealTypes DEF Longer
  <1>3. ed \in [Epochs -> SealDeltas \cup {NoData}]
    BY DEF DeltasHold
  <1>4. Leads(X, OrNoChange(ed[E]), t)
    <2>1. Smaller(LastHeight(E), Len(bs)) = Len(bs) /\ ~(E > E) /\ E = EpochIndexFromHeight(Len(bs))
      <3>1. E \in Nat
        BY <1>1, EpochsAre
      <3> QED BY <1>0, <3>1, BeforeIs
    <2> QED BY <1>1, <2>1 DEF DeltasHold
  <1> HIDE DEF X, m
  <1>5. /\ Leads(X, OrNoChange(ed1[E]), v) /\ ed1 \in [Epochs -> SealDeltas \cup {NoData}]
        /\ \A f \in Epochs \ {E} : ed1[f] = ed[f]
        /\ inverse # NoData => Mergeable(OrNoChange(ed[E]), inverse)
    <2>1. CASE inverse = NoData
      <3>1. Leads(t, OrNoChange(inverse), t)
        BY <2>1, Stored, LeadsNowhere
      <3>2. t = v
        BY <3>1 DEF Leads
      <3> QED BY <1>3, <1>4, <2>1, <3>2
    <2>2. CASE inverse # NoData
      <3>1. inverse \in SealDeltas /\ OrNoChange(inverse) = inverse
        BY <2>2, Stored
      <3>2. Leads(X, m, v) /\ Mergeable(OrNoChange(ed[E]), inverse)
        BY <1>2, <1>4, <3>1, LeadsOn DEF m
      <3>3. m \in SealDeltas /\ OrNoChange(m) = m
        BY <3>2, Stored DEF Leads
      <3>4. ed1 = [ed EXCEPT ![E] = m]
        BY <2>2 DEF m
      <3> QED BY <1>1, <1>3, <3>2, <3>3, <3>4
    <2> QED BY <2>1, <2>2
  <1>6. ed2 = IF IsLastBlockInEpoch(n) THEN [ed1 EXCEPT ![E] = NoData] ELSE ed1
    BY <1>0 DEF Forgotten
  <1>7. /\ ed2 \in [Epochs -> SealDeltas \cup {NoData}]
        /\ \A f \in Epochs \ {E} : ed2[f] = ed[f]
        /\ IF IsLastBlockInEpoch(n) THEN ed2[E] = NoData ELSE Leads(X, OrNoChange(ed2[E]), v)
    BY <1>1, <1>5, <1>6
  <1>8. LedBack(cs, bs, ed2, E) /\ SameBut(E, ed2, ed)
    BY <1>7 DEF X, LedBack
  <1> QED BY <1>5, <1>7, <1>8, DeltasShrink

\* The inverse of what a block did, if it did anything.
InverseOf(delta) == IF delta = NoData THEN NoData ELSE InvertAll(delta)

\* The seal of the epoch is taken back.
UnsealStep(e, s, eu, s2, eu2) ==
  IF e >= 0 /\ eu[e] # NoData
  THEN s2 = Apply(s, eu[e]) /\ eu2 = [eu EXCEPT ![e] = NoData]
  ELSE s2 = s /\ eu2 = eu

LEMMA BlockDisconnected ==
  ASSUME NEW bs, NEW t, NEW s, NEW ed, NEW eu, NEW data, Holds(bs, t, s, ed, eu, data),
         bs # <<>>, NEW cs, cs = Front(bs), NEW n, n = Len(bs),
         NEW E, E = EpochIndexFromHeight(n),
         NEW inverse, inverse = InverseOf(Last(bs).delta),
         NEW ed1, DeltaStep(E, inverse, ed, ed1), NEW ed2, ed2 = Forgotten(n, ed1),
         NEW e, e = UnsealedEpoch(n), NEW s2, NEW eu2, UnsealStep(e, s, eu, s2, eu2),
         NEW data2, data2 = Forgotten(n, data)
  PROVE  /\ Holds(cs, Apply(t, OrNoChange(inverse)), s2, ed2, eu2, data2)
         /\ inverse # NoData => Applies(t, inverse) /\ Mergeable(OrNoChange(ed[E]), inverse)
         /\ e >= 0 /\ eu[e] # NoData => Applies(s, eu[e])
  <1> USE DEF InverseOf, UnsealStep
  <1> DEFINE v == ReplayOf(bs, Len(cs))
             delta == bs[Len(bs)].delta
  <1>1. ChainHolds(bs, t) /\ DeltasHold(bs, ed) /\ SealedHolds(bs, s) /\ UndosHold(bs, ed, eu) /\ RandomHolds(bs, data)
    BY DEF Holds
  <1>2. t \in SealStates /\ t \in SealState /\ Len(bs) \in Nat /\ t = ReplayOf(bs, Len(bs))
    BY <1>1, TipState DEF ChainHolds
  <1>3. /\ ChainHolds(cs, v) /\ Longer(cs, bs) /\ Last(bs) = bs[Len(bs)] /\ bs[Len(bs)] \in BlockType
        /\ Leads(v, OrNoChange(delta), t)
    BY <1>1, ChainShrinks
  <1>4. delta \in SealDeltas \cup {NoData} /\ Last(bs).delta = delta
    BY <1>3 DEF BlockType
  <1>5. v \in SealStates /\ v \in SealState
    BY <1>3, TipState
  <1> HIDE DEF delta, v
  <1>6. Leads(t, OrNoChange(inverse), v) /\ inverse \in SealDeltas \cup {NoData}
    <2>1. CASE delta = NoData
      <3>1. inverse = NoData /\ Leads(v, OrNoChange(delta), v)
        BY <1>4, <1>5, <2>1, Stored, LeadsNowhere
      <3>2. t = v
        BY <1>3, <3>1 DEF Leads
      <3> QED BY <1>3, <2>1, <3>1, <3>2
    <2>2. CASE delta # NoData
      <3>1. delta \in SealDeltas /\ OrNoChange(delta) = delta /\ inverse = InvertAll(delta)
        BY <1>4, <2>2, Stored
      <3>2. Leads(t, inverse, v)
        BY <1>3, <1>5, <3>1, LeadsBack
      <3> QED BY <3>2, Stored DEF Leads
    <2> QED BY <2>1, <2>2
  <1>7. Apply(t, OrNoChange(inverse)) = v
    BY <1>6 DEF Leads
  <1>8. inverse # NoData => Applies(t, inverse)
    <2>1. Applies(t, OrNoChange(inverse))
      BY <1>2, <1>5, <1>6, LeadsApplies
    <2>2. inverse # NoData => OrNoChange(inverse) = inverse
      BY <1>6, Stored
    <2> QED BY <2>1, <2>2
  <1>9. /\ DeltasHold(cs, ed2) /\ SameBut(E, ed2, ed)
        /\ inverse # NoData => Mergeable(OrNoChange(ed[E]), inverse)
    <2>1. v = ReplayOf(bs, Len(cs)) /\ E = EpochIndexFromHeight(Len(bs)) /\ ed2 = Forgotten(Len(bs), ed1)
      BY DEF v
    <2> QED BY <1>1, <1>2, <1>3, <1>6, <2>1, DisconnectedDelta
  <1>10. /\ E \in Epochs /\ n \in Nat /\ n \in 0 .. MaxHeight
         /\ ed \in [Epochs -> SealDeltas \cup {NoData}] /\ eu \in [Epochs -> SealDeltas \cup {NoData}]
         /\ DOMAIN data = Epochs
    BY <1>1, <1>2, <1>3, EpochsAre DEF DeltasHold, UndosHold, RandomHolds, Longer
  <1>11. RandomHolds(cs, data2)
    <2>1. DOMAIN data2 = Epochs /\ SameBut(EpochIndexFromHeight(Len(bs)), data2, data)
      BY <1>10 DEF Forgotten, SameBut
    <2> QED BY <1>1, <1>3, <2>1, RandomShrinks
  <1> DEFINE x == SealedEpochIndex(n)
             X == ReplayOf(bs, Before(x))
             Y == ReplayOf(bs, LastHeight(x))
  <1>12. IF IsDueForEpochSeal(n)
         THEN /\ x \in Epochs /\ X \in SealStates /\ Y \in SealStates
              /\ Leads(X, OrNoChange(ed[x]), Y)
              /\ \A y : SealedHolds(cs, y) <=> y = X
              /\ \A y : SealedHolds(bs, y) <=> y = Y
         ELSE \A y : SealedHolds(cs, y) <=> SealedHolds(bs, y)
    <2>1. SealMoves(cs, bs, ed)
      BY <1>1, <1>3, SealStep
    <2> QED BY <2>1 DEF SealMoves
  <1>13. IF IsDueForEpochSeal(n) THEN e = x /\ x \in Nat /\ e >= 0 ELSE e < 0 /\ ~(e >= 0)
    BY <1>10, <1>12, SealedBefore, EpochsAre DEF UnsealedEpoch
  <1>14. IsDueForEpochSeal(n) => eu[x] = IF ed[x] # NoData THEN InvertAll(ed[x]) ELSE NoData
    <2> SUFFICES ASSUME IsDueForEpochSeal(n)
                 PROVE  eu[x] = IF ed[x] # NoData THEN InvertAll(ed[x]) ELSE NoData
      OBVIOUS
    <2>1. x \in Epochs /\ x <= SealedEpochIndex(Len(bs))
      <3>1. x \in Nat
        BY <1>13
      <3> QED BY <1>12, <3>1
    <2> QED BY <1>1, <2>1 DEF UndosHold
  <1>15. x = SealedEpochIndex(Len(bs)) /\ SameBut(EpochIndexFromHeight(Len(bs)), ed2, ed)
    BY <1>9
  <1> HIDE DEF x, X, Y
  <1>16. /\ SealedHolds(cs, s2) /\ UndoStep(Len(bs), eu, eu2, NoData)
         /\ e >= 0 /\ eu[e] # NoData => Applies(s, eu[e])
    <2>1. CASE ~IsDueForEpochSeal(n)
      <3>1. s2 = s /\ eu2 = eu
        BY <1>13, <2>1
      <3>2. SealedHolds(cs, s2)
        BY <1>1, <1>12, <2>1, <3>1
      <3> QED BY <1>10, <1>13, <2>1, <3>1, <3>2 DEF UndoStep
    <2>2. CASE IsDueForEpochSeal(n) /\ eu[e] = NoData
      <3>1. s2 = s /\ eu2 = eu /\ e = x /\ s = Y
        BY <1>1, <1>12, <1>13, <2>2
      <3>2. ed[x] = NoData
        <4> SUFFICES ASSUME ed[x] # NoData PROVE FALSE
          OBVIOUS
        <4>1. ed[x] \in SealDeltas /\ OrNoChange(ed[x]) = ed[x] /\ X \in SealState
          BY <1>10, <1>12, <2>2, Stored, SealTypes
        <4>2. InvertAll(ed[x]) \in SealDeltas
          BY <1>12, <2>2, <4>1, LeadsBack DEF Leads
        <4> QED BY <1>14, <2>2, <3>1, <4>2, Stored
      <3>3. X \in SealState /\ Leads(X, NoChange(BalanceKeys), Y)
        BY <1>12, <2>2, <3>2, Stored, SealTypes
      <3>4. X = Y
        BY <3>3, LeadsNowhere DEF Leads
      <3>5. SealedHolds(cs, s2)
        BY <1>12, <2>2, <3>1, <3>4
      <3>6. UndoStep(Len(bs), eu, eu2, NoData)
        BY <1>10, <1>15, <2>2, <3>1 DEF UndoStep, SameBut
      <3> QED BY <2>2, <3>5, <3>6
    <2>3. CASE IsDueForEpochSeal(n) /\ eu[e] # NoData
      <3>1. e = x /\ e >= 0 /\ s = Y /\ x \in Epochs /\ X \in SealStates
        BY <1>1, <1>12, <1>13, <2>3
      <3>2. s2 = Apply(s, eu[x]) /\ eu2 = [eu EXCEPT ![x] = NoData]
        BY <2>3, <3>1
      <3>3. ed[x] \in SealDeltas /\ eu[x] = InvertAll(ed[x])
        BY <1>10, <1>14, <2>3, <3>1
      <3>4. Leads(X, ed[x], Y) /\ X \in SealState /\ Y \in SealState
        BY <1>12, <2>3, <3>3, Stored, SealTypes
      <3>5. Leads(Y, eu[x], X)
        BY <3>3, <3>4, LeadsBack
      <3>6. s2 = X /\ Applies(s, eu[x])
        BY <3>1, <3>2, <3>4, <3>5, LeadsApplies DEF Leads
      <3>7. SealedHolds(cs, s2)
        BY <1>12, <2>3, <3>6
      <3>8. eu2 \in [Epochs -> SealDeltas \cup {NoData}] /\ eu2[x] = NoData /\ SameBut(x, eu2, eu)
        BY <1>10, <3>1, <3>2 DEF SameBut
      <3>9. UndoStep(Len(bs), eu, eu2, NoData)
        BY <1>15, <2>3, <3>8 DEF UndoStep
      <3> QED BY <3>1, <3>6, <3>7, <3>9
    <2> QED BY <2>1, <2>2, <2>3
  <1>17. UndosHold(cs, ed2, eu2)
    BY <1>1, <1>3, <1>15, <1>16, UndosShrink
  <1> QED BY <1>3, <1>7, <1>8, <1>9, <1>11, <1>16, <1>17 DEF Holds

----------------------------------------------------------------------------
(* The invariant. *)

\* What is stored is what the main chain determines, and nothing has failed.
SealIInv == Holds(blocks, tip, sealed, epochDelta, epochUndo, epochData) /\ failed = FALSE

LEMMA SealIInvInit == SealInit => SealIInv
  <1> SUFFICES ASSUME SealInit PROVE SealIInv
    OBVIOUS
  <1>1. PICK bs : bs = <<>>
    OBVIOUS
  <1>2. PICK no : no = [e \in Epochs |-> NoData]
    OBVIOUS
  <1>3. /\ blocks = bs /\ tip = Genesis /\ sealed = Genesis /\ epochDelta = no /\ epochUndo = no
        /\ epochData = no /\ failed = FALSE
    BY <1>1, <1>2 DEF SealInit
  <1>4. Len(bs) = 0 /\ bs \in Seq(BlockType) /\ MaxHeight \in Nat /\ MaxAmount \in Nat
    BY <1>1, EpochAssumption
  <1>5. Genesis \in SealStates /\ Genesis \in SealState
    <2>1. [k \in AccountKeys |-> NoData] \in [AccountKeys -> Values \cup {NoData}]
      OBVIOUS
    <2>2. [k \in BalanceKeys |-> 0] \in [BalanceKeys -> 0 .. MaxAmount]
      BY <1>4
    <2>3. Genesis \in SealStates
      BY <2>1, <2>2 DEF Genesis, State, SealStates
    <2> QED BY <2>3, SealTypes
  <1>6. ReplayOf(bs, 0) = Genesis
    BY <1>4, ReplayIs
  <1>7. ChainHolds(bs, Genesis)
    BY <1>4, <1>5, <1>6 DEF ChainHolds
  <1>8. EpochIndexFromHeight(0) = 0 /\ 0 \in Nat /\ 0 \in 0 .. MaxHeight
    BY <1>4, EpochAssumption DEF EpochIndexFromHeight
  <1>9. no \in [Epochs -> SealDeltas \cup {NoData}] /\ DOMAIN no = Epochs /\ \A e \in Epochs : no[e] = NoData
    BY <1>2
  <1>10. DeltasHold(bs, no)
    <2> SUFFICES ASSUME NEW e \in Epochs, ~(e > 0)
                 PROVE  Leads(ReplayOf(bs, Before(e)), OrNoChange(no[e]), ReplayOf(bs, Smaller(LastHeight(e), 0)))
      BY <1>4, <1>8, <1>9 DEF DeltasHold
    <2>1. e = 0
      BY EpochsAre
    <2>2. Before(0) = 0
      BY FirstEpoch DEF Before, Larger
    <2>3. Smaller(LastHeight(0), 0) = 0
      BY FirstEpoch DEF Smaller
    <2>4. Leads(Genesis, NoChange(BalanceKeys), Genesis)
      BY <1>5, LeadsNowhere
    <2> QED BY <1>6, <1>9, <2>1, <2>2, <2>3, <2>4, Stored
  <1>11. SealedEpochIndex(0) \in Int /\ SealedEpochIndex(0) < 0
    BY <1>8, SealedBefore
  <1>12. SealedHolds(bs, Genesis)
    <2>1. PICK s \in Int : s = SealedEpochIndex(0) /\ s < 0
      BY <1>11
    <2>2. LastHeight(s) \in Int /\ LastHeight(s) < FirstHeight(0) /\ FirstHeight(0) = 0
      BY <2>1, EpochHeights, EpochOrder, FirstEpoch
    <2>3. Larger(LastHeight(s), 0) = 0
      BY <2>2 DEF Larger
    <2> QED BY <1>4, <1>6, <2>1, <2>3 DEF SealedHolds
  <1>13. UndosHold(bs, no, no)
    BY <1>9 DEF UndosHold
  <1>14. RandomHolds(bs, no)
    <2> SUFFICES ASSUME NEW e \in Epochs, LastHeight(e) <= 0
                 PROVE  RandomnessOf(bs, e) = NoData
      BY <1>4, <1>9 DEF RandomHolds
    <2>1. LastHeight(e) \in Nat
      BY EpochsAre, SealedEarlier
    <2>2. LastHeight(e) = 0
      BY <2>1
    <2> QED BY <2>2, RandomnessIs
  <1>15. Holds(bs, Genesis, Genesis, no, no, no)
    BY <1>7, <1>10, <1>12, <1>13, <1>14 DEF Holds
  <1> QED BY <1>3, <1>15 DEF SealIInv

LEMMA ConnectStep ==
  ASSUME SealIInv, NEW delta \in SealDeltas \cup {NoData}, NEW seed \in Seeds, NEW u \in SealStates,
         Leads(tip, OrNoChange(delta), u), Connect(delta, seed)
  PROVE  SealIInv'
  <1>1. PICK bs, t, s, ed, eu, data : /\ bs = blocks /\ t = tip /\ s = sealed /\ ed = epochDelta
                                      /\ eu = epochUndo /\ data = epochData
    OBVIOUS
  <1>2. PICK cs, s2, ed2, eu2, data2 : /\ cs = blocks' /\ s2 = sealed' /\ ed2 = epochDelta'
                                       /\ eu2 = epochUndo' /\ data2 = epochData'
    OBVIOUS
  <1>3. Holds(bs, t, s, ed, eu, data) /\ failed = FALSE /\ Leads(t, OrNoChange(delta), u)
    BY <1>1 DEF SealIInv
  <1> DEFINE n == Len(bs) + 1
             E == EpochIndexFromHeight(n)
             e == E - Distance
  <1>4. /\ Len(bs) < MaxHeight /\ Extended(bs, delta, seed, cs) /\ tip' = Apply(t, OrNoChange(delta))
        /\ DeltaStep(E, delta, ed, ed2)
        /\ AdvanceEpochSeal(n, epochDelta')
        /\ data2 = IF IsLastBlockInEpoch(n) THEN [data EXCEPT ![E] = RandomnessAt(n, seed, data)] ELSE data
    BY <1>1, <1>2 DEF Connect, Height, Extended, DeltaStep, Merged, ConnectEpochData
  <1>5. tip' = u
    BY <1>3, <1>4 DEF Leads
  <1>6. Last(blocks').delta = delta
    <2>1. bs \in Seq(BlockType)
      BY <1>3 DEF Holds, ChainHolds
    <2>2. cs = Append(bs, [delta |-> delta, seed |-> seed]) /\ [delta |-> delta, seed |-> seed] \in BlockType
      BY <1>4 DEF Extended, BlockType
    <2>3. Len(cs) = Len(bs) + 1 /\ cs[Len(cs)] = [delta |-> delta, seed |-> seed]
      BY <2>1, <2>2
    <2>4. Last(cs) = cs[Len(cs)]
      BY DEF Last
    <2> QED BY <1>2, <2>3, <2>4
  <1>7. /\ IF IsDueForEpochSeal(n) /\ ed2[e] # NoData
           THEN s2 = Apply(s, ed2[e]) /\ eu2 = [eu EXCEPT ![e] = InvertAll(ed2[e])]
           ELSE s2 = s /\ eu2 = eu
        /\ failed' = \/ failed \/ MergeFails(n, delta)
                     \/ IsDueForEpochSeal(n) /\ ed2[e] # NoData /\ ~Applies(s, ed2[e])
    BY <1>1, <1>2, <1>4, <1>6 DEF AdvanceEpochSeal
  <1>8. MergeFails(n, delta) <=> delta # NoData /\ (~Applies(t, delta) \/ ~Mergeable(OrNoChange(ed[E]), delta))
    BY <1>1 DEF MergeFails
  <1>9. PICK N, F, f : N = n /\ F = E /\ f = e
    OBVIOUS
  <1> HIDE DEF n, E, e
  <1>10. N = Len(bs) + 1 /\ F = EpochIndexFromHeight(N) /\ f = F - Distance
    BY <1>9 DEF n, E, e
  <1>11. /\ Holds(cs, u, s2, ed2, eu2, data2)
         /\ delta # NoData => Applies(t, delta) /\ Mergeable(OrNoChange(ed[F]), delta)
         /\ IsDueForEpochSeal(N) /\ ed2[f] # NoData => Applies(s, ed2[f])
    BY <1>3, <1>4, <1>7, <1>9, <1>10, BlockConnected
  <1>12. failed' = FALSE
    BY <1>3, <1>7, <1>8, <1>9, <1>11
  <1> QED BY <1>2, <1>5, <1>11, <1>12 DEF SealIInv

LEMMA DisconnectStep ==
  ASSUME SealIInv, Disconnect
  PROVE  SealIInv'
  <1>1. PICK bs, t, s, ed, eu, data : /\ bs = blocks /\ t = tip /\ s = sealed /\ ed = epochDelta
                                      /\ eu = epochUndo /\ data = epochData
    OBVIOUS
  <1>2. PICK cs, s2, ed2, eu2, data2 : /\ cs = blocks' /\ s2 = sealed' /\ ed2 = epochDelta'
                                       /\ eu2 = epochUndo' /\ data2 = epochData'
    OBVIOUS
  <1>3. Holds(bs, t, s, ed, eu, data) /\ failed = FALSE
    BY <1>1 DEF SealIInv
  <1>4. PICK n, E, e, inverse, ed1 :
          /\ n = Len(bs) /\ E = EpochIndexFromHeight(n) /\ e = UnsealedEpoch(n)
          /\ inverse = InverseOf(Last(bs).delta)
          /\ ed1 = IF inverse = NoData THEN ed
                   ELSE [ed EXCEPT ![E] = Merge(OrNoChange(ed[E]), inverse)]
    OBVIOUS
  <1>5. /\ bs # <<>> /\ cs = Front(bs) /\ tip' = Apply(t, OrNoChange(inverse))
        /\ ed2 = Forgotten(n, ed1) /\ RollbackEpochSeal(n, inverse) /\ data2 = Forgotten(n, data)
    BY <1>1, <1>2, <1>4 DEF Disconnect, Height, Merged, InverseOf
  <1>6. DeltaStep(E, inverse, ed, ed1)
    BY <1>4 DEF DeltaStep
  <1>7. /\ UnsealStep(e, s, eu, s2, eu2)
        /\ failed' = \/ failed \/ MergeFails(n, inverse)
                     \/ e >= 0 /\ eu[e] # NoData /\ ~Applies(s, eu[e])
    BY <1>1, <1>2, <1>4, <1>5 DEF RollbackEpochSeal, UnsealStep
  <1>8. MergeFails(n, inverse) <=>
          inverse # NoData /\ (~Applies(t, inverse) \/ ~Mergeable(OrNoChange(ed[E]), inverse))
    BY <1>1, <1>4 DEF MergeFails
  <1>9. /\ Holds(cs, Apply(t, OrNoChange(inverse)), s2, ed2, eu2, data2)
        /\ inverse # NoData => Applies(t, inverse) /\ Mergeable(OrNoChange(ed[E]), inverse)
        /\ e >= 0 /\ eu[e] # NoData => Applies(s, eu[e])
    BY <1>3, <1>4, <1>5, <1>6, <1>7, BlockDisconnected
  <1>10. failed' = FALSE
    BY <1>3, <1>7, <1>8, <1>9
  <1> QED BY <1>2, <1>5, <1>9, <1>10 DEF SealIInv

\* The states in between, and what they are made of.
LEMMA StateIs ==
  ASSUME NEW s
  PROVE  s \in SealStates <=> /\ s \in SealState
                              /\ \A k \in BalanceKeys : s.amounts[k] \in 0 .. MaxAmount
  <1>1. ASSUME s \in SealStates
        PROVE  s \in SealState /\ \A k \in BalanceKeys : s.amounts[k] \in 0 .. MaxAmount
    BY <1>1, SealTypes DEF SealStates
  <1>2. ASSUME s \in SealState, \A k \in BalanceKeys : s.amounts[k] \in 0 .. MaxAmount
        PROVE  s \in SealStates
    <2>1. /\ s.data \in [AccountKeys -> Vals] /\ s.amounts \in [BalanceKeys -> Int]
          /\ s = [data |-> s.data, amounts |-> s.amounts]
      BY <1>2 DEF SealState, StateSet
    <2>2. s.amounts \in [BalanceKeys -> 0 .. MaxAmount]
      BY <1>2, <2>1
    <2> QED BY <2>1, <2>2 DEF SealStates, Vals
  <1> QED BY <1>1, <1>2

\* A block that changes the data.
LEMMA DataBlockLeads ==
  ASSUME tip \in SealStates, NEW data \in Values \cup {NoData}
  PROVE  DataBlock(data) \in SealDeltas /\ \E u \in SealStates : Leads(tip, DataBlock(data), u)
  <1>1. PICK t : t = tip
    OBVIOUS
  <1>2. t \in SealState /\ \A k \in BalanceKeys : t.amounts[k] \in 0 .. MaxAmount /\ t.amounts[k] \in Int
    BY <1>1, StateIs, EpochAssumption
  <1> DEFINE c == [k \in AccountKeys |-> DataDelta(t.data[k], data)]
             a == [k \in BalanceKeys |-> 0]
             d == [data |-> c, amounts |-> a]
  <1>3. DataBlock(data) = d
    BY <1>1 DEF DataBlock
  <1>4. t.data \in [AccountKeys -> Vals] /\ data \in Vals
    BY <1>2 DEF SealState, StateSet, Vals
  <1>5. \A k \in AccountKeys : DataDelta(t.data[k], data) \in [old : Vals, new : Vals]
    BY <1>4 DEF DataDelta
  <1>6. c \in [AccountKeys -> [old : Vals, new : Vals]]
    BY <1>5
  <1>7. c \in DataDeltas(AccountKeys, Vals)
    BY <1>6, DataDeltaIs
  <1>8. a \in [BalanceKeys -> Int]
    OBVIOUS
  <1>9. /\ d.data = c /\ d.amounts = a /\ DOMAIN c = AccountKeys
        /\ \A k \in AccountKeys : c[k].old = t.data[k]
        /\ \A k \in BalanceKeys : a[k] = 0
    BY DEF DataDelta
  <1> HIDE DEF c, a
  <1>10. d \in DeltaSet(AccountKeys, Vals, BalanceKeys) /\ d \in SealDeltas
    BY <1>7, <1>8, SealTypes DEF DeltaSet
  <1>11. Matches(t, d)
    BY <1>9 DEF Matches
  <1> HIDE DEF d
  <1>12. PICK u : u = Apply(t, d)
    OBVIOUS
  <1>13. u \in SealState /\ \A k \in BalanceKeys : u.amounts[k] = t.amounts[k] + d.amounts[k]
    BY <1>2, <1>10, <1>12, ApplyType DEF SealState
  <1>14. \A k \in BalanceKeys : u.amounts[k] \in 0 .. MaxAmount
    <2>1. \A k \in BalanceKeys : d.amounts[k] = 0
      BY <1>9 DEF a
    <2> QED BY <1>2, <1>13, <2>1
  <1>15. u \in SealStates
    BY <1>13, <1>14, StateIs
  <1> QED BY <1>1, <1>3, <1>10, <1>11, <1>12, <1>15 DEF Leads

\* A block that changes the balance.
LEMMA BalanceBlockLeads ==
  ASSUME tip \in SealStates, NEW amount \in 0 .. MaxAmount
  PROVE  BalanceBlock(amount) \in SealDeltas /\ \E u \in SealStates : Leads(tip, BalanceBlock(amount), u)
  <1>1. PICK t : t = tip
    OBVIOUS
  <1>2. t \in SealState /\ \A k \in BalanceKeys : t.amounts[k] \in 0 .. MaxAmount /\ t.amounts[k] \in Int
    BY <1>1, StateIs, EpochAssumption
  <1> DEFINE K == {}
             c == [k \in K |-> NoData]
             a == [k \in BalanceKeys |-> amount - t.amounts[k]]
             d == [data |-> c, amounts |-> a]
  <1>3. BalanceBlock(amount) = d
    BY <1>1 DEF BalanceBlock
  <1>4. amount \in Int
    BY EpochAssumption
  <1>5. K \in SUBSET AccountKeys
    OBVIOUS
  <1>6. c \in [K -> [old : Vals, new : Vals]]
    OBVIOUS
  <1>7. c \in DataDeltas(AccountKeys, Vals)
    <2> HIDE DEF K, c
    <2> QED BY <1>5, <1>6, DataDeltaIs
  <1>8. a \in [BalanceKeys -> Int]
    BY <1>2, <1>4
  <1>9. /\ d.data = c /\ d.amounts = a /\ DOMAIN c = {}
        /\ \A k \in BalanceKeys : a[k] = amount - t.amounts[k]
    OBVIOUS
  <1> HIDE DEF c, a
  <1>10. d \in DeltaSet(AccountKeys, Vals, BalanceKeys) /\ d \in SealDeltas
    BY <1>7, <1>8, SealTypes DEF DeltaSet
  <1>11. Matches(t, d)
    BY <1>9 DEF Matches
  <1> HIDE DEF d
  <1>12. PICK u : u = Apply(t, d)
    OBVIOUS
  <1>13. u \in SealState /\ \A k \in BalanceKeys : u.amounts[k] = t.amounts[k] + d.amounts[k]
    BY <1>2, <1>10, <1>12, ApplyType DEF SealState
  <1>14. \A k \in BalanceKeys : u.amounts[k] \in 0 .. MaxAmount
    BY <1>2, <1>4, <1>9, <1>13
  <1>15. u \in SealStates
    BY <1>13, <1>14, StateIs
  <1> QED BY <1>1, <1>3, <1>10, <1>11, <1>12, <1>15 DEF Leads

LEMMA SealIInvNext == SealIInv /\ [SealNext]_sealVars => SealIInv'
  <1> SUFFICES ASSUME SealIInv, [SealNext]_sealVars PROVE SealIInv'
    OBVIOUS
  <1>1. tip \in SealStates /\ tip \in SealState
    <2>1. PICK bs, t : bs = blocks /\ t = tip
      OBVIOUS
    <2>2. ChainHolds(bs, t)
      BY <2>1 DEF SealIInv, Holds
    <2> QED BY <2>1, <2>2, TipState
  <1>2. \A seed \in NextSeeds : seed \in Seeds
    BY EpochAssumption DEF NextSeeds
  <1>3. ASSUME NEW data \in Values \cup {NoData}, NEW seed \in NextSeeds, ConnectBlockWithData(data, seed)
        PROVE  SealIInv'
    <2>1. PICK delta, u : delta = DataBlock(data) /\ delta \in SealDeltas /\ u \in SealStates /\ Leads(tip, delta, u)
      BY <1>1, DataBlockLeads
    <2>2. OrNoChange(delta) = delta /\ Connect(delta, seed)
      BY <1>3, <2>1, Stored DEF ConnectBlockWithData
    <2> QED BY <1>2, <2>1, <2>2, ConnectStep
  <1>4. ASSUME NEW amount \in 0 .. MaxAmount, NEW seed \in NextSeeds, ConnectBlockWithBalance(amount, seed)
        PROVE  SealIInv'
    <2>1. PICK delta, u : delta = BalanceBlock(amount) /\ delta \in SealDeltas /\ u \in SealStates /\ Leads(tip, delta, u)
      BY <1>1, BalanceBlockLeads
    <2>2. OrNoChange(delta) = delta /\ Connect(delta, seed)
      BY <1>4, <2>1, Stored DEF ConnectBlockWithBalance
    <2> QED BY <1>2, <2>1, <2>2, ConnectStep
  <1>5. ASSUME NEW seed \in NextSeeds, ConnectBlockWithoutAccounting(seed)
        PROVE  SealIInv'
    <2>1. PICK u : u = tip
      OBVIOUS
    <2>2. u \in SealStates /\ Leads(tip, OrNoChange(NoData), u)
      BY <1>1, <2>1, Stored, LeadsNowhere
    <2>3. Connect(NoData, seed) /\ NoData \in SealDeltas \cup {NoData}
      BY <1>5 DEF ConnectBlockWithoutAccounting
    <2> QED BY <1>2, <2>2, <2>3, ConnectStep
  <1>6. CASE Disconnect
    BY <1>6, DisconnectStep
  <1>7. CASE UNCHANGED sealVars
    <2>1. /\ blocks' = blocks /\ tip' = tip /\ sealed' = sealed /\ epochDelta' = epochDelta
          /\ epochUndo' = epochUndo /\ epochData' = epochData /\ failed' = failed
      BY <1>7 DEF sealVars
    <2> QED BY <2>1 DEF SealIInv
  <1> QED BY <1>3, <1>4, <1>5, <1>6, <1>7 DEF SealNext

LEMMA SealIInvImplies == SealIInv => SealInv
  <1> SUFFICES ASSUME SealIInv PROVE SealInv
    OBVIOUS
  <1>1. PICK bs, t, s, ed, eu, data : /\ bs = blocks /\ t = tip /\ s = sealed /\ ed = epochDelta
                                      /\ eu = epochUndo /\ data = epochData
    OBVIOUS
  <1>2. /\ ChainHolds(bs, t) /\ DeltasHold(bs, ed) /\ SealedHolds(bs, s)
        /\ UndosHold(bs, ed, eu) /\ RandomHolds(bs, data) /\ failed = FALSE
    BY <1>1 DEF SealIInv, Holds
  <1>3. Len(bs) \in Nat /\ Len(bs) <= MaxHeight /\ \A h \in 0 .. Len(bs) : ReplayOf(bs, h) \in SealStates
    BY <1>2 DEF ChainHolds
  <1>4. Height = Len(bs) /\ \A h : Replay(h) = ReplayOf(bs, h)
    BY <1>1 DEF Height, Replay
  <1>5. SealedIsPastState
    BY <1>1, <1>2, <1>4 DEF SealedIsPastState, SealedHolds
  <1>6. EpochIndexFromHeight(Len(bs)) \in Nat
    BY <1>3, EpochOf
  <1>7. ASSUME NEW e \in Epochs, ~(e > EpochIndexFromHeight(Len(bs)))
        PROVE  /\ Before(e) \in 0 .. Len(bs) /\ Smaller(LastHeight(e), Len(bs)) \in 0 .. Len(bs)
    <2>1. e \in Nat /\ LastHeight(e) \in Nat /\ e <= EpochIndexFromHeight(Len(bs))
      BY <1>6, <1>7, EpochsAre, SealedEarlier
    <2>2. Smaller(LastHeight(e), Len(bs)) \in 0 .. Len(bs)
      BY <1>3, <2>1 DEF Smaller
    <2>3. FirstHeight(e) <= Len(bs) /\ FirstHeight(e) \in Int
      <3>1. PICK E \in Nat : E = EpochIndexFromHeight(Len(bs)) /\ FirstHeight(E) <= Len(bs)
        BY <1>3, EpochOf
      <3>2. FirstHeight(e) <= FirstHeight(E) /\ FirstHeight(e) \in Int /\ FirstHeight(E) \in Int
        BY <2>1, <3>1, EpochOrder, EpochHeights
      <3> QED BY <1>3, <3>1, <3>2
    <2> QED BY <1>3, <2>2, <2>3 DEF Before, Larger
  <1>8. EpochDeltasAreCurrent
    <2> SUFFICES ASSUME NEW e \in Epochs
                 PROVE  IF e > EpochIndexFromHeight(Len(bs)) THEN ed[e] = NoData
                        ELSE /\ Applies(ReplayOf(bs, Before(e)), OrNoChange(ed[e]))
                             /\ Apply(ReplayOf(bs, Before(e)), OrNoChange(ed[e])) =
                                  ReplayOf(bs, Smaller(LastHeight(e), Len(bs)))
      BY <1>1, <1>4 DEF EpochDeltasAreCurrent, Before
    <2>1. CASE e > EpochIndexFromHeight(Len(bs))
      BY <1>2, <2>1 DEF DeltasHold
    <2>2. CASE ~(e > EpochIndexFromHeight(Len(bs)))
      <3>1. PICK x, y, d : /\ x = ReplayOf(bs, Before(e)) /\ d = OrNoChange(ed[e])
                           /\ y = ReplayOf(bs, Smaller(LastHeight(e), Len(bs)))
        OBVIOUS
      <3>2. Leads(x, d, y)
        BY <1>2, <2>2, <3>1 DEF DeltasHold
      <3>3. x \in SealState /\ y \in SealStates
        BY <1>3, <1>7, <2>2, <3>1, SealTypes
      <3>4. Applies(x, d)
        BY <3>2, <3>3, LeadsApplies
      <3> QED BY <2>2, <3>1, <3>2, <3>4 DEF Leads
    <2> QED BY <2>1, <2>2
  <1>9. UndosAreOfSealedEpochs
    <2> SUFFICES ASSUME NEW e \in Epochs
                 PROVE  eu[e] # NoData <=> e <= SealedEpochIndex(Len(bs)) /\ ed[e] # NoData
      BY <1>1, <1>4 DEF UndosAreOfSealedEpochs
    <2>1. eu[e] = IF e <= SealedEpochIndex(Len(bs)) /\ ed[e] # NoData THEN InvertAll(ed[e]) ELSE NoData
      BY <1>2 DEF UndosHold
    <2>2. ASSUME e <= SealedEpochIndex(Len(bs)), ed[e] # NoData
          PROVE  InvertAll(ed[e]) # NoData
      <3>1. e \in Nat /\ ~(e > EpochIndexFromHeight(Len(bs)))
        BY <1>3, <1>6, <2>2, EpochsAre, SealedBefore
      <3>2. PICK x, y, d : /\ x = ReplayOf(bs, Before(e)) /\ d = ed[e]
                           /\ y = ReplayOf(bs, Smaller(LastHeight(e), Len(bs)))
        OBVIOUS
      <3>3. OrNoChange(d) = d
        BY <1>2, <2>2, <3>2, Stored DEF DeltasHold
      <3>4. Leads(x, d, y) /\ x \in SealState
        BY <1>2, <1>3, <1>7, <3>1, <3>2, <3>3, SealTypes DEF DeltasHold
      <3>5. InvertAll(d) \in SealDeltas
        BY <3>4, LeadsBack DEF Leads
      <3> QED BY <3>2, <3>5, Stored
    <2> QED BY <2>1, <2>2
  <1>10. SealTypeOK
    <2>1. tip \in SealStates
      BY <1>1, <1>2, TipState
    <2>2. sealed \in SealStates
      <3>1. PICK e \in Int : e = SealedEpochIndex(Len(bs)) /\ e < EpochIndexFromHeight(Len(bs))
        BY <1>3, SealedBefore
      <3>2. LastHeight(e) < FirstHeight(EpochIndexFromHeight(Len(bs))) /\ LastHeight(e) \in Int
        BY <1>6, <3>1, EpochOrder, EpochHeights
      <3>3. FirstHeight(EpochIndexFromHeight(Len(bs))) <= Len(bs) /\ FirstHeight(EpochIndexFromHeight(Len(bs))) \in Int
        BY <1>3, <1>6, EpochOf, EpochHeights
      <3>4. Larger(LastHeight(e), 0) \in 0 .. Len(bs)
        BY <1>3, <3>2, <3>3 DEF Larger
      <3> QED BY <1>1, <1>2, <1>3, <3>1, <3>4 DEF SealedHolds
    <2>3. DOMAIN ed = Epochs /\ DOMAIN eu = Epochs /\ DOMAIN data = Epochs
      BY <1>2 DEF DeltasHold, UndosHold, RandomHolds
    <2> QED BY <1>1, <1>2, <1>3, <2>1, <2>2, <2>3 DEF SealTypeOK
  <1>11. SealsNeverFail
    BY <1>2 DEF SealsNeverFail
  <1>12. RandomnessIsOfMainChain
    <2>1. PICK e : e = SealedEpochIndex(Len(bs) + 1)
      OBVIOUS
    <2> SUFFICES ASSUME e >= 0, LastHeight(e) <= Len(bs)
                 PROVE  data[e] = RandomnessOf(bs, e)
      BY <1>1, <1>4, <2>1 DEF RandomnessIsOfMainChain
    <2>2. e \in Nat /\ e < EpochIndexFromHeight(Len(bs) + 1)
      BY <1>3, <2>1, SealedBefore
    <2>3. e <= EpochIndexFromHeight(Len(bs))
      <3>1. EpochIndexFromHeight(Len(bs) + 1) <= EpochIndexFromHeight(Len(bs)) + 1 /\ EpochIndexFromHeight(Len(bs) + 1) \in Nat
        <4>1. PICK h \in Nat : h = Len(bs) /\ h + 1 \in Nat
          BY <1>3
        <4>2. EpochIndexFromHeight(h + 1) \in Nat /\ EpochIndexFromHeight(h) \in Nat
          BY <4>1, EpochOf
        <4>3. EpochIndexFromHeight(h + 1) = IF IsLastBlockInEpoch(h) THEN EpochIndexFromHeight(h) + 1
                                            ELSE EpochIndexFromHeight(h)
          BY <4>1, NextHeight
        <4>4. EpochIndexFromHeight(h + 1) <= EpochIndexFromHeight(h) + 1
          BY <4>2, <4>3
        <4> QED BY <4>1, <4>2, <4>4
      <3> QED BY <1>6, <2>2, <3>1
    <2>4. e \in Epochs
      BY <1>3, <1>6, <2>2, <2>3, EpochsAre, EpochAssumption
    <2> QED BY <1>2, <2>4 DEF RandomHolds
  <1> QED BY <1>5, <1>8, <1>9, <1>10, <1>11, <1>12 DEF SealInv

\* What the chainstate stores besides the accounting state at the tip, however blocks were
\* connected and disconnected and with epochs of any length and any distance to the sealed
\* one: the sealed state is that of the main chain at the end of the epoch that
\* sealed_epoch_index names, the delta of every epoch leads from the state before it to the
\* state after it, exactly the sealed epochs can be unsealed, no merge fails, and the
\* randomness the next block is checked with stems from the main chain alone.
THEOREM SealSound == SealSpec => []SealInv
  <1>1. SealInit => SealIInv
    BY SealIInvInit
  <1>2. SealIInv /\ [SealNext]_sealVars => SealIInv'
    BY SealIInvNext
  <1>3. SealIInv => SealInv
    BY SealIInvImplies
  <1> QED BY <1>1, <1>2, <1>3, PTL DEF SealSpec
----------------------------------------------------------------------------
(* Sums. *)

\* One step of the sum of f over s, when it has the sums of smaller sets.
SumStep(f, it, s) ==
  IF s = {} THEN 0 ELSE LET x == CHOOSE y \in s : TRUE IN f[x] + it[s \ {x}]

\* it is the function that SumFunction computes.
IsSum(f, S, it) == it = [s \in SUBSET S |-> SumStep(f, it, s)]

\* Subsets of S with at most n elements.
UpTo(S, n) == {s \in SUBSET S : Cardinality(s) <= n}
IsSumUpTo(f, S, n, it) == it = [s \in UpTo(S, n) |-> SumStep(f, it, s)]

\* The sums of smaller sets are used only.
LEMMA SmallerSet ==
  ASSUME NEW S, IsFiniteSet(S), NEW s \in SUBSET S, s # {}
  PROVE  LET x == CHOOSE y \in s : TRUE
         IN  /\ x \in s /\ s \ {x} \in SUBSET S
             /\ Cardinality(s) \in Nat \ {0}
             /\ Cardinality(s \ {x}) = Cardinality(s) - 1
  <1> DEFINE x == CHOOSE y \in s : TRUE
  <1>1. x \in s
    OBVIOUS
  <1> HIDE DEF x
  <1>2. IsFiniteSet(s)
    BY FS_Subset
  <1>3. Cardinality(s) \in Nat /\ Cardinality(s) # 0
    BY <1>2, FS_EmptySet, FS_CardinalityType
  <1>4. Cardinality(s \ {x}) = Cardinality(s) - 1
    BY <1>1, <1>2, FS_RemoveElement
  <1> QED BY <1>1, <1>3, <1>4 DEF x

\* There is such a function for the sets of at most N elements.
LEMMA SumsExist ==
  ASSUME NEW S, IsFiniteSet(S), NEW f, NEW N \in Nat
  PROVE  \E it : IsSumUpTo(f, S, N, it)
  <1> DEFINE Good(n, it) == IsSumUpTo(f, S, n, it)
             T == {n \in Nat : ~(\E it : Good(n, it))}
  <1> SUFFICES ASSUME N \in T PROVE FALSE
    OBVIOUS
  <1>1. PICK m \in T : \A n \in T : m <= n
    <2>1. T \subseteq Nat /\ T # {}
      OBVIOUS
    <2> HIDE DEF T
    <2> QED BY <2>1, LeastNumber
  <1>2. ASSUME NEW s \in SUBSET S
        PROVE  Cardinality(s) \in Nat /\ (Cardinality(s) = 0 <=> s = {})
    BY FS_Subset, FS_EmptySet, FS_CardinalityType
  <1>3. CASE m = 0
    <2> DEFINE it == [s \in UpTo(S, 0) |-> 0]
    <2>1. \A s \in UpTo(S, 0) : s = {}
      BY <1>2 DEF UpTo
    <2>2. \A s \in UpTo(S, 0) : SumStep(f, it, s) = 0
      BY <2>1 DEF SumStep
    <2>3. Good(0, it)
      BY <2>2 DEF IsSumUpTo
    <2> QED BY <1>3, <2>3
  <1>4. CASE m # 0
    <2>1. m \in Nat /\ m - 1 \in Nat /\ ~(m <= m - 1)
      BY <1>4
    <2>2. PICK g : Good(m - 1, g)
      BY <1>1, <2>1
    <2> DEFINE it == [s \in UpTo(S, m) |-> SumStep(f, g, s)]
    <2>3. ASSUME NEW s \in UpTo(S, m - 1)
          PROVE  s \in UpTo(S, m) /\ g[s] = it[s]
      <3>1. s \in UpTo(S, m)
        BY <1>2, <2>1 DEF UpTo
      <3>2. g[s] = SumStep(f, g, s)
        BY <2>2 DEF IsSumUpTo
      <3> QED BY <3>1, <3>2
    <2>4. ASSUME NEW s \in UpTo(S, m)
          PROVE  SumStep(f, g, s) = SumStep(f, it, s)
      <3>1. CASE s = {}
        BY <3>1 DEF SumStep
      <3>2. CASE s # {}
        <4> DEFINE x == CHOOSE y \in s : TRUE
        <4>1. s \in SUBSET S /\ Cardinality(s) <= m
          BY DEF UpTo
        <4>2. s \ {x} \in SUBSET S /\ Cardinality(s \ {x}) = Cardinality(s) - 1 /\ Cardinality(s) \in Nat
          BY <3>2, <4>1, SmallerSet
        <4>3. s \ {x} \in UpTo(S, m - 1)
          BY <2>1, <4>1, <4>2 DEF UpTo
        <4>4. g[s \ {x}] = it[s \ {x}]
          BY <2>3, <4>3
        <4> QED BY <4>4 DEF SumStep
      <3> QED BY <3>1, <3>2
    <2>5. Good(m, it)
      BY <2>4 DEF IsSumUpTo
    <2> QED BY <2>5
  <1> QED BY <1>3, <1>4

\* The function exists, so SumFunction computes it.
LEMMA SumIs ==
  ASSUME NEW f, IsFiniteSet(DOMAIN f)
  PROVE  \E it : /\ SumFunction(f) = it[DOMAIN f]
                 /\ \A s \in SUBSET (DOMAIN f) : it[s] = SumStep(f, it, s)
  <1> DEFINE S == DOMAIN f
             it == CHOOSE i : IsSum(f, S, i)
  <1>1. SumFunction(f) = it[S]
    BY DEF SumFunction, SumFunctionOnSet, FoldFunctionOnSet, MapThenFoldSet, IsSum, SumStep
  <1>2. Cardinality(S) \in Nat
    BY FS_CardinalityType
  <1>3. UpTo(S, Cardinality(S)) = SUBSET S
    BY FS_Subset DEF UpTo
  <1>4. \E i : IsSumUpTo(f, S, Cardinality(S), i)
    BY <1>2, SumsExist
  <1>5. \E i : IsSum(f, S, i)
    BY <1>3, <1>4 DEF IsSum, IsSumUpTo
  <1>6. IsSum(f, S, it)
    BY <1>5
  <1> HIDE DEF it
  <1>7. \A s \in SUBSET S : it[s] = SumStep(f, it, s)
    BY <1>6 DEF IsSum
  <1> QED BY <1>1, <1>7

\* When one value changes the sum changes by as much, and a sum is an integer.
LEMMA SumChanges ==
  ASSUME NEW S, IsFiniteSet(S), NEW f \in [S -> Int], NEW g \in [S -> Int], NEW o \in S,
         \A x \in S \ {o} : g[x] = f[x]
  PROVE  SumFunction(f) \in Int /\ SumFunction(g) = SumFunction(f) + (g[o] - f[o])
  <1>1. PICK F : /\ SumFunction(f) = F[S]
                 /\ \A s \in SUBSET S : F[s] = SumStep(f, F, s)
    BY SumIs
  <1>2. PICK G : /\ SumFunction(g) = G[S]
                 /\ \A s \in SUBSET S : G[s] = SumStep(g, G, s)
    <2>1. DOMAIN g = S
      OBVIOUS
    <2> QED BY <2>1, SumIs
  <1> DEFINE Good(s) == F[s] \in Int /\ G[s] = F[s] + (IF o \in s THEN g[o] - f[o] ELSE 0)
             T == {n \in Nat : \E s \in SUBSET S : Cardinality(s) = n /\ ~Good(s)}
  <1>3. T = {}
    <2> SUFFICES ASSUME T # {} PROVE FALSE
      OBVIOUS
    <2>1. PICK m \in T : \A n \in T : m <= n
      <3>1. T \subseteq Nat
        OBVIOUS
      <3> HIDE DEF T
      <3> QED BY <3>1, LeastNumber
    <2>2. PICK s \in SUBSET S : Cardinality(s) = m /\ ~Good(s)
      BY <2>1
    <2>3. CASE s = {}
      <3>1. F[s] = 0 /\ G[s] = 0
        BY <1>1, <1>2, <2>3 DEF SumStep
      <3> QED BY <2>2, <2>3, <3>1
    <2>4. CASE s # {}
      <3> DEFINE x == CHOOSE y \in s : TRUE
                 r == s \ {x}
      <3>1. x \in s /\ r \in SUBSET S /\ Cardinality(r) = m - 1 /\ m \in Nat \ {0}
        BY <2>2, <2>4, SmallerSet
      <3>2. F[s] = f[x] + F[r] /\ G[s] = g[x] + G[r]
        BY <1>1, <1>2, <2>4 DEF SumStep
      <3> HIDE DEF x, r
      <3>3. Good(r)
        <4>1. m - 1 \in Nat /\ m - 1 \notin T
          BY <2>1, <3>1
        <4> QED BY <3>1, <4>1
      <3>4. r = s \ {x}
        BY DEF r
      <3>5. f[x] \in Int /\ g[x] \in Int /\ f[o] \in Int /\ g[o] \in Int
        BY <3>1
      <3>6. CASE x = o
        <4>1. o \in s /\ o \notin r
          BY <3>1, <3>4, <3>6
        <4> QED BY <2>2, <3>2, <3>3, <3>5, <3>6, <4>1
      <3>7. CASE x # o
        <4>1. g[x] = f[x] /\ (o \in s <=> o \in r)
          BY <3>1, <3>4, <3>7
        <4> QED BY <2>2, <3>2, <3>3, <3>5, <4>1
      <3> QED BY <3>6, <3>7
    <2> QED BY <2>3, <2>4
  <1>4. Good(S)
    <2>1. Cardinality(S) \in Nat
      BY FS_CardinalityType
    <2> QED BY <1>3, <2>1
  <1> QED BY <1>1, <1>2, <1>4

\* A sum of nothing but zeros is zero.
LEMMA SumOfZeros ==
  ASSUME NEW S, IsFiniteSet(S), NEW f, DOMAIN f = S, \A x \in S : f[x] = 0
  PROVE  SumFunction(f) = 0
  <1>1. PICK F : /\ SumFunction(f) = F[S]
                 /\ \A s \in SUBSET S : F[s] = SumStep(f, F, s)
    BY SumIs
  <1> DEFINE T == {n \in Nat : \E s \in SUBSET S : Cardinality(s) = n /\ F[s] # 0}
  <1>2. T = {}
    <2> SUFFICES ASSUME T # {} PROVE FALSE
      OBVIOUS
    <2>1. PICK m \in T : \A n \in T : m <= n
      <3>1. T \subseteq Nat
        OBVIOUS
      <3> HIDE DEF T
      <3> QED BY <3>1, LeastNumber
    <2>2. PICK s \in SUBSET S : Cardinality(s) = m /\ F[s] # 0
      BY <2>1
    <2>3. CASE s = {}
      BY <1>1, <2>2, <2>3 DEF SumStep
    <2>4. CASE s # {}
      <3> DEFINE x == CHOOSE y \in s : TRUE
                 r == s \ {x}
      <3>1. x \in s /\ r \in SUBSET S /\ Cardinality(r) = m - 1 /\ m \in Nat \ {0}
        BY <2>2, <2>4, SmallerSet
      <3>2. F[s] = f[x] + F[r]
        BY <1>1, <2>4 DEF SumStep
      <3> HIDE DEF x, r
      <3>3. m - 1 \in Nat /\ m - 1 \notin T
        BY <2>1, <3>1
      <3>4. F[r] = 0 /\ f[x] = 0
        BY <3>1, <3>3
      <3> QED BY <2>2, <3>2, <3>4
    <2> QED BY <2>3, <2>4
  <1>3. Cardinality(S) \in Nat
    BY FS_CardinalityType
  <1> QED BY <1>1, <1>2, <1>3
\* The last position of a set of positions.
LEMMA LastPosition ==
  ASSUME NEW n \in Nat, NEW t \in SUBSET (1 .. n), t # {}
  PROVE  Max(t) \in t /\ \A j \in t : Max(t) >= j
  <1> DEFINE T == {n - i : i \in t}
  <1>1. T \subseteq Nat /\ T # {}
    <2>1. \A i \in t : n - i \in Nat
      OBVIOUS
    <2>2. PICK i \in t : TRUE
      OBVIOUS
    <2> QED BY <2>1, <2>2
  <1>2. PICK m \in T : \A k \in T : m <= k
    <2> HIDE DEF T
    <2> QED BY <1>1, LeastNumber
  <1>3. PICK x \in t : m = n - x
    BY <1>2
  <1>4. \A y \in t : x >= y
    <2> TAKE y \in t
    <2>1. n - y \in T
      OBVIOUS
    <2>2. n - x <= n - y
      BY <1>2, <1>3, <2>1
    <2> QED BY <2>2
  <1> QED BY <1>4 DEF Max

LEMMA SmallerPositions ==
  ASSUME NEW n \in Nat, NEW t \in SUBSET (1 .. n), t # {}
  PROVE  /\ t \ {Max(t)} \in SUBSET (1 .. n)
         /\ Cardinality(t) \in Nat \ {0}
         /\ Cardinality(t \ {Max(t)}) = Cardinality(t) - 1
  <1>1. Max(t) \in t
    BY LastPosition
  <1>2. IsFiniteSet(1 .. n)
    BY FS_Interval
  <1>3. IsFiniteSet(t)
    BY <1>2, FS_Subset
  <1>4. Cardinality(t) \in Nat /\ Cardinality(t) # 0
    BY <1>3, FS_EmptySet, FS_CardinalityType
  <1>5. Cardinality(t \ {Max(t)}) = Cardinality(t) - 1
    BY <1>1, <1>3, FS_RemoveElement
  <1> QED BY <1>4, <1>5

\* What is folded: undos of a block, or payments of a reward.
Folded(op, v, x) == IF op = "undo" THEN UndoOp(v, x) ELSE Pay(v, x)

\* One step of the fold, when it has the results for smaller sets of positions.
FoldStep(op, base, us, it, t) ==
  IF t = {} THEN base ELSE LET i == Max(t) IN Folded(op, it[t \ {i}], us[i])

IsFoldUpTo(op, base, us, S, n, it) == it = [t \in UpTo(S, n) |-> FoldStep(op, base, us, it, t)]

LEMMA FoldsExist ==
  ASSUME NEW op, NEW base, NEW us, NEW n \in Nat, NEW N \in Nat
  PROVE  \E it : IsFoldUpTo(op, base, us, 1 .. n, N, it)
  <1> DEFINE S == 1 .. n
             T == {k \in Nat : ~(\E it : IsFoldUpTo(op, base, us, S, k, it))}
  <1> SUFFICES ASSUME N \in T PROVE FALSE
    OBVIOUS
  <1>1. PICK m \in T : \A k \in T : m <= k
    <2>1. T \subseteq Nat /\ T # {}
      OBVIOUS
    <2> HIDE DEF T
    <2> QED BY <2>1, LeastNumber
  <1>2. ASSUME NEW t \in SUBSET S
        PROVE  Cardinality(t) \in Nat /\ (Cardinality(t) = 0 <=> t = {})
    <2>1. IsFiniteSet(S)
      BY FS_Interval
    <2>2. IsFiniteSet(t)
      BY <2>1, FS_Subset
    <2> QED BY <2>2, FS_EmptySet, FS_CardinalityType
  <1>3. CASE m = 0
    <2> DEFINE it == [t \in UpTo(S, 0) |-> base]
    <2>1. \A t \in UpTo(S, 0) : t = {}
      BY <1>2 DEF UpTo
    <2>2. \A t \in UpTo(S, 0) : FoldStep(op, base, us, it, t) = base
      BY <2>1 DEF FoldStep
    <2>3. IsFoldUpTo(op, base, us, S, 0, it)
      BY <2>2 DEF IsFoldUpTo
    <2> QED BY <1>3, <2>3
  <1>4. CASE m # 0
    <2>1. m \in Nat /\ m - 1 \in Nat /\ ~(m <= m - 1)
      BY <1>4
    <2>2. PICK g : IsFoldUpTo(op, base, us, S, m - 1, g)
      BY <1>1, <2>1
    <2> DEFINE it == [t \in UpTo(S, m) |-> FoldStep(op, base, us, g, t)]
    <2>3. ASSUME NEW t \in UpTo(S, m - 1)
          PROVE  t \in UpTo(S, m) /\ g[t] = it[t]
      <3>1. t \in UpTo(S, m)
        BY <1>2, <2>1 DEF UpTo
      <3>2. g[t] = FoldStep(op, base, us, g, t)
        BY <2>2 DEF IsFoldUpTo
      <3> QED BY <3>1, <3>2
    <2>4. ASSUME NEW t \in UpTo(S, m)
          PROVE  FoldStep(op, base, us, g, t) = FoldStep(op, base, us, it, t)
      <3>1. CASE t = {}
        BY <3>1 DEF FoldStep
      <3>2. CASE t # {}
        <4>1. t \in SUBSET S /\ Cardinality(t) <= m
          BY DEF UpTo
        <4>2. /\ t \ {Max(t)} \in SUBSET S
              /\ Cardinality(t \ {Max(t)}) = Cardinality(t) - 1 /\ Cardinality(t) \in Nat
          BY <3>2, <4>1, SmallerPositions
        <4>3. t \ {Max(t)} \in UpTo(S, m - 1)
          BY <2>1, <4>1, <4>2 DEF UpTo
        <4>4. g[t \ {Max(t)}] = it[t \ {Max(t)}]
          BY <2>3, <4>3
        <4> QED BY <4>4 DEF FoldStep
      <3> QED BY <3>1, <3>2
    <2>5. IsFoldUpTo(op, base, us, S, m, it)
      BY <2>4 DEF IsFoldUpTo
    <2> QED BY <2>5
  <1> QED BY <1>3, <1>4

Folds(op, base, us, n, it) == \A t \in SUBSET (1 .. n) : it[t] = FoldStep(op, base, us, it, t)

\* h has the results after each of the positions.
OneByOne(op, base, us, n, h) ==
  h[0] = base /\ \A i \in 1 .. n : h[i] = Folded(op, h[i - 1], us[i])

\* A fold over all positions, one by one.
LEMMA FoldIs ==
  ASSUME NEW op, NEW base, NEW us, NEW n \in Nat, NEW it, Folds(op, base, us, n, it)
  PROVE  \E h : OneByOne(op, base, us, n, h) /\ it[1 .. n] = h[n]
  <1> DEFINE S == 1 .. n
             h == [i \in 0 .. n |-> it[1 .. i]]
  <1>1. h[0] = base
    <2>1. 1 .. 0 = {}
      OBVIOUS
    <2>2. it[{}] = base
      BY DEF FoldStep, Folds
    <2> QED BY <2>1, <2>2
  <1>2. ASSUME NEW i \in 1 .. n
        PROVE  h[i] = Folded(op, h[i - 1], us[i])
    <2>1. (1 .. i) \in SUBSET S /\ 1 .. i # {}
      OBVIOUS
    <2>2. Max(1 .. i) = i
      <3>1. Max(1 .. i) \in 1 .. i /\ \A j \in 1 .. i : Max(1 .. i) >= j
        BY <2>1, LastPosition
      <3>2. i \in 1 .. i
        OBVIOUS
      <3>3. Max(1 .. i) >= i
        BY <3>1, <3>2
      <3> QED BY <3>1, <3>3
    <2>3. (1 .. i) \ {i} = 1 .. (i - 1)
      OBVIOUS
    <2>4. it[1 .. i] = Folded(op, it[1 .. (i - 1)], us[i])
      BY <2>1, <2>2, <2>3 DEF FoldStep, Folds
    <2> QED BY <2>4
  <1>3. it[1 .. n] = h[n]
    OBVIOUS
  <1> HIDE DEF h
  <1> QED BY <1>1, <1>2, <1>3 DEF OneByOne

\* All subsets of the positions.
LEMMA AllPositions ==
  ASSUME NEW n \in Nat
  PROVE  Cardinality(1 .. n) \in Nat /\ UpTo(1 .. n, Cardinality(1 .. n)) = SUBSET (1 .. n)
  <1> DEFINE S == 1 .. n
  <1>1. IsFiniteSet(S)
    BY FS_Interval
  <1>2. Cardinality(S) \in Nat
    BY <1>1, FS_CardinalityType
  <1> HIDE DEF S
  <1>3. UpTo(S, Cardinality(S)) = SUBSET S
    BY <1>1, <1>2, FS_Subset DEF UpTo
  <1> QED BY <1>2, <1>3 DEF S

\* What FoldLeft computes of undos, and of payments.
IsUndoFold(base, us, it) ==
  it = [t \in SUBSET (DOMAIN us) |-> IF t = {} THEN base
                                     ELSE LET i == Max(t) IN UndoOp(it[t \ {i}], us[i])]
IsPayFold(base, us, it) ==
  it = [t \in SUBSET (DOMAIN us) |-> IF t = {} THEN base
                                     ELSE LET i == Max(t) IN Pay(it[t \ {i}], us[i])]

\* The verifiers after each of the undos.
LEMMA UndoOneByOne ==
  ASSUME NEW n \in Nat, NEW base, NEW us, DOMAIN us = 1 .. n
  PROVE  \E h : OneByOne("undo", base, us, n, h) /\ FoldLeft(UndoOp, base, us) = h[n]
  <1> DEFINE S == 1 .. n
             it == CHOOSE f : IsUndoFold(base, us, f)
  <1>1. FoldLeft(UndoOp, base, us) = it[S]
    BY DEF FoldLeft, MapThenFoldSet, IsUndoFold
  <1>2. PICK g : IsFoldUpTo("undo", base, us, S, Cardinality(S), g)
    BY AllPositions, FoldsExist
  <1>3. IsUndoFold(base, us, g)
    BY <1>2, AllPositions DEF IsFoldUpTo, FoldStep, Folded, IsUndoFold
  <1>4. IsUndoFold(base, us, it)
    BY <1>3
  <1> HIDE DEF it
  <1>5. Folds("undo", base, us, n, it)
    BY <1>4 DEF IsUndoFold, FoldStep, Folded, Folds
  <1>6. PICK h : OneByOne("undo", base, us, n, h) /\ it[1 .. n] = h[n]
    BY <1>5, FoldIs
  <1> QED BY <1>1, <1>6

\* The verifiers after each of the payments.
LEMMA PayOneByOne ==
  ASSUME NEW n \in Nat, NEW base, NEW us, DOMAIN us = 1 .. n
  PROVE  \E h : OneByOne("pay", base, us, n, h) /\ FoldLeft(Pay, base, us) = h[n]
  <1> DEFINE S == 1 .. n
             it == CHOOSE f : IsPayFold(base, us, f)
  <1>1. FoldLeft(Pay, base, us) = it[S]
    BY DEF FoldLeft, MapThenFoldSet, IsPayFold
  <1>2. PICK g : IsFoldUpTo("pay", base, us, S, Cardinality(S), g)
    BY AllPositions, FoldsExist
  <1>3. IsPayFold(base, us, g)
    BY <1>2, AllPositions DEF IsFoldUpTo, FoldStep, Folded, IsPayFold
  <1>4. IsPayFold(base, us, it)
    BY <1>3
  <1> HIDE DEF it
  <1>5. Folds("pay", base, us, n, it)
    BY <1>4 DEF IsPayFold, FoldStep, Folded, Folds
  <1>6. PICK h : OneByOne("pay", base, us, n, h) /\ it[1 .. n] = h[n]
    BY <1>5, FoldIs
  <1> QED BY <1>1, <1>6
----------------------------------------------------------------------------
(* Shares of a reward. *)

\* A part b of c has at most all of a, rounded down.
LEMMA PartOf ==
  ASSUME NEW a \in Nat, NEW b \in Nat, NEW c \in Nat, c > 0
  PROVE  /\ (a * b) \div c \in Nat
         /\ c * ((a * b) \div c) <= a * b
         /\ b <= c => (a * b) \div c <= a
  <1>1. PICK n : n = a * b
    OBVIOUS
  <1>2. n \in Nat
    BY <1>1
  <1>3. PICK q : q = n \div c
    OBVIOUS
  <1>4. n = c * q + (n % c) /\ n % c \in 0 .. (c - 1) /\ q \in Int
    BY <1>2, <1>3
  <1>5. q >= 0
    BY <1>2, <1>4
  <1>6. c * q <= n
    BY <1>2, <1>4
  <1>7. ASSUME b <= c PROVE q <= a
    <2>1. a * b <= a * c
      BY <1>7
    <2>2. a * c = c * a
      OBVIOUS
    <2>3. c * q <= c * a
      BY <1>1, <1>2, <1>4, <1>6, <2>1, <2>2
    <2> QED BY <1>4, <2>3
  <1> QED BY <1>1, <1>3, <1>4, <1>5, <1>6, <1>7

\* Who has more has a larger part.
LEMMA LargerPart ==
  ASSUME NEW a \in Nat, NEW b \in Nat, NEW d \in Nat, NEW c \in Nat, c > 0, b <= d
  PROVE  (a * b) \div c <= (a * d) \div c
  <1>1. PICK m, n : m = a * b /\ n = a * d
    OBVIOUS
  <1>2. m \in Nat /\ n \in Nat
    BY <1>1
  <1>3. m <= n
    BY <1>1
  <1>4. PICK x, y : x = m \div c /\ y = n \div c
    OBVIOUS
  <1>5. m = c * x + (m % c) /\ m % c \in 0 .. (c - 1) /\ x \in Int
    BY <1>2, <1>4
  <1>6. n = c * y + (n % c) /\ n % c \in 0 .. (c - 1) /\ y \in Int
    BY <1>2, <1>4
  <1>7. SUFFICES ASSUME y < x PROVE FALSE
    BY <1>1, <1>4, <1>5, <1>6
  <1>8. y + 1 <= x
    BY <1>5, <1>6, <1>7
  <1>9. c * (y + 1) <= c * x
    BY <1>5, <1>6, <1>8
  <1>10. c * (y + 1) = c * y + c
    BY <1>6
  <1> QED BY <1>3, <1>5, <1>6, <1>9, <1>10

\* What the staker takes of a reward: the cost, a part of the rest, the margin.
StakerPart(total, cost, own, balance) == ((total - cost) * own) \div balance

StakerShare(total, cost, part, m) == cost + part + (((total - cost) - part) * m) \div 1000

\* What the staker gets of what is left after the cost: nothing, or the part of what he owns.
IsPart(part, total, cost, own, balance) ==
  part = 0 \/ part = StakerPart(total, cost, own, balance)

TakesPart(total, cost, m, own, balance, part) ==
  /\ total \in Nat /\ cost \in Nat /\ cost <= total /\ m \in 0 .. 1000
  /\ own \in Nat /\ balance \in Nat /\ balance > 0 /\ own <= balance
  /\ IsPart(part, total, cost, own, balance)

\* The staker takes no more than there is.
LEMMA StakerTakes ==
  ASSUME NEW total, NEW cost, NEW m, NEW own, NEW balance, NEW part,
         TakesPart(total, cost, m, own, balance, part)
  PROVE  StakerShare(total, cost, part, m) \in 0 .. total
  <1> USE DEF TakesPart
  <1>1. PICK rest : rest = total - cost
    OBVIOUS
  <1>2. rest \in Nat /\ total = cost + rest
    BY <1>1
  <1>3. part \in Nat /\ part <= rest
    BY <1>1, <1>2, PartOf DEF IsPart, StakerPart
  <1>4. PICK left : left = rest - part
    OBVIOUS
  <1>5. left \in Nat /\ rest = part + left
    BY <1>2, <1>3, <1>4
  <1>6. PICK x : x = (left * m) \div 1000
    OBVIOUS
  <1>7. x \in Nat /\ x <= left
    BY <1>5, <1>6, PartOf
  <1>8. cost + part + x \in 0 .. total
    BY <1>2, <1>3, <1>5, <1>7
  <1> QED BY <1>1, <1>4, <1>6, <1>8 DEF StakerShare

\* Sums are compared one by one.
LEMMA SumBelow ==
  ASSUME NEW S, IsFiniteSet(S), NEW f \in [S -> Int], NEW g \in [S -> Int],
         NEW a \in Nat, NEW b \in Nat, \A x \in S : a * f[x] <= b * g[x]
  PROVE  /\ SumFunction(f) \in Int /\ SumFunction(g) \in Int
         /\ a * SumFunction(f) <= b * SumFunction(g)
  <1>1. PICK F : /\ SumFunction(f) = F[S]
                 /\ \A s \in SUBSET S : F[s] = SumStep(f, F, s)
    BY SumIs
  <1>2. PICK G : /\ SumFunction(g) = G[S]
                 /\ \A s \in SUBSET S : G[s] = SumStep(g, G, s)
    <2>1. DOMAIN g = S
      OBVIOUS
    <2> QED BY <2>1, SumIs
  <1> DEFINE Ok(s) == F[s] \in Int /\ G[s] \in Int /\ a * F[s] <= b * G[s]
             T == {n \in Nat : \E s \in SUBSET S : Cardinality(s) = n /\ ~Ok(s)}
  <1>3. T = {}
    <2> SUFFICES ASSUME T # {} PROVE FALSE
      OBVIOUS
    <2>1. PICK m \in T : \A n \in T : m <= n
      <3>1. T \subseteq Nat
        OBVIOUS
      <3> HIDE DEF T
      <3> QED BY <3>1, LeastNumber
    <2>2. PICK s \in SUBSET S : Cardinality(s) = m /\ ~Ok(s)
      BY <2>1
    <2>3. CASE s = {}
      <3>1. F[s] = 0 /\ G[s] = 0
        BY <1>1, <1>2, <2>3 DEF SumStep
      <3> QED BY <2>2, <3>1
    <2>4. CASE s # {}
      <3> DEFINE x == CHOOSE y \in s : TRUE
                 r == s \ {x}
      <3>1. x \in s /\ r \in SUBSET S /\ Cardinality(r) = m - 1 /\ m \in Nat \ {0}
        BY <2>2, <2>4, SmallerSet
      <3>2. F[s] = f[x] + F[r] /\ G[s] = g[x] + G[r]
        BY <1>1, <1>2, <2>4 DEF SumStep
      <3> HIDE DEF x, r
      <3>3. Ok(r)
        <4>1. m - 1 \in Nat /\ m - 1 \notin T
          BY <2>1, <3>1
        <4> QED BY <3>1, <4>1
      <3>4. f[x] \in Int /\ g[x] \in Int /\ a * f[x] <= b * g[x]
        BY <3>1
      <3>5. a * (f[x] + F[r]) = a * f[x] + a * F[r] /\ b * (g[x] + G[r]) = b * g[x] + b * G[r]
        BY <3>3, <3>4
      <3>6. a * f[x] \in Int /\ a * F[r] \in Int /\ b * g[x] \in Int /\ b * G[r] \in Int
        BY <3>3, <3>4
      <3>7. a * F[s] <= b * G[s] /\ F[s] \in Int /\ G[s] \in Int
        BY <3>2, <3>3, <3>4, <3>5, <3>6
      <3> QED BY <2>2, <3>7
    <2> QED BY <2>3, <2>4
  <1>4. Ok(S)
    <2>1. Cardinality(S) \in Nat
      BY FS_CardinalityType
    <2> QED BY <1>3, <2>1
  <1> QED BY <1>1, <1>2, <1>4

\* A sum of natural numbers is one.
LEMMA SumNat ==
  ASSUME NEW S, IsFiniteSet(S), NEW f \in [S -> Nat]
  PROVE  SumFunction(f) \in Nat
  <1> DEFINE z == [x \in S |-> 0]
  <1>1. SumFunction(z) = 0
    BY SumOfZeros
  <1>2. z \in [S -> Int] /\ f \in [S -> Int] /\ \A x \in S : 1 * z[x] <= 1 * f[x]
    OBVIOUS
  <1> HIDE DEF z
  <1>3. SumFunction(f) \in Int /\ 1 * SumFunction(z) <= 1 * SumFunction(f)
    BY <1>2, SumBelow
  <1> QED BY <1>1, <1>3

\* One of the summands is no more than the sum.
LEMMA OnePart ==
  ASSUME NEW S, IsFiniteSet(S), NEW f \in [S -> Nat], NEW x \in S
  PROVE  f[x] <= SumFunction(f)
  <1>1. PICK g : g = [f EXCEPT ![x] = 0]
    OBVIOUS
  <1>2. g \in [S -> Nat] /\ g[x] = 0 /\ \A y \in S \ {x} : g[y] = f[y]
    BY <1>1
  <1>3. SumFunction(g) \in Nat /\ SumFunction(f) \in Nat
    BY <1>2, SumNat
  <1>4. f \in [S -> Int] /\ g \in [S -> Int]
    BY <1>2
  <1>5. SumFunction(g) = SumFunction(f) + (g[x] - f[x])
    BY <1>2, <1>4, SumChanges
  <1> QED BY <1>2, <1>3, <1>5

\* The rewards of the delegations, rounded down, are no more than what is given to them.
LEMMA SharesGetAtMostAll ==
  ASSUME NEW S, IsFiniteSet(S), NEW share \in [S -> Nat], SumFunction(share) > 0,
         NEW total \in Nat
  PROVE  LET reward == [d \in S |-> (total * share[d]) \div SumFunction(share)]
         IN  reward \in [S -> Nat] /\ SumFunction(reward) \in Nat /\ SumFunction(reward) <= total
  <1>1. PICK c : c = SumFunction(share)
    OBVIOUS
  <1>2. c \in Nat /\ c > 0
    BY <1>1, SumNat
  <1> DEFINE reward == [d \in S |-> (total * share[d]) \div c]
  <1>3. \A d \in S : share[d] \in Nat
    OBVIOUS
  <1>4. \A d \in S : reward[d] \in Nat /\ c * reward[d] <= total * share[d]
    BY <1>2, <1>3, PartOf
  <1>5. reward \in [S -> Nat]
    BY <1>4
  <1> HIDE DEF reward
  <1>6. SumFunction(reward) \in Nat
    BY <1>5, SumNat
  <1>7. c * SumFunction(reward) <= total * SumFunction(share)
    <2>1. reward \in [S -> Int] /\ share \in [S -> Int]
      BY <1>5
    <2> QED BY <1>2, <1>4, <2>1, SumBelow
  <1>8. PICK y : y = SumFunction(reward)
    OBVIOUS
  <1>9. y \in Nat /\ c * y <= total * c
    BY <1>1, <1>6, <1>7, <1>8
  <1>10. y <= total
    BY <1>2, <1>9
  <1> QED BY <1>1, <1>5, <1>8, <1>9, <1>10 DEF reward
----------------------------------------------------------------------------
(* States of the accounting of stake, and the operations between them. *)

PosValues == {NoData} \cup Pools \cup [pledge : Nat, rewards : Nat]
PosDeltas == DeltaSet(DataKeys, PosValues, AmountKeys)
PosStates == StateSet(DataKeys, PosValues, AmountKeys)

PosOps == {"CreatePool", "DecommissionPool", "IncreaseStakerRewards", "CreateDelegationId",
           "DeleteDelegationId", "DelegateStaking", "SpendFromShare"}
UndoSet == [op : PosOps, id : DataKeys, amount : Int,
            data : [old : PosValues, new : PosValues] \cup {NoData}]
VerifierSet == [delta : PosDeltas, undos : Seq(UndoSet), failed : BOOLEAN]
BlockSet == [txs : Seq(UndoSet), reward : Seq(UndoSet)]

\* The delta of an operation that changes the data of one account, or none.
Change(data, amounts) == [data |-> data, amounts |-> amounts]
ChangeOf(k, d, K, a) == Change(DataOf(k, d), AmountOf(AmountKeys, K, a))
ChangeNone(K, a) == Change(NoDataDelta, AmountOf(AmountKeys, K, a))

\* The balances of K change by a.
Adds(s, t, K, a) == \A j \in AmountKeys : t.amounts[j] = s.amounts[j] + (IF j \in K THEN a ELSE 0)

\* The delta back is there to undo the operation.
Back(new, back, st) == back \in PosDeltas /\ Matches(new, back) /\ Apply(new, back) = st

\* From st to new, the data of k and the balances of K change.
MovedData(st, k, x, d, K, a, new) ==
  /\ new \in PosStates
  /\ new.data[k] = x /\ \A j \in DataKeys \ {k} : new.data[j] = st.data[j]
  /\ Adds(st, new, K, a)
  /\ Back(new, ChangeOf(k, Invert(d), K, -a), st)
  /\ Invert(d) \in [old : PosValues, new : PosValues]

\* From st to new, the balances of K change.
MovedAmounts(st, K, a, new) ==
  /\ new \in PosStates
  /\ \A j \in DataKeys : new.data[j] = st.data[j]
  /\ Adds(st, new, K, a)
  /\ Back(new, ChangeNone(K, -a), st)

\* A change of data: the state it leads to, and what takes it back.
LEMMA DataMove ==
  ASSUME NEW st \in PosStates, NEW k \in DataKeys, NEW x \in PosValues, NEW K, NEW a \in Int,
         NEW d, d = DataDelta(st.data[k], x)
  PROVE  /\ ChangeOf(k, d, K, a) \in PosDeltas /\ Matches(st, ChangeOf(k, d, K, a))
         /\ MovedData(st, k, x, d, K, a, Apply(st, ChangeOf(k, d, K, a)))
  <1> DEFINE c == ChangeOf(k, d, K, a)
             new == Apply(st, c)
             back == ChangeOf(k, Invert(d), K, -a)
             am == AmountOf(AmountKeys, K, a)
             V == [old : PosValues, new : PosValues]
  <1>1. st.data[k] \in PosValues
    BY DEF PosStates, StateSet
  <1>2. d = [old |-> st.data[k], new |-> x] /\ Invert(d) = [old |-> x, new |-> st.data[k]]
    BY DEF DataDelta, Invert
  <1>3. d \in V /\ Invert(d) \in V /\ d.old = st.data[k] /\ d.new = x
    BY <1>1, <1>2
  <1>4. c.data = DataOf(k, d) /\ c.amounts = am /\ c = [data |-> c.data, amounts |-> c.amounts]
    BY DEF ChangeOf, Change
  <1>5. DataOf(k, d) \in [{k} -> V] /\ DOMAIN DataOf(k, d) = {k} /\ DataOf(k, d)[k] = d
    BY <1>3 DEF DataOf
  <1>6. DataOf(k, d) \in DataDeltas(DataKeys, PosValues)
    <2>1. {k} \in SUBSET DataKeys
      OBVIOUS
    <2> QED BY <1>5, <2>1, DataDeltaIs
  <1>7. am \in [AmountKeys -> Int] /\ \A j \in AmountKeys : am[j] = IF j \in K THEN a ELSE 0
    BY DEF AmountOf
  <1>8. c \in PosDeltas
    BY <1>4, <1>6, <1>7 DEF PosDeltas, DeltaSet
  <1>9. Matches(st, c)
    BY <1>3, <1>4, <1>5 DEF Matches
  <1>10. new \in PosStates /\ new.data[k] = x /\ \A j \in DataKeys \ {k} : new.data[j] = st.data[j]
    BY <1>3, <1>4, <1>5, <1>8, ApplyType DEF PosDeltas, PosStates
  <1>11. Adds(st, new, K, a)
    <2>1. \A j \in AmountKeys : new.amounts[j] = st.amounts[j] + am[j]
      BY <1>4, <1>8, ApplyType DEF PosDeltas, PosStates
    <2> HIDE DEF am, new
    <2> QED BY <1>7, <2>1 DEF Adds
  <1>12. back = InvertAll(c)
    <2>1. InvertAll(c) = [data |-> [j \in {k} |-> Invert(d)], amounts |-> [j \in AmountKeys |-> -am[j]]]
      BY <1>4, <1>5, <1>7 DEF InvertAll
    <2>2. [j \in AmountKeys |-> -am[j]] = AmountOf(AmountKeys, K, -a)
      BY <1>7 DEF AmountOf
    <2> QED BY <2>1, <2>2 DEF ChangeOf, Change, DataOf
  <1> HIDE DEF c
  <1>13. InvertAll(c) \in PosDeltas /\ Matches(Apply(st, c), InvertAll(c)) /\ Apply(Apply(st, c), InvertAll(c)) = st
    BY <1>8, <1>9, InverseTakesBack DEF PosDeltas, PosStates
  <1> HIDE DEF back
  <1> QED BY <1>3, <1>8, <1>9, <1>10, <1>11, <1>12, <1>13 DEF back, c, MovedData, Back

\* The same without a change of data.
LEMMA AmountMove ==
  ASSUME NEW st \in PosStates, NEW K, NEW a \in Int
  PROVE  /\ ChangeNone(K, a) \in PosDeltas /\ Matches(st, ChangeNone(K, a))
         /\ MovedAmounts(st, K, a, Apply(st, ChangeNone(K, a)))
  <1> DEFINE c == ChangeNone(K, a)
             new == Apply(st, c)
             back == ChangeNone(K, -a)
             am == AmountOf(AmountKeys, K, a)
             V == [old : PosValues, new : PosValues]
  <1>1. c.data = NoDataDelta /\ c.amounts = am /\ c = [data |-> c.data, amounts |-> c.amounts]
    BY DEF ChangeNone, Change
  <1>2. NoDataDelta \in [{} -> V] /\ DOMAIN NoDataDelta = {}
    BY DEF NoDataDelta
  <1>3. NoDataDelta \in DataDeltas(DataKeys, PosValues)
    <2>1. {} \in SUBSET DataKeys
      OBVIOUS
    <2> QED BY <1>2, <2>1, DataDeltaIs
  <1>4. am \in [AmountKeys -> Int] /\ \A j \in AmountKeys : am[j] = IF j \in K THEN a ELSE 0
    BY DEF AmountOf
  <1>5. c \in PosDeltas
    BY <1>1, <1>3, <1>4 DEF PosDeltas, DeltaSet
  <1>6. Matches(st, c)
    BY <1>1, <1>2 DEF Matches
  <1>7. new \in PosStates /\ \A j \in DataKeys : new.data[j] = st.data[j]
    BY <1>1, <1>2, <1>5, ApplyType DEF PosDeltas, PosStates
  <1>8. Adds(st, new, K, a)
    <2>1. \A j \in AmountKeys : new.amounts[j] = st.amounts[j] + am[j]
      BY <1>1, <1>5, ApplyType DEF PosDeltas, PosStates
    <2> HIDE DEF am, new
    <2> QED BY <1>4, <2>1 DEF Adds
  <1>9. back = InvertAll(c)
    <2>1. InvertAll(c) = [data |-> [j \in {} |-> Invert(NoDataDelta[j])], amounts |-> [j \in AmountKeys |-> -am[j]]]
      BY <1>1, <1>2, <1>4 DEF InvertAll
    <2>2. [j \in AmountKeys |-> -am[j]] = AmountOf(AmountKeys, K, -a)
      BY <1>4 DEF AmountOf
    <2>3. [j \in {} |-> Invert(NoDataDelta[j])] = NoDataDelta
      BY DEF NoDataDelta
    <2> QED BY <2>1, <2>2, <2>3 DEF ChangeNone, Change
  <1> HIDE DEF c
  <1>10. InvertAll(c) \in PosDeltas /\ Matches(Apply(st, c), InvertAll(c)) /\ Apply(Apply(st, c), InvertAll(c)) = st
    BY <1>5, <1>6, InverseTakesBack DEF PosDeltas, PosStates
  <1> HIDE DEF back
  <1> QED BY <1>5, <1>6, <1>7, <1>8, <1>9, <1>10 DEF back, c, MovedAmounts, Back

\* The undo u is possible in t, where c is what it merges.
UndoIs(t, u, c) ==
  LET data == t.data[u.id]
      am == t.amounts[u.id]
  IN \/ u.op = "CreatePool" /\ am = u.amount /\ data # NoData /\ c = ChangeOf(u.id, u.data, {u.id}, -u.amount)
     \/ u.op = "IncreaseStakerRewards" /\ c = ChangeOf(u.id, u.data, {u.id}, -u.amount)
     \/ u.op = "DecommissionPool" /\ data = NoData /\ am <= 0 /\ c = ChangeOf(u.id, u.data, {u.id}, u.amount)
     \/ u.op = "CreateDelegationId" /\ data # NoData /\ c = ChangeOf(u.id, u.data, {}, 0)
     \/ u.op = "DeleteDelegationId" /\ am <= 0 /\ c = ChangeOf(u.id, u.data, {}, 0)
     \/ /\ u.op = "DelegateStaking" /\ data # NoData
        /\ c = ChangeNone({u.id, data, <<data, u.id>>}, -u.amount)
     \/ /\ u.op = "SpendFromShare" /\ data # NoData
        /\ c = ChangeNone({u.id, <<data, u.id>>} \cup (IF t.data[data] # NoData THEN {data} ELSE {}), u.amount)

\* The undo leads from t to s.
UndoFrom(t, u, s) == \E c \in PosDeltas : UndoIs(t, u, c) /\ Matches(t, c) /\ s = Apply(t, c)

\* v reads the state st, and can be flushed.
Reads(v, st) ==
  /\ v = [delta |-> v.delta, undos |-> v.undos, failed |-> FALSE]
  /\ v.delta \in PosDeltas
  /\ Matches(db, v.delta)
  /\ View(v) = st

\* A change that fits what the verifier reads is merged without a failure.
LEMMA MergeReads ==
  ASSUME db \in PosStates, NEW v, NEW t, Reads(v, t), NEW data, NEW am,
         Change(data, am) \in PosDeltas, Matches(t, Change(data, am))
  PROVE  /\ Reads(MergeDelta(v, data, am), Apply(t, Change(data, am)))
         /\ MergeDelta(v, data, am).undos = v.undos
  <1> DEFINE c == Change(data, am)
             d == Merge(v.delta, c)
             w == MergeDelta(v, data, am)
  <1>1. v.delta \in PosDeltas /\ Matches(db, v.delta) /\ Apply(db, v.delta) = t
    BY DEF Reads, View
  <1>2. w = [v EXCEPT !.delta = d, !.failed = @ \/ ~Mergeable(v.delta, c)]
    BY DEF MergeDelta, Change
  <1> HIDE DEF c
  <1>3. d \in PosDeltas /\ Mergeable(v.delta, c) /\ Matches(db, d) /\ Apply(db, d) = Apply(t, c)
    BY <1>1, MergeIsApplyBoth DEF PosDeltas, PosStates, c
  <1> HIDE DEF d, w
  <1>4. PICK x, y : v = [delta |-> x, undos |-> y, failed |-> FALSE]
    BY DEF Reads
  <1>5. w = [delta |-> d, undos |-> v.undos, failed |-> FALSE]
    <2>1. w = [v EXCEPT !.delta = d, !.failed = FALSE]
      BY <1>2, <1>3, <1>4
    <2> QED BY <1>4, <2>1
  <1>6. View(w) = Apply(t, c) /\ w.delta = d /\ w.undos = v.undos
    BY <1>3, <1>5 DEF View
  <1>7. Reads(w, Apply(t, c))
    BY <1>3, <1>5, <1>6 DEF Reads
  <1> QED BY <1>6, <1>7 DEF w, c

LEMMA RememberReads ==
  ASSUME NEW v, NEW t, Reads(v, t), NEW u
  PROVE  Reads(Remember(v, u), t) /\ Remember(v, u).undos = Append(v.undos, u)
  <1> DEFINE w == Remember(v, u)
  <1>1. PICK x, y : v = [delta |-> x, undos |-> y, failed |-> FALSE]
    BY DEF Reads
  <1>2. w = [v EXCEPT !.undos = Append(v.undos, u)]
    BY DEF Remember
  <1>3. w = [delta |-> v.delta, undos |-> Append(v.undos, u), failed |-> FALSE]
    BY <1>1, <1>2
  <1> HIDE DEF w
  <1>4. w.delta = v.delta /\ w.undos = Append(v.undos, u)
    BY <1>3
  <1>5. View(w) = View(v)
    BY <1>4 DEF View
  <1>6. Reads(w, t)
    BY <1>3, <1>4, <1>5 DEF Reads
  <1> QED BY <1>4, <1>6 DEF w

\* An undo takes the verifier to the state that it leads to.
LEMMA UndoTakesBack ==
  ASSUME db \in PosStates, NEW v, NEW t, Reads(v, t), NEW u, NEW s, UndoFrom(t, u, s)
  PROVE  Reads(UndoOp(v, u), s)
  <1>1. PICK c \in PosDeltas : UndoIs(t, u, c) /\ Matches(t, c) /\ s = Apply(t, c)
    BY DEF UndoFrom
  <1>2. View(v) = t /\ ~v.failed
    BY DEF Reads
  <1>3. \A k : GetData(v, k) = t.data[k] /\ GetAmount(v, k) = t.amounts[k] /\ PoolOf(v, k) = t.data[k]
               /\ (Exists(v, k) <=> t.data[k] # NoData)
    BY <1>2 DEF GetData, GetAmount, PoolOf, Exists
  <1>4. UndoAllowed(v, u) /\ UndoMerged(v, u) = MergeDelta(v, c.data, c.amounts)
    <2>1. CASE u.op = "CreatePool"
      BY <1>1, <1>3, <2>1 DEF UndoIs, UndoAllowed, UndoMerged, ChangeOf, Change
    <2>2. CASE u.op = "IncreaseStakerRewards"
      BY <1>1, <1>3, <2>2 DEF UndoIs, UndoAllowed, UndoMerged, ChangeOf, Change
    <2>3. CASE u.op = "DecommissionPool"
      BY <1>1, <1>3, <2>3 DEF UndoIs, UndoAllowed, UndoMerged, ChangeOf, Change
    <2>4. CASE u.op = "CreateDelegationId"
      BY <1>1, <1>3, <2>4 DEF UndoIs, UndoAllowed, UndoMerged, ChangeOf, Change
    <2>5. CASE u.op = "DeleteDelegationId"
      BY <1>1, <1>3, <2>5 DEF UndoIs, UndoAllowed, UndoMerged, ChangeOf, Change
    <2>6. CASE u.op = "DelegateStaking"
      BY <1>1, <1>3, <2>6 DEF UndoIs, UndoAllowed, UndoMerged, ChangeNone, Change
    <2>7. CASE u.op = "SpendFromShare"
      <3>1. UndoAllowed(v, u)
        BY <1>1, <1>3, <2>7 DEF UndoIs, UndoAllowed
      <3>2. UndoMerged(v, u) = MergeDelta(v, NoDataDelta, AmountOf(AmountKeys,
               {u.id, <<t.data[u.id], u.id>>} \cup (IF t.data[t.data[u.id]] # NoData THEN {t.data[u.id]} ELSE {}),
               u.amount))
        BY <1>3, <2>7 DEF UndoMerged
      <3>3. c = ChangeNone({u.id, <<t.data[u.id], u.id>>} \cup (IF t.data[t.data[u.id]] # NoData THEN {t.data[u.id]} ELSE {}), u.amount)
        BY <1>1, <2>7 DEF UndoIs
      <3>4. /\ c.data = NoDataDelta
            /\ c.amounts = AmountOf(AmountKeys, {u.id, <<t.data[u.id], u.id>>} \cup
                                   (IF t.data[t.data[u.id]] # NoData THEN {t.data[u.id]} ELSE {}), u.amount)
        BY <3>3 DEF ChangeNone, Change
      <3> QED BY <3>1, <3>2, <3>4
    <2> QED BY <1>1, <2>1, <2>2, <2>3, <2>4, <2>5, <2>6, <2>7 DEF UndoIs
  <1>5. c = Change(c.data, c.amounts)
    BY DEF PosDeltas, DeltaSet, Change
  <1>6. UndoOp(v, u) = MergeDelta(v, c.data, c.amounts)
    BY <1>2, <1>4 DEF UndoOp
  <1>7. Reads(MergeDelta(v, c.data, c.amounts), Apply(t, Change(c.data, c.amounts)))
    BY <1>1, <1>5, MergeReads
  <1> QED BY <1>1, <1>5, <1>6, <1>7
----------------------------------------------------------------------------
(* Undoing one after the other. *)

\* The undos of q lead from t to s, through the states w.
Through(t, q, s, w) ==
  /\ w[0] = t /\ w[Len(q)] = s
  /\ \A i \in 1 .. Len(q) : UndoFrom(w[i - 1], q[i], w[i])

Undone(t, q, s) == q \in Seq(UndoSet) /\ \E w : Through(t, q, s, w)

LEMMA UndoneNone ==
  ASSUME NEW s
  PROVE  Undone(s, <<>>, s)
  <1> DEFINE w == [i \in {0} |-> s]
  <1>1. Through(s, <<>>, s, w)
    BY DEF Through
  <1>2. <<>> \in Seq(UndoSet)
    OBVIOUS
  <1> QED BY <1>1, <1>2 DEF Undone

LEMMA UndoneOne ==
  ASSUME NEW t, NEW u \in UndoSet, NEW s, UndoFrom(t, u, s)
  PROVE  Undone(t, <<u>>, s)
  <1> DEFINE w == [i \in 0 .. 1 |-> IF i = 0 THEN t ELSE s]
  <1>1. w[0] = t /\ w[1] = s
    OBVIOUS
  <1> HIDE DEF w
  <1>2. Through(t, <<u>>, s, w)
    <2>1. Len(<<u>>) = 1 /\ <<u>>[1] = u
      OBVIOUS
    <2>2. \A i \in 1 .. 1 : UndoFrom(w[i - 1], <<u>>[i], w[i])
      BY <1>1, <2>1
    <2> QED BY <1>1, <2>1, <2>2 DEF Through
  <1>3. <<u>> \in Seq(UndoSet)
    OBVIOUS
  <1> QED BY <1>2, <1>3 DEF Undone

LEMMA UndoneBoth ==
  ASSUME NEW a, NEW q, NEW b, Undone(a, q, b), NEW r, NEW c, Undone(b, r, c)
  PROVE  Undone(a, q \o r, c)
  <1>1. PICK n : n = Len(q)
    OBVIOUS
  <1>2. PICK m : m = Len(r)
    OBVIOUS
  <1>3. q \in Seq(UndoSet) /\ r \in Seq(UndoSet) /\ n \in Nat /\ m \in Nat
    BY <1>1, <1>2 DEF Undone
  <1>4. PICK w : Through(a, q, b, w)
    BY DEF Undone
  <1>5. PICK x : Through(b, r, c, x)
    BY DEF Undone
  <1>6. PICK y : y = q \o r
    OBVIOUS
  <1>7. /\ y \in Seq(UndoSet) /\ Len(y) = n + m
        /\ \A i \in 1 .. n : y[i] = q[i]
        /\ \A i \in (n + 1) .. (n + m) : y[i] = r[i - n]
    BY <1>1, <1>2, <1>3, <1>6
  <1> DEFINE z == [i \in 0 .. (n + m) |-> IF i <= n THEN w[i] ELSE x[i - n]]
  <1>8. /\ \A i \in 0 .. n : z[i] = w[i]
        /\ \A i \in (n + 1) .. (n + m) : z[i] = x[i - n]
    BY <1>3
  <1> HIDE DEF z
  <1>9. /\ w[0] = a /\ w[n] = b /\ \A i \in 1 .. n : UndoFrom(w[i - 1], q[i], w[i])
        /\ x[0] = b /\ x[m] = c /\ \A i \in 1 .. m : UndoFrom(x[i - 1], r[i], x[i])
    BY <1>1, <1>2, <1>4, <1>5 DEF Through
  <1>10. z[0] = a
    BY <1>3, <1>8, <1>9
  <1>11. \A i \in n .. (n + m) : z[i] = x[i - n]
    <2> TAKE i \in n .. (n + m)
    <2>1. CASE i = n
      <3>1. i - n = 0 /\ i \in 0 .. n
        BY <1>3, <2>1
      <3> QED BY <1>8, <1>9, <2>1, <3>1
    <2>2. CASE i # n
      <3>1. i \in (n + 1) .. (n + m)
        BY <1>3, <2>2
      <3> QED BY <1>8, <3>1
    <2> QED BY <2>1, <2>2
  <1>12. z[n + m] = c
    <2>1. n + m \in n .. (n + m) /\ (n + m) - n = m
      BY <1>3
    <2> QED BY <1>9, <1>11, <2>1
  <1>13. ASSUME NEW i \in 1 .. (n + m)
         PROVE  UndoFrom(z[i - 1], y[i], z[i])
    <2>1. CASE i <= n
      <3>1. i \in 1 .. n /\ i \in 0 .. n /\ i - 1 \in 0 .. n
        BY <1>3, <2>1
      <3> QED BY <1>7, <1>8, <1>9, <3>1
    <2>2. CASE ~(i <= n)
      <3>1. /\ i \in (n + 1) .. (n + m) /\ i \in n .. (n + m) /\ i - 1 \in n .. (n + m)
            /\ i - n \in 1 .. m /\ (i - 1) - n = (i - n) - 1
        BY <1>3, <2>2
      <3>2. z[i] = x[i - n] /\ z[i - 1] = x[(i - n) - 1] /\ y[i] = r[i - n]
        BY <1>7, <1>11, <3>1
      <3> QED BY <1>9, <3>1, <3>2
    <2> QED BY <2>1, <2>2
  <1>14. Through(a, y, c, z)
    BY <1>7, <1>10, <1>12, <1>13 DEF Through
  <1> QED BY <1>6, <1>7, <1>14 DEF Undone

\* The undos of a verifier are taken from the last to the first.
LEMMA ReverseMore ==
  ASSUME NEW us \in Seq(UndoSet), NEW u \in UndoSet
  PROVE  Reverse(Append(us, u)) = <<u>> \o Reverse(us)
  <1> DEFINE n == Len(us)
             a == Reverse(Append(us, u))
             r == Reverse(us)
             b == <<u>> \o r
  <1>1. n \in Nat /\ Len(Append(us, u)) = n + 1
    OBVIOUS
  <1>2. r = [i \in 1 .. n |-> us[(n - i) + 1]] /\ a = [i \in 1 .. (n + 1) |-> Append(us, u)[((n + 1) - i) + 1]]
    BY <1>1 DEF Reverse
  <1>3. r \in Seq(UndoSet) /\ Len(r) = n
    <2>1. \A i \in 1 .. n : (n - i) + 1 \in 1 .. n
      BY <1>1
    <2>2. \A i \in 1 .. n : us[(n - i) + 1] \in UndoSet
      BY <2>1
    <2> QED BY <1>1, <1>2, <2>2
  <1>4. \A i \in 1 .. n : r[i] = us[(n - i) + 1]
    BY <1>2
  <1> HIDE DEF r
  <1>5. b \in Seq(UndoSet) /\ Len(b) = n + 1 /\ b[1] = u /\ \A i \in 2 .. (n + 1) : b[i] = r[i - 1]
    BY <1>1, <1>3
  <1>6. b = [i \in 1 .. (n + 1) |-> b[i]]
    BY <1>1, <1>5
  <1>7. ASSUME NEW i \in 1 .. (n + 1)
        PROVE  Append(us, u)[((n + 1) - i) + 1] = b[i]
    <2>1. CASE i = 1
      <3>1. ((n + 1) - i) + 1 = n + 1
        BY <1>1, <2>1
      <3> QED BY <1>1, <1>5, <2>1, <3>1
    <2>2. CASE i # 1
      <3>1. i \in 2 .. (n + 1) /\ i - 1 \in 1 .. n /\ ((n + 1) - i) + 1 = (n - (i - 1)) + 1 /\ ((n + 1) - i) + 1 \in 1 .. n
        BY <1>1, <2>2
      <3>2. b[i] = us[((n + 1) - i) + 1]
        BY <1>4, <1>5, <3>1
      <3>3. \A j \in 1 .. n : Append(us, u)[j] = us[j]
        OBVIOUS
      <3> QED BY <3>1, <3>2, <3>3
    <2> QED BY <2>1, <2>2
  <1> HIDE DEF b
  <1>8. a = b
    BY <1>2, <1>6, <1>7
  <1> QED BY <1>8 DEF a, b, r

\* One more operation, whose undo leads back.
LEMMA UndoneMore ==
  ASSUME NEW us \in Seq(UndoSet), NEW t, NEW s, Undone(t, Reverse(us), s), NEW u \in UndoSet, NEW new, UndoFrom(new, u, t)
  PROVE  Undone(new, Reverse(Append(us, u)), s)
  <1>1. PICK r : r = Reverse(us)
    OBVIOUS
  <1>2. PICK q : q = <<u>>
    OBVIOUS
  <1>3. Undone(new, q, t)
    BY <1>2, UndoneOne
  <1>4. Undone(t, r, s)
    BY <1>1
  <1>5. Undone(new, q \o r, s)
    BY <1>3, <1>4, UndoneBoth
  <1>6. Reverse(Append(us, u)) = q \o r
    BY <1>1, <1>2, ReverseMore
  <1> QED BY <1>5, <1>6

\* A new verifier changes nothing.
LEMMA NewChanges ==
  ASSUME NEW st \in PosStates
  PROVE  /\ NewVerifier = [delta |-> NewVerifier.delta, undos |-> <<>>, failed |-> FALSE]
         /\ NewVerifier.undos = <<>> /\ NewVerifier \in VerifierSet
         /\ NewVerifier.delta \in PosDeltas
         /\ Matches(st, NewVerifier.delta) /\ Apply(st, NewVerifier.delta) = st
  <1> DEFINE z == NoChange(AmountKeys)
             V == [old : PosValues, new : PosValues]
  <1>1. z = [data |-> [k \in {} |-> NoData], amounts |-> [k \in AmountKeys |-> 0]]
    BY DEF NoChange
  <1>2. [k \in {} |-> NoData] \in DataDeltas(DataKeys, PosValues)
    <2>1. [k \in {} |-> NoData] \in [{} -> V] /\ {} \in SUBSET DataKeys
      OBVIOUS
    <2> QED BY <2>1, DataDeltaIs
  <1>3. z \in PosDeltas /\ DOMAIN z.data = {} /\ \A k \in AmountKeys : z.amounts[k] = 0
    BY <1>1, <1>2 DEF PosDeltas, DeltaSet
  <1> HIDE DEF z
  <1>4. Apply(st, z) = st
    <2>1. Apply(st, z) \in PosStates /\ \A k \in DataKeys : Apply(st, z).data[k] = st.data[k]
      BY <1>3, ApplyType DEF PosDeltas, PosStates
    <2>2. ASSUME NEW k \in AmountKeys
          PROVE  Apply(st, z).amounts[k] = st.amounts[k]
      <3>1. Apply(st, z).amounts[k] = st.amounts[k] + z.amounts[k]
        BY <1>3, ApplyType DEF PosDeltas, PosStates
      <3>2. st.amounts[k] \in Int /\ z.amounts[k] = 0
        BY <1>3 DEF PosStates, StateSet
      <3> QED BY <3>1, <3>2
    <2> QED BY <2>1, <2>2, SameState DEF PosStates
  <1>5. NewVerifier = [delta |-> z, undos |-> <<>>, failed |-> FALSE]
    BY DEF NewVerifier, z
  <1>6. <<>> \in Seq(UndoSet)
    OBVIOUS
  <1>7. Matches(st, z)
    BY <1>3 DEF Matches
  <1>8. NewVerifier.delta = z /\ NewVerifier.undos = <<>>
    BY <1>5
  <1>9. NewVerifier \in VerifierSet
    BY <1>3, <1>5, <1>6 DEF VerifierSet
  <1> QED BY <1>3, <1>4, <1>5, <1>7, <1>8, <1>9

LEMMA NewReads ==
  ASSUME db \in PosStates
  PROVE  Reads(NewVerifier, db)
  BY NewChanges DEF Reads, View

\* A block is taken back.
LEMMA BlockTakenBack ==
  ASSUME db \in PosStates, NEW block, NEW s, Undone(db, UndosOf(block), s)
  PROVE  Reads(Disconnected(block), s)
  <1>1. PICK q : q = UndosOf(block)
    OBVIOUS
  <1>2. PICK n : n = Len(q)
    OBVIOUS
  <1>3. q \in Seq(UndoSet) /\ n \in Nat /\ DOMAIN q = 1 .. n
    BY <1>1, <1>2 DEF Undone
  <1>4. PICK w : Through(db, q, s, w)
    BY <1>1 DEF Undone
  <1>5. Disconnected(block) = FoldLeft(UndoOp, NewVerifier, q)
    BY <1>1 DEF Disconnected
  <1>6. PICK h : OneByOne("undo", NewVerifier, q, n, h) /\ FoldLeft(UndoOp, NewVerifier, q) = h[n]
    BY <1>3, UndoOneByOne
  <1>7. w[0] = db /\ w[n] = s /\ \A i \in 1 .. n : UndoFrom(w[i - 1], q[i], w[i])
    BY <1>2, <1>4 DEF Through
  <1> DEFINE T == {i \in Nat : i <= n /\ ~Reads(h[i], w[i])}
  <1>8. T = {}
    <2> SUFFICES ASSUME T # {} PROVE FALSE
      OBVIOUS
    <2>1. PICK m \in T : \A i \in T : m <= i
      <3>1. T \subseteq Nat
        OBVIOUS
      <3> HIDE DEF T
      <3> QED BY <3>1, LeastNumber
    <2>2. m \in Nat /\ m <= n /\ ~Reads(h[m], w[m])
      BY <2>1
    <2>3. CASE m = 0
      BY <1>6, <1>7, <2>2, <2>3, NewReads DEF OneByOne
    <2>4. CASE m # 0
      <3>1. m - 1 \in Nat /\ m - 1 <= n /\ ~(m <= m - 1) /\ m \in 1 .. n
        BY <1>3, <2>2, <2>4
      <3>2. Reads(h[m - 1], w[m - 1])
        BY <2>1, <3>1
      <3>3. h[m] = UndoOp(h[m - 1], q[m]) /\ UndoFrom(w[m - 1], q[m], w[m])
        BY <1>6, <1>7, <3>1 DEF OneByOne, Folded
      <3>4. Reads(UndoOp(h[m - 1], q[m]), w[m])
        BY <3>2, <3>3, UndoTakesBack
      <3> QED BY <2>2, <3>3, <3>4
    <2> QED BY <2>3, <2>4
  <1>9. Reads(h[n], w[n])
    BY <1>3, <1>8
  <1> QED BY <1>5, <1>6, <1>7, <1>9
----------------------------------------------------------------------------
(* What holds of every state. *)

SharesIn(st, p) == SumFunction([d \in Delegations |-> st.amounts[<<p, d>>]])

\* A pool has what its staker and its delegations own.
PoolOK(st, p) ==
  \/ st.data[p] = NoData
  \/ /\ st.data[p] \in [pledge : Nat \ {0}, rewards : Nat]
     /\ st.amounts[p] = (st.data[p].pledge + st.data[p].rewards) + SharesIn(st, p)

\* A delegation has its balance as a share of its own pool.
DelegationOK(st, d) ==
  /\ st.data[d] \in {NoData} \cup Pools
  /\ st.data[d] = NoData => st.amounts[d] = 0
  /\ \A p \in Pools : st.amounts[<<p, d>>] = IF st.data[d] = p THEN st.amounts[d] ELSE 0

Sound(st) ==
  /\ st \in PosStates
  /\ \A k \in AmountKeys : st.amounts[k] >= 0
  /\ \A p \in Pools : PoolOK(st, p)
  /\ \A d \in Delegations : DelegationOK(st, d)

\* The keys of pools, delegations and shares are different ones.
LEMMA PosKeys ==
  /\ \A p \in Pools : p \in DataKeys /\ p \in AmountKeys /\ p # NoData
  /\ \A d \in Delegations : d \in DataKeys /\ d \in AmountKeys /\ d # NoData
  /\ \A p \in Pools, d \in Delegations : /\ <<p, d>> \in AmountKeys /\ p # d
  /\ \A p \in Pools, d \in Delegations, q \in Pools : <<p, d>> # q
  /\ \A p \in Pools, d \in Delegations, e \in Delegations : <<p, d>> # e
  /\ IsFiniteSet(Delegations)
  <1>1. /\ Pools \cap Delegations = {} /\ IsFiniteSet(Delegations)
        /\ (Pools \cup Delegations) \cap (Pools \X Delegations) = {}
        /\ NoData \notin Pools \cup Delegations
    BY PosAssumption
  <1>2. \A p \in Pools, d \in Delegations : <<p, d>> \in Pools \X Delegations
    OBVIOUS
  <1> QED BY <1>1, <1>2 DEF DataKeys, AmountKeys

\* Balances are integers, and those outside of K stay.
LEMMA AddsIs ==
  ASSUME NEW s \in PosStates, NEW t, NEW K, NEW a \in Int, Adds(s, t, K, a)
  PROVE  \A j \in AmountKeys : /\ s.amounts[j] \in Int
                               /\ j \notin K => t.amounts[j] = s.amounts[j]
                               /\ j \in K => t.amounts[j] = s.amounts[j] + a
  <1>1. \A j \in AmountKeys : s.amounts[j] \in Int
    BY DEF PosStates, StateSet
  <1> QED BY <1>1 DEF Adds

LEMMA SharesSame ==
  ASSUME NEW s, NEW t, NEW p, \A d \in Delegations : t.amounts[<<p, d>>] = s.amounts[<<p, d>>]
  PROVE  SharesIn(t, p) = SharesIn(s, p)
  <1>1. [d \in Delegations |-> t.amounts[<<p, d>>]] = [d \in Delegations |-> s.amounts[<<p, d>>]]
    OBVIOUS
  <1> QED BY <1>1 DEF SharesIn

\* The shares of a pool add up to a number.
LEMMA SharesNat ==
  ASSUME NEW s, Sound(s), NEW p \in Pools
  PROVE  SharesIn(s, p) \in Nat /\ [d \in Delegations |-> s.amounts[<<p, d>>]] \in [Delegations -> Nat]
  <1>1. \A d \in Delegations : s.amounts[<<p, d>>] \in Nat
    <2> TAKE d \in Delegations
    <2>1. <<p, d>> \in AmountKeys
      BY PosKeys
    <2>2. s.amounts[<<p, d>>] \in Int
      BY <2>1 DEF Sound, PosStates, StateSet
    <2> QED BY <2>1, <2>2 DEF Sound
  <1>2. [d \in Delegations |-> s.amounts[<<p, d>>]] \in [Delegations -> Nat]
    BY <1>1
  <1> QED BY <1>2, SumNat, PosKeys DEF SharesIn

\* One share changes.
LEMMA SharesChange ==
  ASSUME NEW s \in PosStates, NEW t \in PosStates, NEW p \in Pools, NEW o \in Delegations,
         \A d \in Delegations \ {o} : t.amounts[<<p, d>>] = s.amounts[<<p, d>>]
  PROVE  SharesIn(s, p) \in Int
         /\ SharesIn(t, p) = SharesIn(s, p) + (t.amounts[<<p, o>>] - s.amounts[<<p, o>>])
  <1> DEFINE f == [d \in Delegations |-> s.amounts[<<p, d>>]]
             g == [d \in Delegations |-> t.amounts[<<p, d>>]]
  <1>1. \A d \in Delegations : s.amounts[<<p, d>>] \in Int /\ t.amounts[<<p, d>>] \in Int
    <2> TAKE d \in Delegations
    <2>1. <<p, d>> \in AmountKeys
      BY PosKeys
    <2> QED BY <2>1 DEF PosStates, StateSet
  <1>2. f \in [Delegations -> Int] /\ g \in [Delegations -> Int] /\ \A d \in Delegations \ {o} : g[d] = f[d]
    BY <1>1
  <1>3. g[o] = t.amounts[<<p, o>>] /\ f[o] = s.amounts[<<p, o>>]
    OBVIOUS
  <1>4. SumFunction(f) = SharesIn(s, p) /\ SumFunction(g) = SharesIn(t, p)
    BY DEF SharesIn
  <1> HIDE DEF f, g
  <1>5. SumFunction(f) \in Int /\ SumFunction(g) = SumFunction(f) + (g[o] - f[o])
    BY <1>2, SumChanges, PosKeys
  <1> QED BY <1>3, <1>4, <1>5

\* A pool is changed.
LEMMA SoundPool ==
  ASSUME NEW s, Sound(s), NEW t \in PosStates, NEW p \in Pools, NEW a \in Int,
         Adds(s, t, {p}, a), \A j \in DataKeys \ {p} : t.data[j] = s.data[j],
         t.amounts[p] >= 0,
         \/ t.data[p] = NoData
         \/ /\ t.data[p] \in [pledge : Nat \ {0}, rewards : Nat]
            /\ t.amounts[p] = (t.data[p].pledge + t.data[p].rewards) + SharesIn(s, p)
  PROVE  Sound(t)
  <1>1. s \in PosStates /\ \A k \in AmountKeys : s.amounts[k] >= 0
    BY DEF Sound
  <1>2. \A j \in AmountKeys \ {p} : t.amounts[j] = s.amounts[j]
    BY <1>1, AddsIs
  <1>3. \A k \in AmountKeys : t.amounts[k] >= 0
    BY <1>1, <1>2
  <1>4. ASSUME NEW q \in Pools
        PROVE  SharesIn(t, q) = SharesIn(s, q)
    <2>1. \A d \in Delegations : <<q, d>> \in AmountKeys \ {p}
      BY PosKeys
    <2> QED BY <1>2, <2>1, SharesSame
  <1>5. ASSUME NEW q \in Pools
        PROVE  PoolOK(t, q)
    <2>1. CASE q = p
      BY <1>4, <2>1 DEF PoolOK
    <2>2. CASE q # p
      <3>1. t.data[q] = s.data[q] /\ t.amounts[q] = s.amounts[q] /\ PoolOK(s, q)
        BY <1>2, <2>2, PosKeys DEF Sound
      <3> QED BY <1>4, <3>1 DEF PoolOK
    <2> QED BY <2>1, <2>2
  <1>6. ASSUME NEW d \in Delegations
        PROVE  DelegationOK(t, d)
    <2>1. d \in DataKeys \ {p} /\ d \in AmountKeys \ {p} /\ \A q \in Pools : <<q, d>> \in AmountKeys \ {p}
      BY PosKeys
    <2>2. t.data[d] = s.data[d] /\ t.amounts[d] = s.amounts[d] /\ \A q \in Pools : t.amounts[<<q, d>>] = s.amounts[<<q, d>>]
      BY <1>2, <2>1
    <2>3. DelegationOK(s, d)
      BY DEF Sound
    <2> QED BY <2>2, <2>3 DEF DelegationOK
  <1> QED BY <1>3, <1>5, <1>6 DEF Sound

\* A delegation without a balance is made or deleted.
LEMMA SoundDelegation ==
  ASSUME NEW s, Sound(s), NEW t \in PosStates, NEW d \in Delegations,
         Adds(s, t, {}, 0), \A j \in DataKeys \ {d} : t.data[j] = s.data[j],
         s.amounts[d] = 0, t.data[d] \in {NoData} \cup Pools
  PROVE  Sound(t)
  <1>1. s \in PosStates /\ \A k \in AmountKeys : s.amounts[k] >= 0
    BY DEF Sound
  <1>2. \A j \in AmountKeys : t.amounts[j] = s.amounts[j]
    BY <1>1, AddsIs
  <1>3. \A k \in AmountKeys : t.amounts[k] >= 0
    BY <1>1, <1>2
  <1>4. ASSUME NEW q \in Pools
        PROVE  PoolOK(t, q)
    <2>1. \A e \in Delegations : <<q, e>> \in AmountKeys
      BY PosKeys
    <2>2. SharesIn(t, q) = SharesIn(s, q)
      BY <1>2, <2>1, SharesSame
    <2>3. t.data[q] = s.data[q] /\ t.amounts[q] = s.amounts[q] /\ PoolOK(s, q)
      BY <1>2, PosKeys DEF Sound
    <2> QED BY <2>2, <2>3 DEF PoolOK
  <1>5. ASSUME NEW e \in Delegations
        PROVE  DelegationOK(t, e)
    <2>1. t.amounts[e] = s.amounts[e] /\ \A q \in Pools : t.amounts[<<q, e>>] = s.amounts[<<q, e>>]
      BY <1>2, PosKeys
    <2>2. DelegationOK(s, e)
      BY DEF Sound
    <2>3. CASE e = d
      <3>1. \A q \in Pools : s.amounts[<<q, e>>] = 0
        BY <2>2, <2>3 DEF DelegationOK
      <3> QED BY <2>1, <2>3, <3>1 DEF DelegationOK
    <2>4. CASE e # d
      <3>1. t.data[e] = s.data[e]
        BY <2>4, PosKeys
      <3> QED BY <2>1, <2>2, <3>1 DEF DelegationOK
    <2> QED BY <2>3, <2>4
  <1> QED BY <1>3, <1>4, <1>5 DEF Sound

\* A delegation of a pool gets a, or loses it.
LEMMA SoundShare ==
  ASSUME NEW s, Sound(s), NEW t \in PosStates, NEW d \in Delegations, NEW p \in Pools, NEW a \in Int,
         s.data[d] = p, \A j \in DataKeys : t.data[j] = s.data[j],
         NEW K, Adds(s, t, K, a), {d, <<p, d>>} \subseteq K, K \subseteq {d, p, <<p, d>>},
         s.data[p] # NoData => p \in K, t.amounts[d] >= 0,
         s.data[p] = NoData => t.amounts[p] >= 0
  PROVE  Sound(t)
  <1>1. s \in PosStates /\ \A k \in AmountKeys : s.amounts[k] >= 0
    BY DEF Sound
  <1>2. d \in AmountKeys /\ p \in AmountKeys /\ <<p, d>> \in AmountKeys
    BY PosKeys
  <1>3. \A j \in AmountKeys \ {d, p, <<p, d>>} : t.amounts[j] = s.amounts[j]
    BY <1>1, AddsIs
  <1>4. t.amounts[d] = s.amounts[d] + a /\ t.amounts[<<p, d>>] = s.amounts[<<p, d>>] + a
    BY <1>1, <1>2, AddsIs
  <1>5. s.amounts[d] \in Int /\ s.amounts[p] \in Int /\ s.amounts[<<p, d>>] \in Int
    BY <1>1, <1>2, AddsIs
  <1>6. s.amounts[<<p, d>>] = s.amounts[d]
    BY DEF Sound, DelegationOK
  <1>7. ASSUME NEW q \in Pools, q # p
        PROVE  PoolOK(t, q) /\ \A e \in Delegations : t.amounts[<<q, e>>] = s.amounts[<<q, e>>]
    <2>1. q \in AmountKeys \ {d, p, <<p, d>>} /\ \A e \in Delegations : <<q, e>> \in AmountKeys \ {d, p, <<p, d>>}
      <3>1. q \in AmountKeys /\ q # d /\ q # <<p, d>>
        BY PosKeys
      <3>2. \A e \in Delegations : <<q, e>> \in AmountKeys /\ <<q, e>> # d /\ <<q, e>> # p
        BY PosKeys
      <3>3. \A e \in Delegations : <<q, e>> # <<p, d>>
        BY <1>7
      <3> QED BY <1>7, <3>1, <3>2, <3>3
    <2>2. t.amounts[q] = s.amounts[q] /\ \A e \in Delegations : t.amounts[<<q, e>>] = s.amounts[<<q, e>>]
      BY <1>3, <2>1
    <2>3. SharesIn(t, q) = SharesIn(s, q)
      BY <2>2, SharesSame
    <2>4. t.data[q] = s.data[q] /\ PoolOK(s, q)
      BY PosKeys DEF Sound
    <2> QED BY <2>2, <2>3, <2>4 DEF PoolOK
  <1>8. SharesIn(s, p) \in Nat /\ SharesIn(t, p) = SharesIn(s, p) + a
    <2>1. \A e \in Delegations \ {d} : <<p, e>> \in AmountKeys \ {d, p, <<p, d>>}
      BY PosKeys
    <2>2. \A e \in Delegations \ {d} : t.amounts[<<p, e>>] = s.amounts[<<p, e>>]
      BY <1>3, <2>1
    <2>3. SharesIn(t, p) = SharesIn(s, p) + (t.amounts[<<p, d>>] - s.amounts[<<p, d>>])
      BY <1>1, <2>2, SharesChange
    <2>4. SharesIn(s, p) \in Nat
      BY SharesNat
    <2> QED BY <1>4, <1>5, <2>3, <2>4
  <1>9. PoolOK(t, p)
    <2>1. t.data[p] = s.data[p] /\ PoolOK(s, p)
      BY PosKeys DEF Sound
    <2>2. CASE s.data[p] = NoData
      BY <2>1, <2>2 DEF PoolOK
    <2>3. CASE s.data[p] # NoData
      <3>1. t.amounts[p] = s.amounts[p] + a
        BY <1>1, <1>2, <2>3, AddsIs
      <3>2. /\ s.data[p] \in [pledge : Nat \ {0}, rewards : Nat]
            /\ s.amounts[p] = (s.data[p].pledge + s.data[p].rewards) + SharesIn(s, p)
        BY <2>1, <2>3 DEF PoolOK
      <3>3. s.data[p].pledge \in Nat /\ s.data[p].rewards \in Nat
        BY <3>2
      <3>4. t.amounts[p] = (s.data[p].pledge + s.data[p].rewards) + SharesIn(t, p)
        BY <1>8, <3>1, <3>2, <3>3
      <3> QED BY <2>1, <3>2, <3>4 DEF PoolOK
    <2> QED BY <2>2, <2>3
  <1>10. ASSUME NEW e \in Delegations
         PROVE  DelegationOK(t, e)
    <2>1. t.data[e] = s.data[e] /\ DelegationOK(s, e)
      BY PosKeys DEF Sound
    <2>2. CASE e = d
      <3>1. \A q \in Pools : q # p => t.amounts[<<q, e>>] = s.amounts[<<q, e>>]
        BY <1>7
      <3>2. t.amounts[<<p, e>>] = t.amounts[e] /\ p # NoData
        BY <1>4, <1>6, <2>2, PosKeys
      <3> QED BY <2>1, <2>2, <3>1, <3>2 DEF DelegationOK
    <2>3. CASE e # d
      <3>1. e \in AmountKeys \ {d, p, <<p, d>>} /\ \A q \in Pools : <<q, e>> \in AmountKeys \ {d, p, <<p, d>>}
        BY <2>3, PosKeys
      <3>2. t.amounts[e] = s.amounts[e] /\ \A q \in Pools : t.amounts[<<q, e>>] = s.amounts[<<q, e>>]
        BY <1>3, <3>1
      <3> QED BY <2>1, <3>2 DEF DelegationOK
    <2> QED BY <2>2, <2>3
  <1>11. t.amounts[p] >= 0
    <2>1. CASE s.data[p] = NoData
      BY <2>1
    <2>2. CASE s.data[p] # NoData
      <3>1. /\ t.data[p] \in [pledge : Nat \ {0}, rewards : Nat]
            /\ t.amounts[p] = (t.data[p].pledge + t.data[p].rewards) + SharesIn(t, p)
        BY <1>9, <2>2, PosKeys DEF PoolOK
      <3>2. SharesIn(t, p) >= 0
        <4>1. [e \in Delegations |-> t.amounts[<<p, e>>]] \in [Delegations -> Nat]
          <5>1. ASSUME NEW e \in Delegations
                PROVE  t.amounts[<<p, e>>] \in Nat
            <6>1. CASE e = d
              BY <1>4, <1>5, <1>6, <6>1
            <6>2. CASE e # d
              <7>1. <<p, e>> \in AmountKeys \ {d, p, <<p, d>>}
                BY <6>2, PosKeys
              <7>2. t.amounts[<<p, e>>] = s.amounts[<<p, e>>] /\ s.amounts[<<p, e>>] \in Int
                BY <1>1, <1>3, <7>1, AddsIs
              <7> QED BY <1>1, <7>1, <7>2
            <6> QED BY <6>1, <6>2
          <5> QED BY <5>1
        <4>2. SumFunction([e \in Delegations |-> t.amounts[<<p, e>>]]) \in Nat
          BY <4>1, SumNat, PosKeys
        <4> QED BY <4>2 DEF SharesIn
      <3>3. t.data[p].pledge \in Nat /\ t.data[p].rewards \in Nat
        BY <3>1
      <3> QED BY <1>8, <3>1, <3>2, <3>3
    <2> QED BY <2>1, <2>2
  <1>12. \A k \in AmountKeys : t.amounts[k] >= 0
    <2>1. t.amounts[<<p, d>>] >= 0
      BY <1>4, <1>6
    <2> QED BY <1>1, <1>3, <1>11, <2>1
  <1> QED BY <1>7, <1>9, <1>10, <1>12 DEF Sound
----------------------------------------------------------------------------
(* The operations. *)

\* Pools and delegations are made by operations only, delegations for pools that exist.
Grows(st, u, new) ==
  /\ \A q \in Pools : new.data[q] # NoData => st.data[q] # NoData \/ (u.op = "CreatePool" /\ u.id = q)
  /\ \A d \in Delegations : new.data[d] # NoData =>
        new.data[d] = st.data[d] \/ (new.data[d] \in Pools /\ st.data[new.data[d]] # NoData)

\* The verifier w comes from one with the undos us by an operation, which u undoes, from st to new.
Done(us, st, w, u, new) ==
  /\ Reads(w, new) /\ Sound(new)
  /\ u \in UndoSet /\ w.undos = Append(us, u)
  /\ UndoFrom(new, u, st)
  /\ Grows(st, u, new)

\* From st to new the data of k becomes x, and what k has as a delegation changes by g.
Sets(st, new, k, x, g) ==
  /\ new.data[k] = x /\ \A j \in DataKeys \ {k} : new.data[j] = st.data[j]
  /\ \A d \in Delegations : new.amounts[d] = st.amounts[d] + (IF d = k THEN g ELSE 0)

LEMMA AddsSets ==
  ASSUME NEW st, NEW new, NEW k, NEW x, NEW K, NEW a, NEW g,
         new.data[k] = x, \A j \in DataKeys \ {k} : new.data[j] = st.data[j],
         Adds(st, new, K, a),
         \A d \in Delegations : (IF d \in K THEN a ELSE 0) = (IF d = k THEN g ELSE 0)
  PROVE  Sets(st, new, k, x, g)
  <1>1. \A d \in Delegations : new.amounts[d] = st.amounts[d] + (IF d = k THEN g ELSE 0)
    <2> TAKE d \in Delegations
    <2>1. new.amounts[d] = st.amounts[d] + (IF d \in K THEN a ELSE 0)
      BY PosKeys DEF Adds
    <2> QED BY <2>1
  <1> QED BY <1>1 DEF Sets

\* An operation that changes the data of one account.
RunsData(v, st, k, x, d, K, a, u, w) ==
  /\ k \in DataKeys /\ x \in PosValues /\ a \in Int
  /\ d = DataDelta(st.data[k], x)
  /\ w = Remember(MergeDelta(v, DataOf(k, d), AmountOf(AmountKeys, K, a)), u)

LEMMA DataOp ==
  ASSUME db \in PosStates, NEW v, NEW st \in PosStates, Reads(v, st),
         NEW k, NEW x, NEW K, NEW a, NEW d, NEW u, NEW w, RunsData(v, st, k, x, d, K, a, u, w)
  PROVE  \E new : Reads(w, new) /\ w.undos = Append(v.undos, u) /\ MovedData(st, k, x, d, K, a, new)
  <1> DEFINE c == ChangeOf(k, d, K, a)
             m == MergeDelta(v, DataOf(k, d), AmountOf(AmountKeys, K, a))
  <1>1. PICK new : new = Apply(st, c)
    OBVIOUS
  <1>2. /\ k \in DataKeys /\ x \in PosValues /\ a \in Int /\ d = DataDelta(st.data[k], x)
        /\ w = Remember(m, u)
    BY DEF RunsData
  <1>3. c \in PosDeltas /\ Matches(st, c) /\ MovedData(st, k, x, d, K, a, new)
    BY <1>1, <1>2, DataMove
  <1>4. Reads(m, new) /\ m.undos = v.undos
    BY <1>1, <1>3, MergeReads DEF ChangeOf
  <1> HIDE DEF m
  <1>5. Reads(Remember(m, u), new) /\ Remember(m, u).undos = Append(v.undos, u)
    BY <1>4, RememberReads
  <1> QED BY <1>2, <1>3, <1>5 DEF m

\* An operation that changes balances only.
LEMMA AmountOp ==
  ASSUME db \in PosStates, NEW v, NEW st \in PosStates, Reads(v, st), NEW K, NEW a \in Int, NEW u,
         NEW w, w = Remember(MergeDelta(v, NoDataDelta, AmountOf(AmountKeys, K, a)), u)
  PROVE  \E new : Reads(w, new) /\ w.undos = Append(v.undos, u) /\ MovedAmounts(st, K, a, new)
  <1> DEFINE c == ChangeNone(K, a)
             m == MergeDelta(v, NoDataDelta, AmountOf(AmountKeys, K, a))
  <1>1. PICK new : new = Apply(st, c)
    OBVIOUS
  <1>2. c \in PosDeltas /\ Matches(st, c) /\ MovedAmounts(st, K, a, new)
    BY <1>1, AmountMove
  <1>3. Reads(m, new) /\ m.undos = v.undos
    BY <1>1, <1>2, MergeReads DEF ChangeNone
  <1> HIDE DEF m
  <1>4. Reads(Remember(m, u), new) /\ Remember(m, u).undos = Append(v.undos, u)
    BY <1>3, RememberReads
  <1> QED BY <1>2, <1>4 DEF m

\* What a verifier gets of the state it reads.
LEMMA Gets ==
  ASSUME NEW v, NEW st, Reads(v, st), NEW k
  PROVE  /\ GetData(v, k) = st.data[k] /\ GetAmount(v, k) = st.amounts[k] /\ PoolOf(v, k) = st.data[k]
         /\ (Exists(v, k) <=> st.data[k] # NoData)
  BY DEF Reads, GetData, GetAmount, PoolOf, Exists

\* Undos are records of their fields.
LEMMA UndoFields ==
  ASSUME NEW op \in PosOps, NEW id \in DataKeys, NEW amount \in Int,
         NEW data \in [old : PosValues, new : PosValues] \cup {NoData}
  PROVE  /\ Undo(op, id, amount, data) \in UndoSet
         /\ Undo(op, id, amount, data).op = op /\ Undo(op, id, amount, data).id = id
         /\ Undo(op, id, amount, data).amount = amount /\ Undo(op, id, amount, data).data = data
  BY DEF Undo, UndoSet

LEMMA PoolDataIs ==
  ASSUME NEW x \in Nat \ {0}, NEW y \in Nat
  PROVE  /\ PoolData(x, y) \in [pledge : Nat \ {0}, rewards : Nat] /\ PoolData(x, y) \in PosValues
         /\ PoolData(x, y) # NoData
         /\ PoolData(x, y).pledge = x /\ PoolData(x, y).rewards = y
  <1>1. PoolData(x, y) = [pledge |-> x, rewards |-> y]
    BY DEF PoolData
  <1>2. PoolData(x, y) \in [pledge : Nat, rewards : Nat]
    BY <1>1
  <1>3. PoolData(x, y) # NoData
    BY <1>2, PosAssumption
  <1> QED BY <1>1, <1>2, <1>3 DEF PosValues

LEMMA DoCreatePool ==
  ASSUME db \in PosStates, NEW v, NEW st, Sound(st), Reads(v, st), NEW p \in Pools, NEW a \in Nat \ {0},
         st.data[p] = NoData, st.amounts[p] <= 0, SharesIn(st, p) = 0
  PROVE  \E u, new : Done(v.undos, st, CreatePool(v, p, a), u, new)
                     /\ u.op = "CreatePool" /\ u.id = p /\ Sets(st, new, p, PoolData(a, 0), 0)
  <1>1. PICK x : x = PoolData(a, 0)
    OBVIOUS
  <1>2. PICK d : d = DataDelta(NoData, x)
    OBVIOUS
  <1>3. PICK u : u = Undo("CreatePool", p, a, Invert(d))
    OBVIOUS
  <1>4. st \in PosStates /\ p \in DataKeys /\ p \in AmountKeys /\ a \in Int
    BY PosKeys DEF Sound
  <1>5. /\ x \in [pledge : Nat \ {0}, rewards : Nat] /\ x \in PosValues /\ x # NoData
        /\ x.pledge = a /\ x.rewards = 0
    BY <1>1, PoolDataIs
  <1>6. CreatePool(v, p, a) = Remember(MergeDelta(v, DataOf(p, d), AmountOf(AmountKeys, {p}, a)), u)
    BY <1>1, <1>2, <1>3 DEF CreatePool
  <1>7. PICK new : /\ Reads(CreatePool(v, p, a), new) /\ CreatePool(v, p, a).undos = Append(v.undos, u)
                    /\ MovedData(st, p, x, d, {p}, a, new)
    <2>1. RunsData(v, st, p, x, d, {p}, a, u, CreatePool(v, p, a))
      BY <1>2, <1>4, <1>5, <1>6 DEF RunsData
    <2> QED BY <1>4, <2>1, DataOp
  <1>8. /\ new \in PosStates /\ new.data[p] = x /\ \A j \in DataKeys \ {p} : new.data[j] = st.data[j]
        /\ Adds(st, new, {p}, a)
        /\ Back(new, ChangeOf(p, Invert(d), {p}, -a), st)
        /\ Invert(d) \in [old : PosValues, new : PosValues]
    BY <1>7 DEF MovedData
  <1>9. u \in UndoSet /\ u.op = "CreatePool" /\ u.id = p /\ u.amount = a /\ u.data = Invert(d)
    BY <1>3, <1>4, <1>8, UndoFields DEF PosOps
  <1>10. new.amounts[p] = a
    <2>1. st.amounts[p] \in Int /\ st.amounts[p] >= 0 /\ new.amounts[p] = st.amounts[p] + a
      BY <1>4, <1>8, AddsIs DEF Sound
    <2> QED BY <2>1
  <1>11. Sound(new)
    <2>1. new.amounts[p] = (new.data[p].pledge + new.data[p].rewards) + SharesIn(st, p) /\ new.amounts[p] >= 0
      BY <1>5, <1>8, <1>10
    <2> QED BY <1>4, <1>5, <1>8, <2>1, SoundPool
  <1>12. UndoFrom(new, u, st)
    <2>1. UndoIs(new, u, ChangeOf(p, Invert(d), {p}, -a))
      BY <1>5, <1>8, <1>9, <1>10 DEF UndoIs
    <2> QED BY <1>8, <2>1 DEF UndoFrom, Back
  <1>13. Grows(st, u, new)
    BY <1>8, <1>9, PosKeys DEF Grows
  <1>14. Sets(st, new, p, PoolData(a, 0), 0)
    <2>1. \A e \in Delegations : (IF e \in {p} THEN a ELSE 0) = (IF e = p THEN 0 ELSE 0)
      BY PosKeys
    <2> QED BY <1>1, <1>8, <2>1, AddsSets
  <1> QED BY <1>7, <1>9, <1>11, <1>12, <1>13, <1>14 DEF Done

LEMMA DoDecommissionPool ==
  ASSUME db \in PosStates, NEW v, NEW st, Sound(st), Reads(v, st), NEW p \in Pools
  PROVE  \E u, new : Done(v.undos, st, DecommissionPool(v, p), u, new) /\ Sets(st, new, p, NoData, 0)
  <1>1. PICK a : a = st.amounts[p]
    OBVIOUS
  <1>2. PICK d : d = DataDelta(st.data[p], NoData)
    OBVIOUS
  <1>3. PICK u : u = Undo("DecommissionPool", p, a, Invert(d))
    OBVIOUS
  <1>4. st \in PosStates /\ p \in DataKeys /\ p \in AmountKeys /\ a \in Int /\ NoData \in PosValues
    BY <1>1, PosKeys DEF Sound, PosStates, StateSet, PosValues
  <1>5. PICK b : b = -a
    OBVIOUS
  <1>6. DecommissionPool(v, p) = Remember(MergeDelta(v, DataOf(p, d), AmountOf(AmountKeys, {p}, b)), u)
    BY <1>1, <1>2, <1>3, <1>5, Gets DEF DecommissionPool
  <1>7. b \in Int /\ -b = a
    BY <1>4, <1>5
  <1>8. PICK new : /\ Reads(DecommissionPool(v, p), new) /\ DecommissionPool(v, p).undos = Append(v.undos, u)
                    /\ MovedData(st, p, NoData, d, {p}, b, new)
    <2>1. RunsData(v, st, p, NoData, d, {p}, b, u, DecommissionPool(v, p))
      BY <1>2, <1>4, <1>6, <1>7 DEF RunsData
    <2> QED BY <1>4, <2>1, DataOp
  <1>9. /\ new \in PosStates /\ new.data[p] = NoData /\ \A j \in DataKeys \ {p} : new.data[j] = st.data[j]
        /\ Adds(st, new, {p}, b)
        /\ Back(new, ChangeOf(p, Invert(d), {p}, -b), st)
        /\ Invert(d) \in [old : PosValues, new : PosValues]
    BY <1>8 DEF MovedData
  <1>10. u \in UndoSet /\ u.op = "DecommissionPool" /\ u.id = p /\ u.amount = a /\ u.data = Invert(d)
    BY <1>3, <1>4, <1>9, UndoFields DEF PosOps
  <1>11. new.amounts[p] = 0
    <2>1. new.amounts[p] = st.amounts[p] + b
      BY <1>4, <1>7, <1>9, AddsIs
    <2> QED BY <1>1, <1>4, <1>5, <2>1
  <1>12. Sound(new)
    BY <1>7, <1>9, <1>11, SoundPool
  <1>13. UndoFrom(new, u, st)
    <2>1. UndoIs(new, u, ChangeOf(p, Invert(d), {p}, a))
      BY <1>9, <1>10, <1>11 DEF UndoIs
    <2> QED BY <1>7, <1>9, <2>1 DEF UndoFrom, Back
  <1>14. Grows(st, u, new)
    BY <1>9, <1>10, PosKeys DEF Grows
  <1>15. Sets(st, new, p, NoData, 0)
    <2>1. \A e \in Delegations : (IF e \in {p} THEN b ELSE 0) = (IF e = p THEN 0 ELSE 0)
      BY PosKeys
    <2> QED BY <1>9, <2>1, AddsSets
  <1> QED BY <1>8, <1>10, <1>12, <1>13, <1>14, <1>15 DEF Done

\* The rewards of a staker increase.
Increased(st, p, a, u, new) ==
  LET d == DataDelta(st.data[p], PoolData(st.data[p].pledge, st.data[p].rewards + a))
  IN  /\ u = Undo("IncreaseStakerRewards", p, a, Invert(d))
      /\ MovedData(st, p, PoolData(st.data[p].pledge, st.data[p].rewards + a), d, {p}, a, new)

LEMMA DoIncreaseStakerRewards ==
  ASSUME db \in PosStates, NEW v, NEW st, Sound(st), Reads(v, st), NEW p \in Pools, NEW a \in Nat,
         st.data[p] # NoData
  PROVE  \E u, new : Done(v.undos, st, IncreaseStakerRewards(v, p, a), u, new) /\ Increased(st, p, a, u, new)
  <1>1. PICK x : x = PoolData(st.data[p].pledge, st.data[p].rewards + a)
    OBVIOUS
  <1>2. PICK d : d = DataDelta(st.data[p], x)
    OBVIOUS
  <1>3. PICK u : u = Undo("IncreaseStakerRewards", p, a, Invert(d))
    OBVIOUS
  <1>4. st \in PosStates /\ p \in DataKeys /\ p \in AmountKeys /\ a \in Int
    BY PosKeys DEF Sound
  <1>5. /\ st.data[p] \in [pledge : Nat \ {0}, rewards : Nat]
        /\ st.amounts[p] = (st.data[p].pledge + st.data[p].rewards) + SharesIn(st, p)
    BY DEF Sound, PoolOK
  <1>6. st.data[p].pledge \in Nat \ {0} /\ st.data[p].rewards \in Nat /\ st.data[p].rewards + a \in Nat
    BY <1>5
  <1>7. /\ x \in [pledge : Nat \ {0}, rewards : Nat] /\ x \in PosValues
        /\ x.pledge = st.data[p].pledge /\ x.rewards = st.data[p].rewards + a
    BY <1>1, <1>6, PoolDataIs
  <1>8. IncreaseStakerRewards(v, p, a) = Remember(MergeDelta(v, DataOf(p, d), AmountOf(AmountKeys, {p}, a)), u)
    BY <1>1, <1>2, <1>3, Gets DEF IncreaseStakerRewards
  <1>9. PICK new : /\ Reads(IncreaseStakerRewards(v, p, a), new)
                   /\ IncreaseStakerRewards(v, p, a).undos = Append(v.undos, u)
                   /\ MovedData(st, p, x, d, {p}, a, new)
    <2>1. RunsData(v, st, p, x, d, {p}, a, u, IncreaseStakerRewards(v, p, a))
      BY <1>2, <1>4, <1>7, <1>8 DEF RunsData
    <2> QED BY <1>4, <2>1, DataOp
  <1>10. /\ new \in PosStates /\ new.data[p] = x /\ \A j \in DataKeys \ {p} : new.data[j] = st.data[j]
         /\ Adds(st, new, {p}, a)
         /\ Back(new, ChangeOf(p, Invert(d), {p}, -a), st)
         /\ Invert(d) \in [old : PosValues, new : PosValues]
    BY <1>9 DEF MovedData
  <1>11. u \in UndoSet /\ u.op = "IncreaseStakerRewards" /\ u.id = p /\ u.amount = a /\ u.data = Invert(d)
    BY <1>3, <1>4, <1>10, UndoFields DEF PosOps
  <1>12. Sound(new)
    <2>1. st.amounts[p] \in Int /\ st.amounts[p] >= 0 /\ new.amounts[p] = st.amounts[p] + a
      BY <1>4, <1>10, AddsIs DEF Sound
    <2>2. SharesIn(st, p) \in Nat
      BY SharesNat
    <2>3. new.amounts[p] = (new.data[p].pledge + new.data[p].rewards) + SharesIn(st, p) /\ new.amounts[p] >= 0
      BY <1>5, <1>6, <1>7, <1>10, <2>1, <2>2
    <2> QED BY <1>4, <1>7, <1>10, <2>3, SoundPool
  <1>13. UndoFrom(new, u, st)
    <2>1. UndoIs(new, u, ChangeOf(p, Invert(d), {p}, -a))
      BY <1>11 DEF UndoIs
    <2> QED BY <1>10, <2>1 DEF UndoFrom, Back
  <1>14. Grows(st, u, new)
    BY <1>10, PosKeys DEF Grows
  <1> QED BY <1>1, <1>2, <1>3, <1>9, <1>11, <1>12, <1>13, <1>14 DEF Done, Increased

LEMMA NoNegativeZero == -0 = 0
  <1>1. \A z \in Int : -z = 0 - z
    OBVIOUS
  <1>2. 0 \in Int /\ 0 - 0 = 0
    OBVIOUS
  <1> QED BY <1>1, <1>2, Zenon

LEMMA DoCreateDelegationId ==
  ASSUME db \in PosStates, NEW v, NEW st, Sound(st), Reads(v, st), NEW p \in Pools, NEW k \in Delegations,
         st.data[p] # NoData, st.data[k] = NoData
  PROVE  \E u, new : Done(v.undos, st, CreateDelegationId(v, p, k), u, new) /\ Sets(st, new, k, p, 0)
  <1>1. PICK d : d = DataDelta(NoData, p)
    OBVIOUS
  <1>2. PICK u : u = Undo("CreateDelegationId", k, 0, Invert(d))
    OBVIOUS
  <1>3. st \in PosStates /\ k \in DataKeys /\ k \in AmountKeys /\ p \in PosValues /\ p # NoData /\ p # k
    BY PosKeys DEF Sound, PosValues
  <1>4. CreateDelegationId(v, p, k) = Remember(MergeDelta(v, DataOf(k, d), AmountOf(AmountKeys, {}, 0)), u)
    BY <1>1, <1>2 DEF CreateDelegationId
  <1>5. PICK new : /\ Reads(CreateDelegationId(v, p, k), new)
                   /\ CreateDelegationId(v, p, k).undos = Append(v.undos, u)
                   /\ MovedData(st, k, p, d, {}, 0, new)
    <2>1. RunsData(v, st, k, p, d, {}, 0, u, CreateDelegationId(v, p, k))
      BY <1>1, <1>3, <1>4 DEF RunsData
    <2> QED BY <1>3, <2>1, DataOp
  <1>6. /\ new \in PosStates /\ new.data[k] = p /\ \A j \in DataKeys \ {k} : new.data[j] = st.data[j]
        /\ Adds(st, new, {}, 0)
        /\ Back(new, ChangeOf(k, Invert(d), {}, -0), st)
        /\ Invert(d) \in [old : PosValues, new : PosValues]
    BY <1>5 DEF MovedData
  <1>7. u \in UndoSet /\ u.op = "CreateDelegationId" /\ u.id = k /\ u.data = Invert(d)
    BY <1>2, <1>3, <1>6, UndoFields DEF PosOps
  <1>8. Sound(new)
    <2>1. st.amounts[k] = 0
      BY DEF Sound, DelegationOK
    <2> QED BY <1>6, <2>1, SoundDelegation
  <1>9. UndoFrom(new, u, st)
    <2>1. -0 = 0
      BY NoNegativeZero
    <2>2. UndoIs(new, u, ChangeOf(k, Invert(d), {}, 0))
      BY <1>3, <1>6, <1>7 DEF UndoIs
    <2> QED BY <1>6, <2>1, <2>2 DEF UndoFrom, Back
  <1>10. Grows(st, u, new)
    BY <1>6, PosKeys DEF Grows
  <1>11. Sets(st, new, k, p, 0)
    <2>1. \A e \in Delegations : (IF e \in {} THEN 0 ELSE 0) = (IF e = k THEN 0 ELSE 0)
      OBVIOUS
    <2> QED BY <1>6, <2>1, AddsSets
  <1> QED BY <1>5, <1>7, <1>8, <1>9, <1>10, <1>11 DEF Done

LEMMA DoDeleteDelegationId ==
  ASSUME db \in PosStates, NEW v, NEW st, Sound(st), Reads(v, st), NEW k \in Delegations,
         st.data[k] # NoData, st.amounts[k] <= 0
  PROVE  \E u, new : Done(v.undos, st, DeleteDelegationId(v, k), u, new) /\ Sets(st, new, k, NoData, 0)
  <1>1. PICK d : d = DataDelta(st.data[k], NoData)
    OBVIOUS
  <1>2. PICK u : u = Undo("DeleteDelegationId", k, 0, Invert(d))
    OBVIOUS
  <1>3. st \in PosStates /\ k \in DataKeys /\ k \in AmountKeys /\ NoData \in PosValues
    BY PosKeys DEF Sound, PosValues
  <1>4. DeleteDelegationId(v, k) = Remember(MergeDelta(v, DataOf(k, d), AmountOf(AmountKeys, {}, 0)), u)
    BY <1>1, <1>2, Gets DEF DeleteDelegationId
  <1>5. PICK new : /\ Reads(DeleteDelegationId(v, k), new)
                   /\ DeleteDelegationId(v, k).undos = Append(v.undos, u)
                   /\ MovedData(st, k, NoData, d, {}, 0, new)
    <2>1. RunsData(v, st, k, NoData, d, {}, 0, u, DeleteDelegationId(v, k))
      BY <1>1, <1>3, <1>4 DEF RunsData
    <2> QED BY <1>3, <2>1, DataOp
  <1>6. /\ new \in PosStates /\ new.data[k] = NoData /\ \A j \in DataKeys \ {k} : new.data[j] = st.data[j]
        /\ Adds(st, new, {}, 0)
        /\ Back(new, ChangeOf(k, Invert(d), {}, -0), st)
        /\ Invert(d) \in [old : PosValues, new : PosValues]
    BY <1>5 DEF MovedData
  <1>7. u \in UndoSet /\ u.op = "DeleteDelegationId" /\ u.id = k /\ u.data = Invert(d)
    BY <1>2, <1>3, <1>6, UndoFields DEF PosOps
  <1>8. st.amounts[k] = 0 /\ new.amounts[k] = 0
    <2>1. st.amounts[k] \in Int /\ st.amounts[k] >= 0 /\ new.amounts[k] = st.amounts[k]
      BY <1>3, <1>6, AddsIs DEF Sound
    <2> QED BY <2>1
  <1>9. Sound(new)
    BY <1>6, <1>8, SoundDelegation
  <1>10. UndoFrom(new, u, st)
    <2>1. -0 = 0
      BY NoNegativeZero
    <2>2. UndoIs(new, u, ChangeOf(k, Invert(d), {}, 0))
      BY <1>6, <1>7, <1>8 DEF UndoIs
    <2> QED BY <1>6, <2>1, <2>2 DEF UndoFrom, Back
  <1>11. Grows(st, u, new)
    BY <1>6, PosKeys DEF Grows
  <1>12. Sets(st, new, k, NoData, 0)
    <2>1. \A e \in Delegations : (IF e \in {} THEN 0 ELSE 0) = (IF e = k THEN 0 ELSE 0)
      OBVIOUS
    <2> QED BY <1>6, <2>1, AddsSets
  <1> QED BY <1>5, <1>7, <1>9, <1>10, <1>11, <1>12 DEF Done

LEMMA DoDelegateStaking ==
  ASSUME db \in PosStates, NEW v, NEW st, Sound(st), Reads(v, st), NEW k \in Delegations, NEW a \in Nat,
         st.data[k] # NoData
  PROVE  \E new, u : /\ Done(v.undos, st, DelegateStaking(v, k, a), u, new)
                     /\ u = Undo("DelegateStaking", k, a, NoData)
                     /\ MovedAmounts(st, {k, st.data[k], <<st.data[k], k>>}, a, new)
                     /\ Sets(st, new, k, st.data[k], a)
  <1>1. PICK p : p = st.data[k]
    OBVIOUS
  <1>2. PICK u : u = Undo("DelegateStaking", k, a, NoData)
    OBVIOUS
  <1>3. PICK K : K = {k, p, <<p, k>>}
    OBVIOUS
  <1>4. st \in PosStates /\ p \in Pools /\ k \in DataKeys /\ a \in Int /\ k \in AmountKeys /\ p \in AmountKeys
    BY <1>1, PosKeys DEF Sound, DelegationOK
  <1>5. DelegateStaking(v, k, a) = Remember(MergeDelta(v, NoDataDelta, AmountOf(AmountKeys, K, a)), u)
    BY <1>1, <1>2, <1>3, Gets DEF DelegateStaking
  <1>6. PICK w : w = DelegateStaking(v, k, a)
    OBVIOUS
  <1>7. PICK new : Reads(w, new) /\ w.undos = Append(v.undos, u) /\ MovedAmounts(st, K, a, new)
    BY <1>4, <1>5, <1>6, AmountOp
  <1>8. /\ new \in PosStates /\ \A j \in DataKeys : new.data[j] = st.data[j]
        /\ Adds(st, new, K, a) /\ Back(new, ChangeNone(K, -a), st)
    BY <1>7 DEF MovedAmounts
  <1>9. u \in UndoSet /\ u.op = "DelegateStaking" /\ u.id = k /\ u.amount = a
    BY <1>2, <1>4, UndoFields DEF PosOps
  <1>10. new.data[k] = p /\ p # NoData
    BY <1>1, <1>4, <1>8
  <1>11. Sound(new)
    <2>1. /\ st.amounts[k] \in Int /\ st.amounts[k] >= 0 /\ new.amounts[k] = st.amounts[k] + a
          /\ st.amounts[p] \in Int /\ st.amounts[p] >= 0 /\ new.amounts[p] = st.amounts[p] + a
      BY <1>3, <1>4, <1>8, AddsIs DEF Sound
    <2>2. new.amounts[k] >= 0 /\ new.amounts[p] >= 0
      BY <1>4, <2>1
    <2>3. {k, <<p, k>>} \subseteq K /\ K \subseteq {k, p, <<p, k>>} /\ p \in K
      BY <1>3
    <2> QED BY <1>1, <1>4, <1>8, <2>2, <2>3, SoundShare
  <1>12. UndoFrom(new, u, st)
    <2>1. UndoIs(new, u, ChangeNone(K, -a))
      BY <1>3, <1>9, <1>10 DEF UndoIs
    <2> QED BY <1>8, <2>1 DEF UndoFrom, Back
  <1>13. Grows(st, u, new)
    BY <1>8, PosKeys DEF Grows
  <1>14. Done(v.undos, st, DelegateStaking(v, k, a), u, new)
    BY <1>6, <1>7, <1>9, <1>11, <1>12, <1>13 DEF Done
  <1>15. Sets(st, new, k, p, a)
    <2>1. \A d \in Delegations : (IF d \in K THEN a ELSE 0) = (IF d = k THEN a ELSE 0)
      BY <1>3, <1>4, PosKeys
    <2> QED BY <1>8, <1>10, <2>1, AddsSets
  <1> QED BY <1>1, <1>2, <1>3, <1>7, <1>14, <1>15

LEMMA DoSpendShare ==
  ASSUME db \in PosStates, NEW v, NEW st, Sound(st), Reads(v, st), NEW k \in Delegations, NEW a \in Nat,
         st.data[k] # NoData, GetAmount(SpendShare(v, k, a), k) >= 0
  PROVE  \E u, new : Done(v.undos, st, SpendShare(v, k, a), u, new) /\ Sets(st, new, k, st.data[k], -a)
  <1>1. PICK p : p = st.data[k]
    OBVIOUS
  <1>2. PICK u : u = Undo("SpendFromShare", k, a, NoData)
    OBVIOUS
  <1>3. PICK K : K = {k, <<p, k>>} \cup (IF st.data[p] # NoData THEN {p} ELSE {})
    OBVIOUS
  <1>4. PICK b : b = -a
    OBVIOUS
  <1>5. /\ st \in PosStates /\ p \in Pools /\ k \in DataKeys /\ a \in Int /\ b \in Int /\ -b = a
        /\ k \in AmountKeys /\ p \in AmountKeys /\ p \in DataKeys
    BY <1>1, <1>4, PosKeys DEF Sound, DelegationOK
  <1>6. SpendShare(v, k, a) = Remember(MergeDelta(v, NoDataDelta, AmountOf(AmountKeys, K, b)), u)
    <2>1. PoolOf(v, k) = p /\ (Exists(v, p) <=> st.data[p] # NoData)
      BY <1>1, Gets
    <2>2. K = {k, <<p, k>>} \cup (IF Exists(v, p) THEN {p} ELSE {})
      BY <1>3, <2>1
    <2> QED BY <1>2, <1>4, <2>1, <2>2 DEF SpendShare
  <1>7. PICK w : w = SpendShare(v, k, a)
    OBVIOUS
  <1>8. PICK new : Reads(w, new) /\ w.undos = Append(v.undos, u) /\ MovedAmounts(st, K, b, new)
    BY <1>5, <1>6, <1>7, AmountOp
  <1>9. /\ new \in PosStates /\ \A j \in DataKeys : new.data[j] = st.data[j]
        /\ Adds(st, new, K, b) /\ Back(new, ChangeNone(K, -b), st)
    BY <1>8 DEF MovedAmounts
  <1>10. u \in UndoSet /\ u.op = "SpendFromShare" /\ u.id = k /\ u.amount = a
    BY <1>2, <1>5, UndoFields DEF PosOps
  <1>11. new.data[k] = p /\ p # NoData /\ new.data[p] = st.data[p]
    BY <1>1, <1>5, <1>9
  <1>12. Sound(new)
    <2>1. new.amounts[k] >= 0
      BY <1>7, <1>8, Gets
    <2>2. {k, <<p, k>>} \subseteq K /\ K \subseteq {k, p, <<p, k>>}
      BY <1>3
    <2>3. st.data[p] # NoData => p \in K
      BY <1>3
    <2>4. st.data[p] = NoData => new.amounts[p] >= 0
      <3> HAVE st.data[p] = NoData
      <3>1. p \notin K
        BY <1>3, <1>5, PosKeys
      <3>2. new.amounts[p] = st.amounts[p]
        BY <1>5, <1>9, <3>1, AddsIs
      <3> QED BY <1>5, <3>2 DEF Sound
    <2> QED BY <1>1, <1>5, <1>9, <2>1, <2>2, <2>3, <2>4, SoundShare
  <1>13. UndoFrom(new, u, st)
    <2>1. UndoIs(new, u, ChangeNone(K, a))
      <3>1. K = {u.id, <<new.data[u.id], u.id>>} \cup (IF new.data[new.data[u.id]] # NoData THEN {new.data[u.id]} ELSE {})
        BY <1>3, <1>10, <1>11
      <3> QED BY <1>10, <1>11, <3>1 DEF UndoIs
    <2> QED BY <1>5, <1>9, <2>1 DEF UndoFrom, Back
  <1>14. Grows(st, u, new)
    BY <1>9, PosKeys DEF Grows
  <1>15. Sets(st, new, k, p, b)
    <2>1. \A d \in Delegations : (IF d \in K THEN b ELSE 0) = (IF d = k THEN b ELSE 0)
      BY <1>3, <1>5, PosKeys
    <2> QED BY <1>9, <1>11, <2>1, AddsSets
  <1> QED BY <1>1, <1>4, <1>7, <1>8, <1>10, <1>12, <1>13, <1>14, <1>15 DEF Done
----------------------------------------------------------------------------
(* The reward of a block. *)

\* What is left of t without what leads from s to w.
Less(t, w, s) == [data |-> t.data, amounts |-> [k \in AmountKeys |-> t.amounts[k] - (w.amounts[k] - s.amounts[k])]]

LEMMA LessIs ==
  ASSUME NEW t \in PosStates, NEW w \in PosStates, NEW s \in PosStates
  PROVE  /\ Less(t, w, s) \in PosStates /\ Less(t, w, s).data = t.data
         /\ \A k \in AmountKeys : /\ Less(t, w, s).amounts[k] = t.amounts[k] - (w.amounts[k] - s.amounts[k])
                                  /\ t.amounts[k] \in Int /\ w.amounts[k] \in Int /\ s.amounts[k] \in Int
  <1> DEFINE am == [k \in AmountKeys |-> t.amounts[k] - (w.amounts[k] - s.amounts[k])]
  <1>1. /\ \A k \in AmountKeys : t.amounts[k] \in Int /\ w.amounts[k] \in Int /\ s.amounts[k] \in Int
        /\ t.data \in [DataKeys -> PosValues]
    BY DEF PosStates, StateSet
  <1>2. am \in [AmountKeys -> Int] /\ \A k \in AmountKeys : am[k] = t.amounts[k] - (w.amounts[k] - s.amounts[k])
    BY <1>1
  <1>3. Less(t, w, s) = [data |-> t.data, amounts |-> am]
    BY DEF Less
  <1> HIDE DEF am
  <1>4. Less(t, w, s).data = t.data /\ Less(t, w, s).amounts = am
    BY <1>3
  <1>5. Less(t, w, s) \in PosStates
    BY <1>1, <1>2, <1>3 DEF PosStates, StateSet
  <1> QED BY <1>1, <1>2, <1>4, <1>5

\* Payments with the undos us lead from s to w.  They can be undone, in their own order, from
\* every state with the same delegations.
Paid(s, us, w) ==
  /\ us \in Seq(UndoSet) /\ w \in PosStates
  /\ \A j \in DataKeys : w.data[j] = s.data[j]
  /\ \A t \in PosStates : (\A d \in Delegations : t.data[d] = s.data[d]) => Undone(t, us, Less(t, w, s))

LEMMA PaidNone ==
  ASSUME NEW s \in PosStates
  PROVE  Paid(s, <<>>, s)
  <1>1. <<>> \in Seq(UndoSet)
    OBVIOUS
  <1>2. ASSUME NEW t \in PosStates
        PROVE  Undone(t, <<>>, Less(t, s, s))
    <2>1. \A k \in AmountKeys : Less(t, s, s).amounts[k] = t.amounts[k]
      BY LessIs
    <2>2. Less(t, s, s) \in PosStates /\ Less(t, s, s).data = t.data
      BY LessIs
    <2>3. Less(t, s, s) = t
      BY <2>1, <2>2, SameState DEF PosStates
    <2> QED BY <2>3, UndoneNone
  <1> QED BY <1>1, <1>2 DEF Paid

LEMMA PaidMore ==
  ASSUME NEW s \in PosStates, NEW us, NEW w, Paid(s, us, w), NEW k \in Delegations, NEW a \in Nat,
         NEW p, p = w.data[k], p # NoData, NEW u, u = Undo("DelegateStaking", k, a, NoData),
         NEW K, K = {k, p, <<p, k>>}, NEW x, MovedAmounts(w, K, a, x)
  PROVE  Paid(s, Append(us, u), x)
  <1>1. /\ us \in Seq(UndoSet) /\ w \in PosStates /\ \A j \in DataKeys : w.data[j] = s.data[j]
        /\ \A t \in PosStates : (\A d \in Delegations : t.data[d] = s.data[d]) => Undone(t, us, Less(t, w, s))
    BY DEF Paid
  <1>2. x \in PosStates /\ (\A j \in DataKeys : x.data[j] = w.data[j]) /\ Adds(w, x, K, a)
    BY DEF MovedAmounts
  <1>3. k \in DataKeys /\ a \in Int /\ NoData \in [old : PosValues, new : PosValues] \cup {NoData}
    BY PosKeys
  <1>4. u \in UndoSet /\ u.op = "DelegateStaking" /\ u.id = k /\ u.amount = a
    BY <1>3, UndoFields DEF PosOps
  <1>5. Append(us, u) = us \o <<u>> /\ Append(us, u) \in Seq(UndoSet)
    BY <1>1, <1>4
  <1>6. PICK b : b = -a
    OBVIOUS
  <1>7. b \in Int /\ b = -a
    BY <1>3, <1>6
  <1>8. ASSUME NEW t \in PosStates, \A d \in Delegations : t.data[d] = s.data[d]
        PROVE  Undone(t, Append(us, u), Less(t, x, s))
    <2>1. PICK l : l = Less(t, w, s)
      OBVIOUS
    <2>2. PICK m : m = Less(t, x, s)
      OBVIOUS
    <2>3. /\ l \in PosStates /\ l.data = t.data
          /\ \A j \in AmountKeys : /\ l.amounts[j] = t.amounts[j] - (w.amounts[j] - s.amounts[j])
                                   /\ t.amounts[j] \in Int /\ w.amounts[j] \in Int /\ s.amounts[j] \in Int
      BY <1>1, <2>1, LessIs
    <2>4. /\ m \in PosStates /\ m.data = t.data
          /\ \A j \in AmountKeys : m.amounts[j] = t.amounts[j] - (x.amounts[j] - s.amounts[j])
      BY <1>2, <2>2, LessIs
    <2>5. PICK c : c = ChangeNone(K, b)
      OBVIOUS
    <2>6. PICK n : n = Apply(l, c)
      OBVIOUS
    <2>7. c \in PosDeltas /\ Matches(l, c) /\ MovedAmounts(l, K, b, n)
      BY <1>7, <2>3, <2>5, <2>6, AmountMove
    <2>8. n \in PosStates /\ (\A j \in DataKeys : n.data[j] = l.data[j]) /\ Adds(l, n, K, b)
      BY <2>7 DEF MovedAmounts
    <2>9. ASSUME NEW j \in AmountKeys
          PROVE  n.amounts[j] = m.amounts[j]
      <3>1. n.amounts[j] = l.amounts[j] + (IF j \in K THEN b ELSE 0) /\ x.amounts[j] = w.amounts[j] + (IF j \in K THEN a ELSE 0)
        BY <1>2, <2>8 DEF Adds
      <3>2. l.amounts[j] = t.amounts[j] - (w.amounts[j] - s.amounts[j]) /\ m.amounts[j] = t.amounts[j] - (x.amounts[j] - s.amounts[j])
        BY <2>3, <2>4
      <3>3. t.amounts[j] \in Int /\ w.amounts[j] \in Int /\ s.amounts[j] \in Int
        BY <2>3
      <3>4. CASE j \in K
        BY <1>3, <1>7, <3>1, <3>2, <3>3, <3>4
      <3>5. CASE j \notin K
        BY <3>1, <3>2, <3>3, <3>5
      <3> QED BY <3>4, <3>5
    <2>10. n = m
      BY <2>3, <2>4, <2>8, <2>9, SameState DEF PosStates
    <2>11. UndoFrom(l, u, m)
      <3>1. l.data[k] = p
        BY <1>1, <1>3, <1>8, <2>3
      <3>2. UndoIs(l, u, c)
        BY <1>4, <1>6, <2>5, <3>1 DEF UndoIs
      <3> QED BY <2>6, <2>7, <2>10, <3>2 DEF UndoFrom
    <2>12. Undone(t, us, l)
      BY <1>1, <1>8, <2>1
    <2>13. PICK q : q = <<u>>
      OBVIOUS
    <2>14. Undone(l, q, m)
      BY <1>4, <2>11, <2>13, UndoneOne
    <2>15. Undone(t, us \o q, m)
      BY <2>12, <2>14, UndoneBoth
    <2> QED BY <1>5, <2>2, <2>13, <2>15
  <1>9. \A j \in DataKeys : x.data[j] = s.data[j]
    BY <1>1, <1>2
  <1> QED BY <1>2, <1>5, <1>8, <1>9 DEF Paid

\* What the staker gets goes on top.
LEMMA PaidAndIncreased ==
  ASSUME NEW s, Sound(s), NEW us, NEW w, Paid(s, us, w), NEW p \in Pools, s.data[p] # NoData, NEW a \in Nat,
         NEW u \in UndoSet, NEW t, Increased(w, p, a, u, t)
  PROVE  Undone(t, Append(us, u), s)
  <1>1. /\ us \in Seq(UndoSet) /\ w \in PosStates /\ (\A j \in DataKeys : w.data[j] = s.data[j]) /\ s \in PosStates
        /\ p \in DataKeys /\ a \in Int
    BY PosKeys DEF Paid, Sound
  <1>2. PICK x : x = PoolData(w.data[p].pledge, w.data[p].rewards + a)
    OBVIOUS
  <1>3. PICK d : d = DataDelta(w.data[p], x)
    OBVIOUS
  <1>4. u = Undo("IncreaseStakerRewards", p, a, Invert(d)) /\ MovedData(w, p, x, d, {p}, a, t)
    BY <1>2, <1>3 DEF Increased
  <1>5. u.op = "IncreaseStakerRewards" /\ u.id = p /\ u.amount = a /\ u.data = Invert(d)
    BY <1>4 DEF Undo
  <1>6. /\ t \in PosStates /\ t.data[p] = x /\ (\A j \in DataKeys \ {p} : t.data[j] = w.data[j])
        /\ Adds(w, t, {p}, a)
    BY <1>4 DEF MovedData
  <1>7. w.data[p] = s.data[p]
    BY <1>1
  <1>8. x \in PosValues
    <2>1. s.data[p] \in [pledge : Nat \ {0}, rewards : Nat]
      BY DEF Sound, PoolOK
    <2>2. w.data[p].pledge \in Nat \ {0} /\ w.data[p].rewards + a \in Nat
      BY <1>7, <2>1
    <2> QED BY <1>2, <2>2, PoolDataIs
  <1>9. PICK l : l = Less(t, w, s)
    OBVIOUS
  <1>10. /\ l \in PosStates /\ l.data = t.data
         /\ \A j \in AmountKeys : /\ l.amounts[j] = t.amounts[j] - (w.amounts[j] - s.amounts[j])
                                  /\ w.amounts[j] \in Int /\ s.amounts[j] \in Int
    BY <1>1, <1>6, <1>9, LessIs
  <1>11. Undone(t, us, l)
    <2>1. \A k \in Delegations : t.data[k] = s.data[k]
      BY <1>1, <1>6, PosKeys
    <2> QED BY <1>6, <1>9, <2>1 DEF Paid
  <1>12. PICK n : n = Apply(s, ChangeOf(p, d, {p}, a))
    OBVIOUS
  <1>13. MovedData(s, p, x, d, {p}, a, n)
    <2>1. d = DataDelta(s.data[p], x)
      BY <1>3, <1>7
    <2> QED BY <1>1, <1>8, <1>12, <2>1, DataMove
  <1>14. /\ n \in PosStates /\ n.data[p] = x /\ (\A j \in DataKeys \ {p} : n.data[j] = s.data[j])
         /\ Adds(s, n, {p}, a) /\ Back(n, ChangeOf(p, Invert(d), {p}, -a), s)
    BY <1>13 DEF MovedData
  <1>15. n = l
    <2>1. \A j \in DataKeys : n.data[j] = l.data[j]
      BY <1>1, <1>6, <1>10, <1>14
    <2>2. ASSUME NEW j \in AmountKeys
          PROVE  n.amounts[j] = l.amounts[j]
      <3>1. n.amounts[j] = s.amounts[j] + (IF j \in {p} THEN a ELSE 0) /\ t.amounts[j] = w.amounts[j] + (IF j \in {p} THEN a ELSE 0)
        BY <1>6, <1>14 DEF Adds
      <3>2. l.amounts[j] = t.amounts[j] - (w.amounts[j] - s.amounts[j]) /\ w.amounts[j] \in Int /\ s.amounts[j] \in Int
        BY <1>10
      <3> QED BY <1>1, <3>1, <3>2
    <2> QED BY <1>10, <1>14, <2>1, <2>2, SameState DEF PosStates
  <1>16. UndoFrom(l, u, s)
    <2>1. UndoIs(l, u, ChangeOf(p, Invert(d), {p}, -a))
      BY <1>5 DEF UndoIs
    <2> QED BY <1>14, <1>15, <2>1 DEF UndoFrom, Back
  <1>17. PICK q : q = <<u>>
    OBVIOUS
  <1>18. Undone(l, q, s)
    BY <1>16, <1>17, UndoneOne
  <1>19. Undone(t, us \o q, s)
    BY <1>11, <1>18, UndoneBoth
  <1>20. Append(us, u) = us \o q
    BY <1>1, <1>17
  <1> QED BY <1>19, <1>20

\* What the staker gets.
LEMMA StakerRewardIs ==
  ASSUME NEW v, NEW st, Sound(st), Reads(v, st), NEW p \in Pools, st.data[p] # NoData, NEW total \in Nat
  PROVE  StakerReward(v, p, total) \in 0 .. total
  <1>1. /\ st.data[p] \in [pledge : Nat \ {0}, rewards : Nat]
        /\ st.amounts[p] = (st.data[p].pledge + st.data[p].rewards) + SharesIn(st, p)
    BY DEF Sound, PoolOK
  <1>2. SharesIn(st, p) \in Nat
    BY SharesNat
  <1>3. PICK own : own = st.data[p].pledge + st.data[p].rewards
    OBVIOUS
  <1>4. PICK balance : balance = st.amounts[p]
    OBVIOUS
  <1>5. own \in Nat /\ balance \in Nat /\ balance > 0 /\ own <= balance
    <2>1. st.data[p].pledge \in Nat \ {0} /\ st.data[p].rewards \in Nat
      BY <1>1
    <2> QED BY <1>1, <1>2, <1>3, <1>4, <2>1
  <1>6. StakerBalance(GetData(v, p)) = own /\ GetAmount(v, p) = balance
    BY <1>3, <1>4, Gets DEF StakerBalance
  <1>7. CostPerBlock \in Nat /\ Margin \in 0 .. 1000
    BY PosAssumption
  <1>8. CASE total - CostPerBlock < 0
    BY <1>8 DEF StakerReward
  <1>9. CASE ~(total - CostPerBlock < 0)
    <2>1. PICK part : part = IF Version = 0 THEN 0 ELSE ((total - CostPerBlock) * own) \div balance
      OBVIOUS
    <2>2. StakerReward(v, p, total) = StakerShare(total, CostPerBlock, part, Margin)
      BY <1>6, <1>9, <2>1 DEF StakerReward, StakerShare
    <2>3. CostPerBlock <= total
      BY <1>7, <1>9
    <2>4. IsPart(part, total, CostPerBlock, own, balance)
      BY <2>1 DEF IsPart, StakerPart
    <2>5. StakerShare(total, CostPerBlock, part, Margin) \in 0 .. total
      <3>1. TakesPart(total, CostPerBlock, Margin, own, balance, part)
        BY <1>5, <1>7, <2>3, <2>4 DEF TakesPart
      <3> QED BY <3>1, StakerTakes
    <2> QED BY <2>2, <2>5
  <1> QED BY <1>8, <1>9

\* What the delegations get.
RewardOf(v, p, given) ==
  [d \in Delegations |-> IF given > 0 /\ TotalShares(v, p) > 0 THEN DelegationReward(v, p, d, given) ELSE 0]

LEMMA RewardIs ==
  ASSUME NEW v, NEW st, Sound(st), Reads(v, st), NEW p \in Pools, NEW given \in Nat
  PROVE  /\ RewardOf(v, p, given) \in [Delegations -> Nat]
         /\ SumFunction(RewardOf(v, p, given)) \in Nat /\ SumFunction(RewardOf(v, p, given)) <= given
         /\ \A d \in Delegations : RewardOf(v, p, given)[d] > 0 => st.data[d] = p
  <1> DEFINE share == [d \in Delegations |-> st.amounts[<<p, d>>]]
             f == RewardOf(v, p, given)
             g == [d \in Delegations |-> (given * share[d]) \div SumFunction(share)]
  <1>1. \A d \in Delegations : GetAmount(v, <<p, d>>) = st.amounts[<<p, d>>]
    BY Gets
  <1>2. [d \in Delegations |-> GetAmount(v, <<p, d>>)] = share
    BY <1>1
  <1>3. TotalShares(v, p) = SumFunction(share)
    BY <1>2 DEF TotalShares
  <1>4. share \in [Delegations -> Nat] /\ IsFiniteSet(Delegations)
    BY SharesNat, PosKeys
  <1>5. SumFunction(share) \in Nat
    BY <1>4, SumNat
  <1>6. \A d \in Delegations : share[d] = st.amounts[<<p, d>>]
    OBVIOUS
  <1> HIDE DEF share
  <1>7. CASE given > 0 /\ SumFunction(share) > 0
    <2>1. ASSUME NEW d \in Delegations
          PROVE  (IF given > 0 /\ TotalShares(v, p) > 0 THEN DelegationReward(v, p, d, given) ELSE 0)
                 = (given * share[d]) \div SumFunction(share)
      <3>1. DelegationReward(v, p, d, given) = (given * share[d]) \div SumFunction(share)
        BY <1>1, <1>3, <1>6 DEF DelegationReward
      <3> QED BY <1>3, <1>7, <3>1
    <2>2. f = g
      BY <2>1 DEF RewardOf
    <2>3. g \in [Delegations -> Nat] /\ SumFunction(g) \in Nat /\ SumFunction(g) <= given
      BY <1>4, <1>7, SharesGetAtMostAll
    <2>4. ASSUME NEW d \in Delegations, g[d] > 0
          PROVE  st.data[d] = p
      <3>1. SUFFICES ASSUME st.data[d] # p PROVE FALSE
        OBVIOUS
      <3>2. share[d] = 0
        BY <1>6, <3>1 DEF Sound, DelegationOK
      <3>3. given * share[d] = 0
        BY <3>2
      <3>4. 0 \div SumFunction(share) = 0
        BY <1>5, <1>7
      <3>5. g[d] = (given * share[d]) \div SumFunction(share)
        OBVIOUS
      <3> QED BY <2>4, <3>3, <3>4, <3>5
    <2> HIDE DEF f, g
    <2>5. /\ f \in [Delegations -> Nat] /\ SumFunction(f) \in Nat /\ SumFunction(f) <= given
          /\ \A d \in Delegations : f[d] > 0 => st.data[d] = p
      BY <2>2, <2>3, <2>4
    <2> QED BY <2>5 DEF f
  <1>8. CASE ~(given > 0 /\ SumFunction(share) > 0)
    <2>1. DOMAIN f = Delegations /\ \A d \in Delegations : f[d] = 0
      BY <1>3, <1>8 DEF RewardOf
    <2>2. f \in [Delegations -> Nat]
      <3>1. f = [d \in Delegations |-> f[d]]
        BY DEF RewardOf
      <3> HIDE DEF f
      <3> QED BY <2>1, <3>1
    <2> HIDE DEF f
    <2>3. SumFunction(f) = 0
      BY <1>4, <2>1, SumOfZeros
    <2>4. /\ f \in [Delegations -> Nat] /\ SumFunction(f) \in Nat /\ SumFunction(f) <= given
          /\ \A d \in Delegations : f[d] > 0 => st.data[d] = p
      BY <2>1, <2>2, <2>3
    <2> QED BY <2>4 DEF f
  <1> QED BY <1>7, <1>8

\* Who owns more gets no less.
LEMMA RewardFair ==
  ASSUME NEW v, NEW st, Sound(st), Reads(v, st), NEW p \in Pools, NEW given \in Nat,
         NEW d \in Delegations, NEW e \in Delegations, st.data[d] = p, st.data[e] = p,
         st.amounts[d] <= st.amounts[e]
  PROVE  RewardOf(v, p, given)[d] <= RewardOf(v, p, given)[e]
  <1>1. PICK c : c = TotalShares(v, p)
    OBVIOUS
  <1>2. c \in Nat
    <2>1. [x \in Delegations |-> GetAmount(v, <<p, x>>)] = [x \in Delegations |-> st.amounts[<<p, x>>]]
      BY Gets
    <2>2. c = SharesIn(st, p)
      BY <1>1, <2>1 DEF TotalShares, SharesIn
    <2> QED BY <2>2, SharesNat
  <1>3. GetAmount(v, <<p, d>>) = st.amounts[d] /\ GetAmount(v, <<p, e>>) = st.amounts[e]
    <2>1. st.amounts[<<p, d>>] = st.amounts[d] /\ st.amounts[<<p, e>>] = st.amounts[e]
      BY DEF Sound, DelegationOK
    <2> QED BY <2>1, Gets
  <1>4. st.amounts[d] \in Nat /\ st.amounts[e] \in Nat
    <2>1. st.amounts[d] \in Int /\ st.amounts[e] \in Int
      BY PosKeys DEF Sound, PosStates, StateSet
    <2> QED BY <2>1, PosKeys DEF Sound
  <1>5. CASE given > 0 /\ c > 0
    <2>1. /\ RewardOf(v, p, given)[d] = (given * st.amounts[d]) \div c
          /\ RewardOf(v, p, given)[e] = (given * st.amounts[e]) \div c
      BY <1>1, <1>3, <1>5 DEF RewardOf, DelegationReward
    <2> QED BY <1>2, <1>4, <1>5, <2>1, LargerPart
  <1>6. CASE ~(given > 0 /\ c > 0)
    <2>1. RewardOf(v, p, given)[d] = 0 /\ RewardOf(v, p, given)[e] = 0
      BY <1>1, <1>6 DEF RewardOf
    <2> QED BY <2>1
  <1> QED BY <1>5, <1>6

\* A set as a sequence, which has each element once.
LEMMA SetToSeqIs ==
  ASSUME NEW S, IsFiniteSet(S)
  PROVE  /\ SetToSeq(S) \in Seq(S)
         /\ \A i, j \in DOMAIN SetToSeq(S) : SetToSeq(S)[i] = SetToSeq(S)[j] => i = j
         /\ \A x \in S : \E i \in DOMAIN SetToSeq(S) : SetToSeq(S)[i] = x
  <1> DEFINE n == Cardinality(S)
             q == SetToSeq(S)
  <1>1. n \in Nat /\ ExistsBijection(1 .. n, S)
    BY FS_CardinalityType
  <1>2. \E f \in [1 .. n -> S] : IsInjective(f)
    BY <1>1 DEF ExistsBijection, Bijection, Injection
  <1>3. q \in [1 .. n -> S] /\ IsInjective(q)
    BY <1>2 DEF SetToSeq
  <1>4. Cardinality(1 .. n) = n
    <2>1. n \in Nat
      BY <1>1
    <2> HIDE DEF n
    <2>2. Cardinality(1 .. n) = IF 1 > n THEN 0 ELSE n - 1 + 1
      BY <2>1, FS_Interval
    <2> QED BY <2>1, <2>2
  <1>5. q \in Surjection(1 .. n, S)
    <2>1. q \in Injection(1 .. n, S)
      BY <1>3 DEF Injection
    <2> HIDE DEF q
    <2> QED BY <1>4, <2>1, FS_Injection
  <1> HIDE DEF q, n
  <1>6. q \in Seq(S)
    BY <1>1, <1>3
  <1>7. \A i, j \in DOMAIN q : q[i] = q[j] => i = j
    BY <1>3 DEF IsInjective
  <1>8. \A x \in S : \E i \in DOMAIN q : q[i] = x
    BY <1>3, <1>5 DEF Surjection
  <1> QED BY <1>6, <1>7, <1>8 DEF q

\* Payments to delegations of a pool, one after the other.
Payments(st, p) == {x \in [to : Delegations, amount : Nat] : st.data[x.to] = p}

\* No delegation is paid twice.
Once(q) == \A i, j \in DOMAIN q : q[i].to = q[j].to => i = j

\* From st to new delegations got the first n payments of q.
Gained(st, q, n, new) ==
  \A d \in Delegations :
    /\ (\A j \in 1 .. n : q[j].to # d) => new.amounts[d] = st.amounts[d]
    /\ \A j \in 1 .. n : q[j].to = d => new.amounts[d] = st.amounts[d] + q[j].amount

\* One more delegation is paid.
LEMMA GainedMore ==
  ASSUME NEW st, NEW p \in Pools, NEW q \in Seq(Payments(st, p)), Once(q), NEW m \in 1 .. Len(q),
         NEW s, Gained(st, q, m - 1, s), NEW new, NEW x, Sets(s, new, q[m].to, x, q[m].amount),
         \A d \in Delegations : s.amounts[d] \in Int
  PROVE  Gained(st, q, m, new)
  <1>1. DOMAIN q = 1 .. Len(q) /\ m \in Nat /\ Len(q) \in Nat
    OBVIOUS
  <1>2. PICK k, a : k = q[m].to /\ a = q[m].amount
    OBVIOUS
  <1>3. \A d \in Delegations : new.amounts[d] = s.amounts[d] + (IF d = k THEN a ELSE 0)
    BY <1>2 DEF Sets
  <1>4. \A j \in 1 .. (m - 1) : j \in 1 .. m /\ q[j].to # k
    BY <1>1, <1>2 DEF Once
  <1>5. \A j \in 1 .. m : j = m \/ j \in 1 .. (m - 1)
    BY <1>1
  <1> SUFFICES ASSUME NEW d \in Delegations
               PROVE  /\ (\A j \in 1 .. m : q[j].to # d) => new.amounts[d] = st.amounts[d]
                      /\ \A j \in 1 .. m : q[j].to = d => new.amounts[d] = st.amounts[d] + q[j].amount
    BY DEF Gained
  <1>6. /\ (\A j \in 1 .. (m - 1) : q[j].to # d) => s.amounts[d] = st.amounts[d]
        /\ \A j \in 1 .. (m - 1) : q[j].to = d => s.amounts[d] = st.amounts[d] + q[j].amount
    BY DEF Gained
  <1>7. CASE d = k
    <2>1. s.amounts[d] = st.amounts[d] /\ new.amounts[d] = s.amounts[d] + a
      BY <1>3, <1>4, <1>6, <1>7
    <2>2. \A j \in 1 .. m : q[j].to = d => j = m
      BY <1>4, <1>5, <1>7
    <2>3. m \in 1 .. m
      BY <1>1
    <2> QED BY <1>2, <1>7, <2>1, <2>2, <2>3
  <1>8. CASE d # k
    <2>1. new.amounts[d] = s.amounts[d]
      BY <1>3, <1>8
    <2>2. \A j \in 1 .. m : q[j].to = d => j \in 1 .. (m - 1)
      BY <1>2, <1>5, <1>8
    <2> QED BY <1>4, <1>6, <2>1, <2>2
  <1> QED BY <1>7, <1>8

LEMMA AllPaid ==
  ASSUME db \in PosStates, NEW v, NEW st, Sound(st), Reads(v, st), v.undos = <<>>, NEW p \in Pools,
         NEW q \in Seq(Payments(st, p)), Once(q), NEW w, w = FoldLeft(Pay, v, q)
  PROVE  \E new : Reads(w, new) /\ Sound(new) /\ Paid(st, w.undos, new) /\ Gained(st, q, Len(q), new)
  <1>1. PICK n : n = Len(q)
    OBVIOUS
  <1>2. n \in Nat /\ DOMAIN q = 1 .. n /\ st \in PosStates /\ p # NoData
    BY <1>1, PosKeys DEF Sound
  <1>3. PICK h : OneByOne("pay", v, q, n, h) /\ FoldLeft(Pay, v, q) = h[n]
    BY <1>2, PayOneByOne
  <1>4. h[0] = v /\ \A i \in 1 .. n : h[i] = Pay(h[i - 1], q[i])
    BY <1>3 DEF OneByOne, Folded
  <1> DEFINE Ok(i) == \E new : Reads(h[i], new) /\ Sound(new) /\ Paid(st, h[i].undos, new) /\ Gained(st, q, i, new)
             T == {i \in Nat : i <= n /\ ~Ok(i)}
  <1>5. T = {}
    <2> SUFFICES ASSUME T # {} PROVE FALSE
      OBVIOUS
    <2>1. PICK m \in T : \A i \in T : m <= i
      <3>1. T \subseteq Nat
        OBVIOUS
      <3> HIDE DEF T
      <3> QED BY <3>1, LeastNumber
    <2>2. m \in Nat /\ m <= n /\ ~Ok(m)
      BY <2>1
    <2>3. CASE m = 0
      <3>1. Reads(h[0], st) /\ Sound(st) /\ Paid(st, h[0].undos, st) /\ Gained(st, q, 0, st)
        BY <1>2, <1>4, PaidNone DEF Gained
      <3> QED BY <2>2, <2>3, <3>1
    <2>4. CASE m # 0
      <3>1. m - 1 \in Nat /\ m - 1 <= n /\ ~(m <= m - 1) /\ m \in 1 .. n
        BY <1>2, <2>2, <2>4
      <3>2. Ok(m - 1)
        BY <2>1, <3>1
      <3>3. PICK g : g = h[m - 1]
        OBVIOUS
      <3>4. PICK s : Reads(g, s) /\ Sound(s) /\ Paid(st, g.undos, s) /\ Gained(st, q, m - 1, s)
        BY <3>2, <3>3
      <3>5. PICK k, a : k = q[m].to /\ a = q[m].amount
        OBVIOUS
      <3>6. q[m] \in Payments(st, p)
        BY <1>1, <3>1
      <3>7. k \in Delegations /\ a \in Nat /\ st.data[k] = p /\ k \in DataKeys
        BY <3>5, <3>6, PosKeys DEF Payments
      <3>8. h[m] = DelegateStaking(g, k, a)
        BY <1>4, <3>1, <3>3, <3>5 DEF Pay
      <3>9. s.data[k] = p /\ s.data[k] # NoData
        BY <1>2, <3>4, <3>7 DEF Paid
      <3>10. PICK new, u : /\ Done(g.undos, s, DelegateStaking(g, k, a), u, new)
                           /\ u = Undo("DelegateStaking", k, a, NoData)
                           /\ MovedAmounts(s, {k, s.data[k], <<s.data[k], k>>}, a, new)
                           /\ Sets(s, new, k, s.data[k], a)
        BY <3>4, <3>7, <3>9, DoDelegateStaking
      <3>11. Reads(h[m], new) /\ Sound(new) /\ h[m].undos = Append(g.undos, u)
        BY <3>8, <3>10 DEF Done
      <3>12. PICK K : K = {k, p, <<p, k>>}
        OBVIOUS
      <3>13. MovedAmounts(s, K, a, new)
        BY <3>9, <3>10, <3>12
      <3>14. Paid(st, Append(g.undos, u), new)
        BY <1>2, <3>4, <3>7, <3>9, <3>10, <3>12, <3>13, PaidMore
      <3>15. \A d \in Delegations : s.amounts[d] \in Int
        BY <3>4, PosKeys DEF Sound, PosStates, StateSet
      <3>16. Gained(st, q, m, new)
        BY <1>1, <3>1, <3>4, <3>5, <3>10, <3>15, GainedMore
      <3> QED BY <2>2, <3>11, <3>14, <3>16
    <2> QED BY <2>3, <2>4
  <1>6. Ok(n)
    BY <1>2, <1>5
  <1> QED BY <1>1, <1>3, <1>6

\* What the reward of a block does: f is what the delegations of the pool get, the staker gets the
\* rest of it.
Rewarded(st, p, total, f, t) ==
  /\ f \in [Delegations -> 0 .. total] /\ SumFunction(f) \in Nat /\ SumFunction(f) <= total
  /\ \A d \in Delegations : st.data[d] # p => f[d] = 0
  /\ \A d, e \in Delegations :
       st.data[d] = p /\ st.data[e] = p /\ st.amounts[d] <= st.amounts[e] => f[d] <= f[e]
  /\ t.data[p] = PoolData(st.data[p].pledge, st.data[p].rewards + (total - SumFunction(f)))
  /\ \A j \in DataKeys \ {p} : t.data[j] = st.data[j]
  /\ \A d \in Delegations : t.amounts[d] = st.amounts[d] + f[d]

\* The reward of a block is distributed, and can be undone in its own order.
LEMMA RewardDone ==
  ASSUME db \in PosStates, NEW v, NEW st, Sound(st), Reads(v, st), NEW p \in Pools, st.data[p] # NoData,
         NEW total \in Nat, NEW w, w = DistributePosReward(v, p, total)
  PROVE  \E t : /\ Reads(w, t) /\ Sound(t)
                /\ w.undos \in Seq(UndoSet) /\ Undone(t, w.undos, st)
                /\ \E f : Rewarded(st, p, total, f, t)
  <1>1. PICK r : r = StakerReward(v, p, total)
    OBVIOUS
  <1>2. PICK given : given = total - r
    OBVIOUS
  <1>3. r \in Nat /\ given \in Nat /\ st \in PosStates /\ p \in DataKeys
    <2>1. r \in 0 .. total
      BY <1>1, StakerRewardIs
    <2> QED BY <1>2, <2>1, PosKeys DEF Sound
  <1>4. PICK f : f = RewardOf(v, p, given)
    OBVIOUS
  <1>5. /\ f \in [Delegations -> Nat] /\ SumFunction(f) \in Nat /\ SumFunction(f) <= given
        /\ \A d \in Delegations : f[d] > 0 => st.data[d] = p
    BY <1>3, <1>4, RewardIs
  <1>6. PICK P : P = {[to |-> d, amount |-> f[d]] : d \in {x \in Delegations : f[x] > 0}}
    OBVIOUS
  <1>7. PICK q : q = SetToSeq(P)
    OBVIOUS
  <1>8. PICK v0 : v0 = [v EXCEPT !.undos = <<>>]
    OBVIOUS
  <1>9. PICK g : g = FoldLeft(Pay, v0, q)
    OBVIOUS
  <1>10. PICK a : a = r + Remainder(given, SumFunction(f))
    OBVIOUS
  <1>11. w = IncreaseStakerRewards(g, p, a)
    BY <1>1, <1>2, <1>4, <1>6, <1>7, <1>8, <1>9, <1>10 DEF DistributePosReward, RewardOf
  <1>12. a \in Nat
    BY <1>3, <1>5, <1>10 DEF Remainder
  <1>13. /\ q \in Seq(Payments(st, p)) /\ q \in Seq(P) /\ Once(q)
         /\ \A x \in P : \E i \in 1 .. Len(q) : q[i] = x
    <2> DEFINE S == {x \in Delegations : f[x] > 0}
    <2>1. IsFiniteSet(S)
      BY FS_Subset, PosKeys
    <2>2. IsFiniteSet(P)
      <3> DEFINE pay == [d \in S |-> [to |-> d, amount |-> f[d]]]
      <3>1. P = {pay[d] : d \in S}
        BY <1>6
      <3>2. pay \in Surjection(S, P)
        BY <3>1 DEF Surjection
      <3> HIDE DEF S, pay
      <3> QED BY <2>1, <3>2, FS_Surjection
    <2>3. /\ q \in Seq(P) /\ \A i, j \in DOMAIN q : q[i] = q[j] => i = j
          /\ \A x \in P : \E i \in DOMAIN q : q[i] = x
      BY <1>7, <2>2, SetToSeqIs
    <2>4. P \subseteq Payments(st, p)
      BY <1>5, <1>6 DEF Payments
    <2>5. \A x, y \in P : x.to = y.to => x = y
      BY <1>6
    <2>6. DOMAIN q = 1 .. Len(q) /\ \A i \in DOMAIN q : q[i] \in P
      BY <2>3
    <2>7. Once(q)
      BY <2>3, <2>5, <2>6 DEF Once
    <2> QED BY <2>3, <2>4, <2>6, <2>7
  <1>14. Reads(v0, st) /\ v0.undos = <<>>
    <2>1. PICK x, y : v = [delta |-> x, undos |-> y, failed |-> FALSE]
      BY DEF Reads
    <2>2. v0 = [delta |-> v.delta, undos |-> <<>>, failed |-> FALSE]
      BY <1>8, <2>1
    <2>3. v0.delta = v.delta /\ v0.undos = <<>> /\ View(v0) = View(v)
      BY <2>2 DEF View
    <2> QED BY <2>2, <2>3 DEF Reads
  <1>15. PICK s : Reads(g, s) /\ Sound(s) /\ Paid(st, g.undos, s) /\ Gained(st, q, Len(q), s)
    BY <1>9, <1>13, <1>14, AllPaid
  <1>16. s.data[p] # NoData /\ \A j \in DataKeys : s.data[j] = st.data[j]
    BY <1>3, <1>15 DEF Paid
  <1>17. PICK u, t : Done(g.undos, s, IncreaseStakerRewards(g, p, a), u, t) /\ Increased(s, p, a, u, t)
    BY <1>12, <1>15, <1>16, DoIncreaseStakerRewards
  <1>18. Reads(w, t) /\ Sound(t) /\ u \in UndoSet /\ w.undos = Append(g.undos, u)
    BY <1>11, <1>17 DEF Done
  <1>19. Undone(t, w.undos, st)
    BY <1>12, <1>15, <1>17, <1>18, PaidAndIncreased
  <1>20. w.undos \in Seq(UndoSet)
    BY <1>19 DEF Undone
  <1>21. /\ \A j \in DataKeys \ {p} : t.data[j] = st.data[j]
         /\ t.data[p] = PoolData(st.data[p].pledge, st.data[p].rewards + a)
         /\ Adds(s, t, {p}, a)
    BY <1>3, <1>16, <1>17 DEF Increased, MovedData
  <1>22. a = total - SumFunction(f) /\ SumFunction(f) <= total
    BY <1>2, <1>3, <1>5, <1>10 DEF Remainder
  <1>23. ASSUME NEW d \in Delegations PROVE t.amounts[d] = st.amounts[d] + f[d]
    <2>1. t.amounts[d] = s.amounts[d]
      <3>1. s \in PosStates /\ d \in AmountKeys /\ d \notin {p} /\ a \in Int
        <4>1. s \in PosStates
          BY <1>15 DEF Sound
        <4>2. d \in AmountKeys /\ p # d
          BY PosKeys
        <4>3. a \in Int
          BY <1>12
        <4> QED BY <4>1, <4>2, <4>3
      <3> QED BY <1>21, <3>1, AddsIs
    <2>2. st.amounts[d] \in Int
      BY <1>3, PosKeys DEF PosStates, StateSet
    <2>3. CASE f[d] > 0
      <3>1. [to |-> d, amount |-> f[d]] \in P
        BY <1>6, <2>3
      <3>2. PICK i \in 1 .. Len(q) : q[i] = [to |-> d, amount |-> f[d]]
        BY <1>13, <3>1
      <3>3. q[i].to = d /\ q[i].amount = f[d]
        BY <3>2
      <3> QED BY <1>15, <2>1, <3>3 DEF Gained
    <2>4. CASE ~(f[d] > 0)
      <3>1. f[d] = 0
        BY <1>5, <2>4
      <3>2. \A i \in 1 .. Len(q) : q[i] \in P
        BY <1>13
      <3>3. \A x \in P : x.to # d
        BY <1>6, <2>4
      <3>4. s.amounts[d] = st.amounts[d]
        BY <1>15, <3>2, <3>3 DEF Gained
      <3> QED BY <2>1, <2>2, <3>1, <3>4
    <2> QED BY <2>3, <2>4
  <1>24. Rewarded(st, p, total, f, t)
    <2>1. ASSUME NEW d \in Delegations PROVE f[d] \in 0 .. total
      <3>1. f[d] <= SumFunction(f) /\ f[d] \in Nat
        BY <1>5, OnePart, PosKeys
      <3> QED BY <1>5, <1>22, <3>1
    <2>2. f \in [Delegations -> 0 .. total]
      BY <1>5, <2>1
    <2>3. \A d \in Delegations : st.data[d] # p => f[d] = 0
      BY <1>5
    <2>4. \A d, e \in Delegations :
            st.data[d] = p /\ st.data[e] = p /\ st.amounts[d] <= st.amounts[e] => f[d] <= f[e]
      BY <1>3, <1>4, RewardFair
    <2> QED BY <1>5, <1>21, <1>22, <1>23, <2>2, <2>3, <2>4 DEF Rewarded
  <1> QED BY <1>18, <1>19, <1>20, <1>24
----------------------------------------------------------------------------
(* Ids that were made on the chain. *)

\* The ids made in the first n blocks of the chain c.
MadeIn(c, n) == {q \in Pools : \E j \in 1 .. n : q \in Made(c[j].txs)}

\* The pools that exist in st, and those that its delegations delegate to, are in M.
InMade(st, M) ==
  \A q \in Pools : (st.data[q] # NoData \/ \E d \in Delegations : st.data[d] = q) => q \in M

LEMMA MadeMore ==
  ASSUME NEW us \in Seq(UndoSet), NEW u \in UndoSet
  PROVE  /\ Made(us) \subseteq Made(Append(us, u))
         /\ u.op = "CreatePool" => u.id \in Made(Append(us, u))
  <1>1. PICK n : n = Len(us)
    OBVIOUS
  <1>2. PICK q : q = Append(us, u)
    OBVIOUS
  <1>3. n \in Nat /\ DOMAIN us = 1 .. n /\ DOMAIN q = 1 .. (n + 1) /\ q[n + 1] = u /\ \A i \in 1 .. n : q[i] = us[i]
    BY <1>1, <1>2
  <1>4. Made(us) \subseteq Made(q)
    BY <1>3 DEF Made
  <1>5. ASSUME u.op = "CreatePool" PROVE u.id \in Made(q)
    <2>1. n + 1 \in DOMAIN q
      BY <1>3
    <2> QED BY <1>3, <1>5, <2>1 DEF Made
  <1> QED BY <1>2, <1>4, <1>5

\* An operation makes the ids that are in its undo.
LEMMA InMadeGrows ==
  ASSUME NEW st, NEW M, InMade(st, M), NEW u, NEW new, Grows(st, u, new), NEW N, M \subseteq N,
         u.op = "CreatePool" => u.id \in N
  PROVE  InMade(new, N)
  <1> SUFFICES ASSUME NEW q \in Pools, new.data[q] # NoData \/ \E d \in Delegations : new.data[d] = q
               PROVE  q \in N
    BY DEF InMade
  <1>1. CASE new.data[q] # NoData
    BY <1>1 DEF Grows, InMade
  <1>2. ASSUME NEW d \in Delegations, new.data[d] = q PROVE q \in N
    <2>1. q # NoData
      BY PosKeys
    <2>2. q = st.data[d] \/ st.data[q] # NoData
      BY <1>2, <2>1 DEF Grows
    <2> QED BY <2>2 DEF InMade
  <1> QED BY <1>1, <1>2

\* A pool with a fresh id has no delegations.
LEMMA FreshPool ==
  ASSUME NEW st, Sound(st), NEW M, InMade(st, M), NEW p \in Pools, p \notin M
  PROVE  SharesIn(st, p) = 0
  <1>1. ASSUME NEW d \in Delegations PROVE st.amounts[<<p, d>>] = 0
    <2>1. st.data[d] # p
      BY DEF InMade
    <2> QED BY <2>1 DEF Sound, DelegationOK
  <1>2. PICK f : f = [d \in Delegations |-> st.amounts[<<p, d>>]]
    OBVIOUS
  <1>3. DOMAIN f = Delegations /\ IsFiniteSet(Delegations) /\ \A d \in Delegations : f[d] = 0
    BY <1>1, <1>2, PosKeys
  <1>4. SumFunction(f) = 0
    BY <1>3, SumOfZeros
  <1> QED BY <1>2, <1>4 DEF SharesIn
----------------------------------------------------------------------------
(* The inductive invariant of the accounting. *)

\* The database after block i.
AfterBlock(i) == IF i = Len(chain) THEN db ELSE saved[i + 1]

\* The databases before the blocks are sound, and each block leads back to the one before it.
BlocksBack ==
  /\ chain \in Seq(BlockSet) /\ saved \in Seq(PosStates) /\ Len(saved) = Len(chain)
  /\ \A i \in 1 .. Len(chain) :
       /\ Sound(saved[i]) /\ InMade(saved[i], MadeIn(chain, i - 1))
       /\ Undone(AfterBlock(i), UndosOf(chain[i]), saved[i])

\* Every state is sound, every delta fits, and the undos lead from each state to the one before.
PosInv ==
  /\ Sound(db) /\ Sound(View(verifier))
  /\ verifier \in VerifierSet
  /\ Reads(verifier, View(verifier))
  /\ Undone(View(verifier), Reverse(verifier.undos), db)
  /\ InMade(db, MadeIn(chain, Len(chain)))
  /\ InMade(View(verifier), MadeIn(chain, Len(chain)) \cup Made(verifier.undos))
  /\ BlocksBack

\* An operation keeps the invariant.
LEMMA PosOperated ==
  ASSUME PosInv, NEW w, NEW st, st = View(verifier), NEW u, NEW new,
         Done(verifier.undos, st, w, u, new), Operate(w)
  PROVE  PosInv'
  <1>1. /\ verifier' = w /\ db' = db /\ chain' = chain /\ saved' = saved
    BY DEF Operate
  <1>2. /\ Reads(w, new) /\ Sound(new) /\ u \in UndoSet /\ w.undos = Append(verifier.undos, u)
        /\ UndoFrom(new, u, st) /\ Grows(st, u, new)
    BY DEF Done
  <1>3. verifier.undos \in Seq(UndoSet)
    BY DEF PosInv, VerifierSet
  <1>4. Append(verifier.undos, u) \in Seq(UndoSet)
    BY <1>2, <1>3
  <1>5. w \in VerifierSet
    <2>1. w = [delta |-> w.delta, undos |-> w.undos, failed |-> FALSE] /\ w.delta \in PosDeltas
      BY <1>2 DEF Reads
    <2>2. PICK x, y : x = w.delta /\ y = w.undos
      OBVIOUS
    <2>3. w = [delta |-> x, undos |-> y, failed |-> FALSE]
      BY <2>1, <2>2
    <2>4. x \in PosDeltas /\ y \in Seq(UndoSet)
      BY <1>2, <1>4, <2>1, <2>2
    <2> QED BY <2>3, <2>4 DEF VerifierSet
  <1>6. View(w) = new
    BY <1>2 DEF Reads
  <1>7. View(verifier)' = new
    BY <1>1, <1>6 DEF View
  <1>8. Reads(verifier, View(verifier))'
    BY <1>1, <1>2, <1>7 DEF Reads
  <1>9. Undone(new, Reverse(Append(verifier.undos, u)), db)
    BY <1>2, <1>3, UndoneMore DEF PosInv
  <1>10. PICK m : m = MadeIn(chain, Len(chain))
    OBVIOUS
  <1>11. InMade(new, m \cup Made(w.undos))
    <2>1. Made(verifier.undos) \subseteq Made(w.undos) /\ (u.op = "CreatePool" => u.id \in Made(w.undos))
      BY <1>2, <1>3, MadeMore
    <2>2. InMade(st, m \cup Made(verifier.undos))
      BY <1>10 DEF PosInv
    <2>3. m \cup Made(verifier.undos) \subseteq m \cup Made(w.undos)
          /\ (u.op = "CreatePool" => u.id \in m \cup Made(w.undos))
      BY <2>1
    <2> QED BY <1>2, <2>2, <2>3, InMadeGrows
  <1>12. BlocksBack'
    BY <1>1 DEF PosInv, BlocksBack, AfterBlock
  <1>13. Undone(View(verifier), Reverse(verifier.undos), db)'
    BY <1>1, <1>2, <1>7, <1>9
  <1>14. InMade(db, MadeIn(chain, Len(chain)))'
    BY <1>1 DEF PosInv
  <1>15. InMade(View(verifier), MadeIn(chain, Len(chain)) \cup Made(verifier.undos))'
    BY <1>1, <1>7, <1>10, <1>11
  <1>16. Sound(db)' /\ Sound(View(verifier))' /\ (verifier \in VerifierSet)'
    BY <1>1, <1>2, <1>5, <1>7 DEF PosInv
  <1> QED BY <1>8, <1>12, <1>13, <1>14, <1>15, <1>16 DEF PosInv

\* What the invariant says to a step that starts with the state the verifier reads.
LEMMA PosStart ==
  ASSUME PosInv, NEW st, st = View(verifier)
  PROVE  /\ db \in PosStates /\ Sound(st) /\ Reads(verifier, st)
         /\ \A k : /\ (Exists(verifier, k) <=> st.data[k] # NoData) /\ GetAmount(verifier, k) = st.amounts[k]
                   /\ PoolOf(verifier, k) = st.data[k]
  <1>1. Sound(db) /\ Sound(st) /\ Reads(verifier, st)
    BY DEF PosInv
  <1>2. db \in PosStates
    BY <1>1 DEF Sound
  <1> QED BY <1>1, <1>2, Gets

\* A pool with a fresh id has no shares yet.
LEMMA FreshHasNoShares ==
  ASSUME PosInv, NEW st, st = View(verifier), NEW p \in Pools, Fresh(p)
  PROVE  SharesIn(st, p) = 0
  <1>1. PICK m : m = MadeIn(chain, Len(chain)) \cup Made(verifier.undos)
    OBVIOUS
  <1>2. p \notin m
    <2>1. chain \in Seq(BlockSet)
      BY DEF PosInv, BlocksBack
    <2>2. DOMAIN chain = 1 .. Len(chain)
      BY <2>1
    <2> QED BY <1>1, <2>2 DEF Fresh, MadeIn
  <1>3. InMade(st, m) /\ Sound(st)
    BY <1>1 DEF PosInv
  <1> QED BY <1>2, <1>3, FreshPool

LEMMA TxCreatePoolStep ==
  ASSUME PosInv, NEW p \in Pools, NEW a \in Amounts, TxCreatePool(p, a)
  PROVE  PosInv'
  <1>1. PICK st : st = View(verifier)
    OBVIOUS
  <1>2. db \in PosStates /\ Sound(st) /\ Reads(verifier, st)
    BY <1>1, PosStart
  <1>3. st.data[p] = NoData /\ st.amounts[p] <= 0 /\ Operate(CreatePool(verifier, p, a)) /\ SharesIn(st, p) = 0
    BY <1>1, PosStart, FreshHasNoShares DEF TxCreatePool
  <1>4. a \in Nat \ {0}
    BY PosAssumption
  <1>5. PICK u, new : Done(verifier.undos, st, CreatePool(verifier, p, a), u, new)
    BY <1>2, <1>3, <1>4, DoCreatePool
  <1> QED BY <1>1, <1>3, <1>5, PosOperated

LEMMA TxDecommissionPoolStep ==
  ASSUME PosInv, NEW p \in Pools, TxDecommissionPool(p)
  PROVE  PosInv'
  <1>1. PICK st : st = View(verifier)
    OBVIOUS
  <1>2. db \in PosStates /\ Sound(st) /\ Reads(verifier, st)
    BY <1>1, PosStart
  <1>3. Operate(DecommissionPool(verifier, p))
    BY DEF TxDecommissionPool
  <1>4. PICK u, new : Done(verifier.undos, st, DecommissionPool(verifier, p), u, new)
    BY <1>2, DoDecommissionPool
  <1> QED BY <1>1, <1>3, <1>4, PosOperated

LEMMA TxCreateDelegationIdStep ==
  ASSUME PosInv, NEW p \in Pools, NEW d \in Delegations, TxCreateDelegationId(p, d)
  PROVE  PosInv'
  <1>1. PICK st : st = View(verifier)
    OBVIOUS
  <1>2. db \in PosStates /\ Sound(st) /\ Reads(verifier, st)
    BY <1>1, PosStart
  <1>3. st.data[p] # NoData /\ st.data[d] = NoData /\ Operate(CreateDelegationId(verifier, p, d))
    BY <1>1, PosStart DEF TxCreateDelegationId
  <1>4. PICK u, new : Done(verifier.undos, st, CreateDelegationId(verifier, p, d), u, new)
    BY <1>2, <1>3, DoCreateDelegationId
  <1> QED BY <1>1, <1>3, <1>4, PosOperated

LEMMA TxDeleteDelegationIdStep ==
  ASSUME PosInv, NEW d \in Delegations, TxDeleteDelegationId(d)
  PROVE  PosInv'
  <1>1. PICK st : st = View(verifier)
    OBVIOUS
  <1>2. db \in PosStates /\ Sound(st) /\ Reads(verifier, st)
    BY <1>1, PosStart
  <1>3. st.data[d] # NoData /\ st.amounts[d] <= 0 /\ Operate(DeleteDelegationId(verifier, d))
    BY <1>1, PosStart DEF TxDeleteDelegationId
  <1>4. PICK u, new : Done(verifier.undos, st, DeleteDelegationId(verifier, d), u, new)
    BY <1>2, <1>3, DoDeleteDelegationId
  <1> QED BY <1>1, <1>3, <1>4, PosOperated

LEMMA TxDelegateStakingStep ==
  ASSUME PosInv, NEW d \in Delegations, NEW a \in Amounts, TxDelegateStaking(d, a)
  PROVE  PosInv'
  <1>1. PICK st : st = View(verifier)
    OBVIOUS
  <1>2. db \in PosStates /\ Sound(st) /\ Reads(verifier, st)
    BY <1>1, PosStart
  <1>3. st.data[d] # NoData /\ Operate(DelegateStaking(verifier, d, a)) /\ a \in Nat
    BY <1>1, PosStart, PosAssumption DEF TxDelegateStaking
  <1>4. PICK new, u : Done(verifier.undos, st, DelegateStaking(verifier, d, a), u, new)
    BY <1>2, <1>3, DoDelegateStaking
  <1> QED BY <1>1, <1>3, <1>4, PosOperated

LEMMA TxSpendShareStep ==
  ASSUME PosInv, NEW d \in Delegations, NEW a \in Amounts, TxSpendShare(d, a)
  PROVE  PosInv'
  <1>1. PICK st : st = View(verifier)
    OBVIOUS
  <1>2. db \in PosStates /\ Sound(st) /\ Reads(verifier, st)
    BY <1>1, PosStart
  <1>3. /\ st.data[d] # NoData /\ GetAmount(SpendShare(verifier, d, a), d) >= 0
        /\ Operate(SpendShare(verifier, d, a)) /\ a \in Nat
    BY <1>1, PosStart, PosAssumption DEF TxSpendShare
  <1>4. PICK u, new : Done(verifier.undos, st, SpendShare(verifier, d, a), u, new)
    BY <1>2, <1>3, DoSpendShare
  <1> QED BY <1>1, <1>3, <1>4, PosOperated

\* What a verifier reads that can be flushed.
LEMMA ReadsApplies ==
  ASSUME db \in PosStates, NEW v, NEW st, Reads(v, st), Sound(st)
  PROVE  Applies(db, v.delta) /\ ~v.failed /\ Apply(db, v.delta) = st
  <1>1. v.delta \in PosDeltas /\ Matches(db, v.delta) /\ Apply(db, v.delta) = st
    BY DEF Reads, View
  <1>2. ~v.failed
    BY DEF Reads
  <1>3. ASSUME NEW k \in DOMAIN db.amounts
        PROVE  db.amounts[k] + v.delta.amounts[k] >= 0
    <2>1. k \in AmountKeys
      BY DEF PosStates, StateSet
    <2>2. st.amounts[k] = db.amounts[k] + v.delta.amounts[k]
      BY <1>1, <2>1, ApplyType DEF PosStates, PosDeltas
    <2> QED BY <2>1, <2>2 DEF Sound
  <1>4. Applies(db, v.delta)
    BY <1>1, <1>3 DEF Applies, Matches, DataMatches
  <1> QED BY <1>1, <1>2, <1>4

\* It becomes the database, and the verifier is a new one.
LEMMA Flushed ==
  ASSUME db \in PosStates, NEW v, NEW st, Reads(v, st), Sound(st), Flush(v)
  PROVE  db' = st /\ verifier' = NewVerifier
  <1>1. Applies(db, v.delta) /\ ~v.failed /\ Apply(db, v.delta) = st
    BY ReadsApplies
  <1>2. verifier' = [NewVerifier EXCEPT !.failed = FALSE]
    BY <1>1 DEF Flush
  <1>3. NewVerifier = [delta |-> NewVerifier.delta, undos |-> <<>>, failed |-> FALSE]
    BY NewChanges
  <1>4. verifier' = NewVerifier
    BY <1>2, <1>3
  <1> QED BY <1>1, <1>4 DEF Flush

\* No undos, no ids.
LEMMA NoUndos == Reverse(<<>>) = <<>> /\ Made(<<>>) = {}
  <1>1. Reverse(<<>>) = <<>>
    BY DEF Reverse
  <1>2. DOMAIN <<>> = {}
    OBVIOUS
  <1> QED BY <1>1, <1>2 DEF Made

\* With a new verifier the invariant is about the database and the blocks only.
LEMMA NewPosInv ==
  ASSUME NEW st, Sound(st), db' = st, verifier' = NewVerifier, BlocksBack',
         InMade(st, MadeIn(chain', Len(chain')))
  PROVE  PosInv' /\ View(verifier)' = st
  <1>1. st \in PosStates
    BY DEF Sound
  <1>2. /\ NewVerifier \in VerifierSet /\ NewVerifier.undos = <<>>
        /\ NewVerifier = [delta |-> NewVerifier.delta, undos |-> <<>>, failed |-> FALSE]
        /\ NewVerifier.delta \in PosDeltas
        /\ Matches(st, NewVerifier.delta) /\ Apply(st, NewVerifier.delta) = st
    BY <1>1, NewChanges
  <1>3. View(verifier)' = st
    BY <1>2 DEF View
  <1>4. Undone(st, Reverse(NewVerifier.undos), st)
    BY <1>2, NoUndos, UndoneNone
  <1>5. Reads(verifier, View(verifier))'
    BY <1>2, <1>3 DEF Reads
  <1>6. InMade(st, MadeIn(chain', Len(chain')) \cup Made(NewVerifier.undos))
    BY <1>2, NoUndos
  <1> QED BY <1>2, <1>3, <1>4, <1>5, <1>6 DEF PosInv

\* The ids of the same blocks are the same.
LEMMA MadeSame ==
  ASSUME NEW c, NEW e, NEW n \in Nat, \A j \in 1 .. n : e[j] = c[j]
  PROVE  MadeIn(e, n) = MadeIn(c, n)
  BY DEF MadeIn

\* A block is added whose undos lead back to the database.
LEMMA BlockAdded ==
  ASSUME PosInv, NEW st, Sound(st), NEW b \in BlockSet, Undone(st, UndosOf(b), db),
         InMade(st, MadeIn(chain, Len(chain)) \cup Made(b.txs)),
         db' = st, verifier' = NewVerifier, chain' = Append(chain, b), saved' = Append(saved, db)
  PROVE  PosInv'
  <1>1. PICK n : n = Len(chain)
    OBVIOUS
  <1>2. Sound(db) /\ BlocksBack /\ InMade(db, MadeIn(chain, n)) /\ db \in PosStates
    BY <1>1 DEF PosInv, Sound
  <1>3. chain \in Seq(BlockSet) /\ saved \in Seq(PosStates) /\ Len(saved) = n /\ n \in Nat
    BY <1>1, <1>2 DEF BlocksBack
  <1>4. /\ chain' \in Seq(BlockSet) /\ saved' \in Seq(PosStates)
        /\ Len(chain') = n + 1 /\ Len(saved') = n + 1
        /\ chain'[n + 1] = b /\ saved'[n + 1] = db
        /\ \A i \in 1 .. n : chain'[i] = chain[i] /\ saved'[i] = saved[i]
    BY <1>1, <1>2, <1>3
  <1>5. PICK c : c = chain'
    OBVIOUS
  <1>6. \A i \in 1 .. (n + 1) : MadeIn(c, i - 1) = MadeIn(chain, i - 1)
    <2> TAKE i \in 1 .. (n + 1)
    <2>1. i - 1 \in Nat /\ \A j \in 1 .. (i - 1) : j \in 1 .. n
      BY <1>3
    <2>2. \A j \in 1 .. (i - 1) : c[j] = chain[j]
      BY <1>4, <1>5, <2>1
    <2> QED BY <2>1, <2>2, MadeSame
  <1>7. ASSUME NEW i \in 1 .. (n + 1)
        PROVE  /\ Sound(saved'[i]) /\ InMade(saved'[i], MadeIn(c, i - 1))
               /\ Undone(AfterBlock(i)', UndosOf(c[i]), saved'[i])
    <2>1. CASE i = n + 1
      <3>1. AfterBlock(i)' = st
        BY <1>4, <2>1 DEF AfterBlock
      <3>2. i - 1 = n
        BY <1>3, <2>1
      <3> QED BY <1>2, <1>4, <1>5, <1>6, <2>1, <3>1, <3>2
    <2>2. CASE i # n + 1
      <3>1. i \in 1 .. n
        BY <1>3, <2>2
      <3>2. /\ Sound(saved[i]) /\ InMade(saved[i], MadeIn(chain, i - 1))
            /\ Undone(AfterBlock(i), UndosOf(chain[i]), saved[i])
        BY <1>1, <1>2, <3>1 DEF BlocksBack
      <3>3. AfterBlock(i)' = saved'[i + 1]
        BY <1>4, <2>2 DEF AfterBlock
      <3>4. AfterBlock(i) = saved'[i + 1]
        <4>1. CASE i = n
          BY <1>1, <1>4, <4>1 DEF AfterBlock
        <4>2. CASE i # n
          <5>1. i + 1 \in 1 .. n
            BY <1>3, <3>1, <4>2
          <5> QED BY <1>1, <1>4, <4>2, <5>1 DEF AfterBlock
        <4> QED BY <4>1, <4>2
      <3>5. saved'[i] = saved[i] /\ c[i] = chain[i]
        BY <1>4, <1>5, <3>1
      <3> QED BY <1>6, <3>2, <3>3, <3>4, <3>5
    <2> QED BY <2>1, <2>2
  <1>8. BlocksBack'
    <2>1. ASSUME NEW i \in 1 .. (n + 1)
          PROVE  UndosOf(chain'[i]) = UndosOf(c[i]) /\ MadeIn(chain', i - 1) = MadeIn(c, i - 1)
      BY <1>5
    <2>2. \A i \in 1 .. (n + 1) : /\ Sound(saved'[i]) /\ InMade(saved'[i], MadeIn(chain', i - 1))
                                  /\ Undone(AfterBlock(i)', UndosOf(chain'[i]), saved'[i])
      BY <1>7, <2>1
    <2> QED BY <1>4, <2>2 DEF BlocksBack, UndosOf
  <1>9. InMade(st, MadeIn(chain', Len(chain')))
    <2>1. (MadeIn(chain, n) \cup Made(b.txs)) \cap Pools \subseteq MadeIn(c, n + 1)
      <3>1. n + 1 \in 1 .. (n + 1) /\ \A j \in 1 .. n : j \in 1 .. (n + 1) /\ c[j] = chain[j]
        BY <1>3, <1>4, <1>5
      <3> QED BY <1>4, <1>5, <3>1 DEF MadeIn
    <2> QED BY <1>1, <1>4, <1>5, <2>1 DEF InMade
  <1> QED BY <1>8, <1>9, NewPosInv

\* A block that distributes no reward.
LEMMA PosConnectBlockStep ==
  ASSUME PosInv, ConnectBlock
  PROVE  PosInv'
  <1>1. PICK st : st = View(verifier)
    OBVIOUS
  <1>2. PICK us : us = verifier.undos
    OBVIOUS
  <1>3. db \in PosStates /\ Sound(st) /\ Reads(verifier, st)
    BY <1>1, PosStart
  <1>4. us \in Seq(UndoSet) /\ Undone(st, Reverse(us), db) /\ InMade(st, MadeIn(chain, Len(chain)) \cup Made(us))
    BY <1>1, <1>2 DEF PosInv, VerifierSet
  <1>5. PICK b : b = [txs |-> us, reward |-> <<>>]
    OBVIOUS
  <1>6. b \in BlockSet /\ b.txs = us /\ b.reward = <<>>
    BY <1>4, <1>5 DEF BlockSet
  <1>7. PICK r : r = Reverse(us)
    OBVIOUS
  <1>8. <<>> \o r = r
    <2>1. r \in Seq(UndoSet)
      BY <1>4, <1>7 DEF Undone
    <2> QED BY <2>1
  <1>9. Undone(st, UndosOf(b), db)
    BY <1>4, <1>6, <1>7, <1>8 DEF UndosOf
  <1>10. db' = st /\ verifier' = NewVerifier /\ chain' = Append(chain, b) /\ saved' = Append(saved, db)
    BY <1>2, <1>3, <1>5, Flushed DEF ConnectBlock
  <1> QED BY <1>3, <1>4, <1>6, <1>9, <1>10, BlockAdded

\* A block of a pool, whose reward is distributed.
LEMMA ConnectPosBlockStep ==
  ASSUME PosInv, NEW p \in Pools, NEW total \in Rewards, ConnectPosBlock(p, total)
  PROVE  PosInv'
  <1>1. PICK st : st = View(verifier)
    OBVIOUS
  <1>2. PICK us : us = verifier.undos
    OBVIOUS
  <1>3. PICK w : w = DistributePosReward(verifier, p, total)
    OBVIOUS
  <1>4. db \in PosStates /\ Sound(st) /\ Reads(verifier, st)
    BY <1>1, PosStart
  <1>5. us \in Seq(UndoSet) /\ Undone(st, Reverse(us), db) /\ InMade(st, MadeIn(chain, Len(chain)) \cup Made(us))
    BY <1>1, <1>2 DEF PosInv, VerifierSet
  <1>6. /\ st.data[p] # NoData /\ total \in Nat /\ Flush(w)
        /\ chain' = Append(chain, [txs |-> us, reward |-> w.undos]) /\ saved' = Append(saved, db)
    <2>1. /\ Exists(verifier, p) /\ Flush(w)
          /\ chain' = Append(chain, [txs |-> us, reward |-> w.undos]) /\ saved' = Append(saved, db)
      BY <1>2, <1>3 DEF ConnectPosBlock
    <2>2. st.data[p] # NoData
      BY <1>1, <2>1, PosStart
    <2> QED BY <2>1, <2>2, PosAssumption
  <1>7. PICK t : /\ Reads(w, t) /\ Sound(t)
                 /\ w.undos \in Seq(UndoSet) /\ Undone(t, w.undos, st)
                 /\ \E f : Rewarded(st, p, total, f, t)
    BY <1>3, <1>4, <1>6, RewardDone
  <1>8. PICK b : b = [txs |-> us, reward |-> w.undos]
    OBVIOUS
  <1>9. b \in BlockSet /\ b.txs = us /\ b.reward = w.undos
    BY <1>5, <1>7, <1>8 DEF BlockSet
  <1>10. Undone(t, UndosOf(b), db)
    BY <1>5, <1>7, <1>9, UndoneBoth DEF UndosOf
  <1>11. InMade(t, MadeIn(chain, Len(chain)) \cup Made(us))
    <2>1. \A j \in DataKeys \ {p} : t.data[j] = st.data[j]
      BY <1>7 DEF Rewarded
    <2>2. \A q \in Pools : t.data[q] # NoData => st.data[q] # NoData
      BY <1>6, <2>1, PosKeys
    <2>3. \A d \in Delegations : t.data[d] = st.data[d]
      BY <2>1, PosKeys
    <2> QED BY <1>5, <2>2, <2>3 DEF InMade
  <1>12. db' = t /\ verifier' = NewVerifier
    BY <1>4, <1>6, <1>7, Flushed
  <1> QED BY <1>6, <1>7, <1>8, <1>9, <1>10, <1>11, <1>12, BlockAdded

LEMMA PosAbandonBlockStep ==
  ASSUME PosInv, AbandonBlock
  PROVE  PosInv'
  <1>1. Sound(db) /\ BlocksBack /\ InMade(db, MadeIn(chain, Len(chain)))
    BY DEF PosInv
  <1>2. verifier' = NewVerifier /\ db' = db /\ chain' = chain /\ saved' = saved
    BY DEF AbandonBlock
  <1>3. BlocksBack'
    BY <1>1, <1>2 DEF BlocksBack, AfterBlock
  <1>4. PICK st : st = db
    OBVIOUS
  <1>5. InMade(st, MadeIn(chain', Len(chain')))
    BY <1>1, <1>2, <1>4
  <1> QED BY <1>1, <1>2, <1>3, <1>4, <1>5, NewPosInv

\* The last block, and the others.
LEMMA LastBlock ==
  ASSUME BlocksBack, chain # <<>>
  PROVE  LET n == Len(chain)
         IN  /\ n \in Nat /\ n >= 1
             /\ Last(chain) = chain[n] /\ Last(saved) = saved[n]
             /\ Sound(saved[n]) /\ InMade(saved[n], MadeIn(chain, n - 1))
             /\ Undone(db, UndosOf(chain[n]), saved[n])
             /\ Front(chain) \in Seq(BlockSet) /\ Front(saved) \in Seq(PosStates)
             /\ Len(Front(chain)) = n - 1 /\ Len(Front(saved)) = n - 1
             /\ \A i \in 1 .. (n - 1) : Front(chain)[i] = chain[i] /\ Front(saved)[i] = saved[i]
  <1> DEFINE n == Len(chain)
  <1>1. chain \in Seq(BlockSet) /\ saved \in Seq(PosStates) /\ Len(saved) = n
    BY DEF BlocksBack
  <1>2. n \in Nat /\ n >= 1
    BY <1>1
  <1>3. Last(chain) = chain[n] /\ Last(saved) = saved[n]
    BY <1>1 DEF Last
  <1>4. n \in 1 .. n
    BY <1>2
  <1>5. /\ Sound(saved[n]) /\ InMade(saved[n], MadeIn(chain, n - 1))
        /\ Undone(db, UndosOf(chain[n]), saved[n])
    BY <1>4 DEF BlocksBack, AfterBlock
  <1>6. /\ Front(chain) \in Seq(BlockSet) /\ Len(Front(chain)) = n - 1
        /\ \A i \in 1 .. (n - 1) : Front(chain)[i] = chain[i]
    BY <1>1, <1>2 DEF Front
  <1>7. /\ Front(saved) \in Seq(PosStates) /\ Len(Front(saved)) = n - 1
        /\ \A i \in 1 .. (n - 1) : Front(saved)[i] = saved[i]
    BY <1>1, <1>2 DEF Front
  <1> QED BY <1>2, <1>3, <1>5, <1>6, <1>7

LEMMA PosDisconnectBlockStep ==
  ASSUME PosInv, DisconnectBlock
  PROVE  PosInv'
  <1>1. PICK n : n = Len(chain)
    OBVIOUS
  <1>2. BlocksBack /\ chain # <<>> /\ db \in PosStates
    BY DEF PosInv, DisconnectBlock, Sound
  <1>3. /\ n \in Nat /\ n >= 1 /\ Last(chain) = chain[n]
        /\ Sound(saved[n]) /\ InMade(saved[n], MadeIn(chain, n - 1))
        /\ Undone(db, UndosOf(chain[n]), saved[n])
        /\ Front(chain) \in Seq(BlockSet) /\ Front(saved) \in Seq(PosStates)
        /\ Len(Front(chain)) = n - 1 /\ Len(Front(saved)) = n - 1
        /\ \A i \in 1 .. (n - 1) : Front(chain)[i] = chain[i] /\ Front(saved)[i] = saved[i]
    BY <1>1, <1>2, LastBlock
  <1>4. PICK s : s = saved[n]
    OBVIOUS
  <1>5. Sound(s) /\ Undone(db, UndosOf(chain[n]), s) /\ InMade(s, MadeIn(chain, n - 1))
    BY <1>3, <1>4
  <1>6. Reads(Disconnected(chain[n]), s)
    BY <1>2, <1>5, BlockTakenBack
  <1>7. Flush(Disconnected(chain[n])) /\ chain' = Front(chain) /\ saved' = Front(saved)
    BY <1>3 DEF DisconnectBlock
  <1>8. db' = s /\ verifier' = NewVerifier
    BY <1>2, <1>5, <1>6, <1>7, Flushed
  <1>9. PICK c : c = chain'
    OBVIOUS
  <1>10. \A i \in 1 .. n : MadeIn(c, i - 1) = MadeIn(chain, i - 1)
    <2> TAKE i \in 1 .. n
    <2>1. i - 1 \in Nat /\ \A j \in 1 .. (i - 1) : j \in 1 .. (n - 1)
      BY <1>3
    <2>2. \A j \in 1 .. (i - 1) : c[j] = chain[j]
      BY <1>3, <1>7, <1>9, <2>1
    <2> QED BY <2>1, <2>2, MadeSame
  <1>11. ASSUME NEW i \in 1 .. (n - 1)
        PROVE  /\ Sound(saved'[i]) /\ InMade(saved'[i], MadeIn(c, i - 1))
               /\ Undone(AfterBlock(i)', UndosOf(c[i]), saved'[i])
    <2>1. i \in 1 .. n /\ i + 1 \in 1 .. n /\ i # n
      BY <1>3
    <2>2. /\ Sound(saved[i]) /\ InMade(saved[i], MadeIn(chain, i - 1))
          /\ Undone(saved[i + 1], UndosOf(chain[i]), saved[i])
      BY <1>1, <1>2, <2>1 DEF BlocksBack, AfterBlock
    <2>3. AfterBlock(i)' = saved[i + 1]
      <3>1. Len(chain') = n - 1
        BY <1>3, <1>7
      <3>2. CASE i = n - 1
        <4>1. i + 1 = n
          BY <1>3, <3>2
        <4> QED BY <1>4, <1>8, <3>1, <3>2, <4>1 DEF AfterBlock
      <3>3. CASE i # n - 1
        <4>1. i + 1 \in 1 .. (n - 1)
          BY <1>3, <3>3
        <4>2. saved'[i + 1] = saved[i + 1]
          BY <1>3, <1>7, <4>1
        <4> QED BY <3>1, <3>3, <4>2 DEF AfterBlock
      <3> QED BY <3>2, <3>3
    <2>4. saved'[i] = saved[i] /\ c[i] = chain[i]
      BY <1>3, <1>7, <1>9
    <2> QED BY <1>10, <2>1, <2>2, <2>3, <2>4
  <1>12. BlocksBack'
    <2>1. ASSUME NEW i \in 1 .. (n - 1)
          PROVE  UndosOf(chain'[i]) = UndosOf(c[i]) /\ MadeIn(chain', i - 1) = MadeIn(c, i - 1)
      BY <1>9
    <2>2. \A i \in 1 .. (n - 1) : /\ Sound(saved'[i]) /\ InMade(saved'[i], MadeIn(chain', i - 1))
                                  /\ Undone(AfterBlock(i)', UndosOf(chain'[i]), saved'[i])
      BY <1>11, <2>1
    <2> QED BY <1>3, <1>7, <2>2 DEF BlocksBack, UndosOf
  <1>13. InMade(s, MadeIn(chain', Len(chain')))
    <2>1. n \in 1 .. n /\ Len(chain') = n - 1
      BY <1>3, <1>7
    <2>2. MadeIn(c, n - 1) = MadeIn(chain, n - 1)
      BY <1>10, <2>1
    <2> QED BY <1>5, <1>9, <2>1, <2>2
  <1> QED BY <1>5, <1>8, <1>12, <1>13, NewPosInv

\* The first state.
LEMMA PosInitInv ==
  ASSUME Init
  PROVE  PosInv
  <1>1. PICK st : st = db
    OBVIOUS
  <1>2. /\ st = [data |-> [k \in DataKeys |-> NoData], amounts |-> [k \in AmountKeys |-> 0]]
        /\ verifier = NewVerifier /\ chain = <<>> /\ saved = <<>>
    BY <1>1 DEF Init
  <1>3. st \in PosStates
    BY <1>2 DEF PosStates, StateSet, PosValues
  <1>4. (\A k \in DataKeys : st.data[k] = NoData) /\ (\A k \in AmountKeys : st.amounts[k] = 0)
    BY <1>2
  <1>5. Sound(st)
    <2>1. \A p \in Pools : PoolOK(st, p)
      BY <1>4, PosKeys DEF PoolOK
    <2>2. \A d \in Delegations : DelegationOK(st, d)
      BY <1>4, PosKeys DEF DelegationOK
    <2> QED BY <1>3, <1>4, <2>1, <2>2 DEF Sound
  <1>6. Len(chain) = 0 /\ Len(saved) = 0 /\ BlocksBack
    BY <1>2 DEF BlocksBack
  <1>7. InMade(st, MadeIn(chain, Len(chain)))
    BY <1>4, PosKeys DEF InMade
  <1>8. /\ NewVerifier \in VerifierSet /\ NewVerifier.undos = <<>>
        /\ NewVerifier = [delta |-> NewVerifier.delta, undos |-> <<>>, failed |-> FALSE]
        /\ NewVerifier.delta \in PosDeltas
        /\ Matches(st, NewVerifier.delta) /\ Apply(st, NewVerifier.delta) = st
    BY <1>3, NewChanges
  <1>9. View(verifier) = st
    BY <1>1, <1>2, <1>8 DEF View
  <1>10. Undone(st, Reverse(NewVerifier.undos), st)
    BY <1>8, NoUndos, UndoneNone
  <1>11. Reads(verifier, View(verifier))
    BY <1>1, <1>2, <1>8, <1>9 DEF Reads
  <1>12. InMade(st, MadeIn(chain, Len(chain)) \cup Made(NewVerifier.undos))
    BY <1>7, <1>8, NoUndos
  <1> QED BY <1>1, <1>2, <1>5, <1>6, <1>7, <1>8, <1>9, <1>10, <1>11, <1>12 DEF PosInv

\* A step that changes nothing.
LEMMA PosStutter ==
  ASSUME PosInv, UNCHANGED vars
  PROVE  PosInv'
  <1>1. db' = db /\ verifier' = verifier /\ chain' = chain /\ saved' = saved
    BY DEF vars
  <1>2. View(verifier)' = View(verifier)
    BY <1>1 DEF View
  <1>3. BlocksBack'
    BY <1>1 DEF PosInv, BlocksBack, AfterBlock
  <1>4. Reads(verifier, View(verifier))'
    BY <1>1, <1>2 DEF PosInv, Reads
  <1> QED BY <1>1, <1>2, <1>3, <1>4 DEF PosInv

\* The accounts of pools and delegations are sound in every reachable state, and the undos that
\* are stored lead from each state to the one before: whatever operations, rewards, dropped and
\* disconnected blocks led to it.
THEOREM PosInvariant == Spec => []PosInv
  <1>1. Init => PosInv
    BY PosInitInv
  <1>2. PosInv /\ [Next]_vars => PosInv'
    <2> SUFFICES ASSUME PosInv, [Next]_vars PROVE PosInv'
      OBVIOUS
    <2>1. ASSUME NEW p \in Pools, NEW a \in Amounts, TxCreatePool(p, a) PROVE PosInv'
      BY <2>1, TxCreatePoolStep
    <2>2. ASSUME NEW p \in Pools, TxDecommissionPool(p) PROVE PosInv'
      BY <2>2, TxDecommissionPoolStep
    <2>3. ASSUME NEW p \in Pools, NEW d \in Delegations, TxCreateDelegationId(p, d) PROVE PosInv'
      BY <2>3, TxCreateDelegationIdStep
    <2>4. ASSUME NEW d \in Delegations, TxDeleteDelegationId(d) PROVE PosInv'
      BY <2>4, TxDeleteDelegationIdStep
    <2>5. ASSUME NEW d \in Delegations, NEW a \in Amounts, TxDelegateStaking(d, a) PROVE PosInv'
      BY <2>5, TxDelegateStakingStep
    <2>6. ASSUME NEW d \in Delegations, NEW a \in Amounts, TxSpendShare(d, a) PROVE PosInv'
      BY <2>6, TxSpendShareStep
    <2>7. CASE ConnectBlock
      BY <2>7, PosConnectBlockStep
    <2>8. ASSUME NEW p \in Pools, NEW r \in Rewards, ConnectPosBlock(p, r) PROVE PosInv'
      BY <2>8, ConnectPosBlockStep
    <2>9. CASE AbandonBlock
      BY <2>9, PosAbandonBlockStep
    <2>10. CASE DisconnectBlock
      BY <2>10, PosDisconnectBlockStep
    <2>11. CASE UNCHANGED vars
      BY <2>11, PosStutter
    <2> QED BY <2>1, <2>2, <2>3, <2>4, <2>5, <2>6, <2>7, <2>8, <2>9, <2>10, <2>11 DEF Next
  <1> QED BY <1>1, <1>2, PTL DEF Spec

\* A sound state is an accounting state.
LEMMA SoundState ==
  ASSUME NEW st, Sound(st)
  PROVE  st \in States
  <1>1. st \in PosStates /\ \A k \in AmountKeys : st.amounts[k] >= 0
    BY DEF Sound
  <1>2. PICK x, y : st = [data |-> x, amounts |-> y]
                    /\ x \in [DataKeys -> PosValues] /\ y \in [AmountKeys -> Int]
    BY <1>1 DEF PosStates, StateSet
  <1>3. y \in [AmountKeys -> Nat]
    <2>1. \A k \in AmountKeys : y[k] \in Nat
      BY <1>1, <1>2
    <2> QED BY <1>2, <2>1
  <1> QED BY <1>2, <1>3 DEF States, PosValues

\* What BooksBalance says of the verifier is what Sound says of the state it reads.
LEMMA PosInvBalance ==
  ASSUME PosInv
  PROVE  BooksBalance
  <1>1. PICK st : st = View(verifier)
    OBVIOUS
  <1>2. /\ Sound(st) /\ Reads(verifier, st)
        /\ \A k : /\ (Exists(verifier, k) <=> st.data[k] # NoData) /\ GetAmount(verifier, k) = st.amounts[k]
                  /\ PoolOf(verifier, k) = st.data[k]
    BY <1>1, PosStart
  <1>3. verifier.failed = FALSE
    BY <1>2 DEF Reads
  <1>4. TypeOK
    <2>1. db \in States /\ st \in States
      BY <1>2, SoundState DEF PosInv
    <2>2. chain \in Seq(BlockSet) /\ saved \in Seq(PosStates) /\ Len(saved) = Len(chain)
          /\ \A i \in 1 .. Len(chain) : Sound(saved[i])
      BY DEF PosInv, BlocksBack
    <2>3. \A i \in DOMAIN saved : saved[i] \in States
      BY <2>2, SoundState
    <2> QED BY <1>1, <1>3, <2>1, <2>2, <2>3 DEF TypeOK
  <1>5. PoolBalanceAddsUp
    <2> SUFFICES ASSUME NEW p \in Pools, Exists(verifier, p)
                 PROVE  GetAmount(verifier, p) = StakerBalance(GetData(verifier, p)) + TotalShares(verifier, p)
      BY DEF PoolBalanceAddsUp
    <2>1. st.data[p] # NoData /\ GetData(verifier, p) = st.data[p] /\ GetAmount(verifier, p) = st.amounts[p]
      BY <1>1, <1>2 DEF GetData
    <2>2. TotalShares(verifier, p) = SharesIn(st, p)
      <3>1. [d \in Delegations |-> GetAmount(verifier, <<p, d>>)] = [d \in Delegations |-> st.amounts[<<p, d>>]]
        BY <1>2
      <3> QED BY <3>1 DEF TotalShares, SharesIn
    <2>3. st.amounts[p] = (st.data[p].pledge + st.data[p].rewards) + SharesIn(st, p)
      BY <1>2, <2>1 DEF Sound, PoolOK
    <2> QED BY <2>1, <2>2, <2>3 DEF StakerBalance
  <1>6. SharesAreBalances
    <2> SUFFICES ASSUME NEW d \in Delegations, NEW p \in Pools
                 PROVE  GetAmount(verifier, <<p, d>>) =
                          IF PoolOf(verifier, d) = p THEN GetAmount(verifier, d) ELSE 0
      BY DEF SharesAreBalances
    <2>1. st.amounts[<<p, d>>] = IF st.data[d] = p THEN st.amounts[d] ELSE 0
      BY <1>2 DEF Sound, DelegationOK
    <2> QED BY <1>2, <2>1
  <1> QED BY <1>3, <1>4, <1>5, <1>6 DEF BooksBalance, NeverFails

\* The three maps of the accounting agree at every point of every block, after any history of
\* blocks: a pool has what its staker and its delegations own, a delegation what its share is,
\* no balance is negative, and no delta fails to merge.
THEOREM BooksBalanced == Spec => []BooksBalance
  <1>1. PosInv => BooksBalance
    BY PosInvBalance
  <1> QED BY <1>1, PosInvariant, PTL

\* The last block can be undone, and gives back the database before it: the reward's undos in
\* their own order, then those of the transactions from the last to the first.
THEOREM PosBlockCanBeUndone == Spec => []LastBlockCanBeUndone
  <1>1. PosInv => LastBlockCanBeUndone
    <2> SUFFICES ASSUME PosInv, chain # <<>>
                 PROVE  LET v == Disconnected(Last(chain))
                        IN  ~v.failed /\ Applies(db, v.delta) /\ Apply(db, v.delta) = Last(saved)
      BY DEF LastBlockCanBeUndone
    <2>1. BlocksBack /\ db \in PosStates
      BY DEF PosInv, Sound
    <2>2. PICK b, s : b = Last(chain) /\ s = Last(saved)
      OBVIOUS
    <2>3. Sound(s) /\ Undone(db, UndosOf(b), s)
      BY <2>1, <2>2, LastBlock
    <2>4. Reads(Disconnected(b), s)
      BY <2>1, <2>3, BlockTakenBack
    <2>5. PICK v : v = Disconnected(b)
      OBVIOUS
    <2>6. Applies(db, v.delta) /\ ~v.failed /\ Apply(db, v.delta) = s
      BY <2>1, <2>3, <2>4, <2>5, ReadsApplies
    <2> QED BY <2>2, <2>5, <2>6
  <1> QED BY <1>1, PosInvariant, PTL
----------------------------------------------------------------------------
(* The plain ledger. *)

\* Placeholders are nothing that is owned.
LEMMA NoDataIs ==
  /\ NoData \notin Nat
  /\ \A p \in Pools, b \in Nat : [pool |-> p, balance |-> b] # NoData
  BY PosAssumption

\* What the staker of a pool and a delegation own in a sound state.
LEMMA OwnIs ==
  ASSUME NEW st, Sound(st)
  PROVE  /\ \A p \in Pools : StakersIn(st)[p] = IF st.data[p] = NoData THEN NoData ELSE StakerBalance(st.data[p])
         /\ \A p \in Pools : StakersIn(st)[p] # NoData <=> st.data[p] # NoData
         /\ \A d \in Delegations : st.data[d] # NoData =>
              /\ st.data[d] \in Pools /\ st.amounts[d] \in Nat
              /\ DelegatorsIn(st)[d] = [pool |-> st.data[d], balance |-> st.amounts[d]]
              /\ DelegatorsIn(st)[d].pool = st.data[d] /\ DelegatorsIn(st)[d].balance = st.amounts[d]
         /\ \A d \in Delegations : DelegatorsIn(st)[d] # NoData <=> st.data[d] # NoData
  <1>1. \A p \in Pools : StakersIn(st)[p] = IF st.data[p] = NoData THEN NoData ELSE StakerBalance(st.data[p])
    BY DEF StakersIn
  <1>2. ASSUME NEW p \in Pools, st.data[p] # NoData PROVE StakersIn(st)[p] # NoData
    <2>1. st.data[p] \in [pledge : Nat \ {0}, rewards : Nat]
      BY <1>2 DEF Sound, PoolOK
    <2>2. st.data[p].pledge + st.data[p].rewards \in Nat
      BY <2>1
    <2>3. StakersIn(st)[p] = st.data[p].pledge + st.data[p].rewards
      BY <1>1, <1>2 DEF StakerBalance
    <2> QED BY <2>2, <2>3, NoDataIs
  <1>3. \A d \in Delegations : DelegatorsIn(st)[d] = IF st.data[d] = NoData THEN NoData
                                                   ELSE [pool |-> st.data[d], balance |-> st.amounts[d]]
    BY DEF DelegatorsIn
  <1>4. ASSUME NEW d \in Delegations, st.data[d] # NoData
        PROVE  st.data[d] \in Pools /\ st.amounts[d] \in Nat
    <2>1. st.data[d] \in Pools
      BY <1>4 DEF Sound, DelegationOK
    <2>2. st.amounts[d] \in Int
      BY PosKeys DEF Sound, PosStates, StateSet
    <2>3. st.amounts[d] >= 0
      BY PosKeys DEF Sound
    <2> QED BY <2>1, <2>2, <2>3
  <1>5. \A d \in Delegations : st.data[d] # NoData =>
          /\ DelegatorsIn(st)[d] = [pool |-> st.data[d], balance |-> st.amounts[d]]
          /\ DelegatorsIn(st)[d].pool = st.data[d] /\ DelegatorsIn(st)[d].balance = st.amounts[d]
          /\ DelegatorsIn(st)[d] # NoData
    BY <1>3, <1>4, NoDataIs
  <1> QED BY <1>1, <1>2, <1>3, <1>4, <1>5

\* The entries of the ledger.
StakerOf(x) == IF x = NoData THEN NoData ELSE StakerBalance(x)
DelegatorOf(x, b) == IF x = NoData THEN NoData ELSE [pool |-> x, balance |-> b]
Entered(f, k, e) == [f EXCEPT ![k] = e]
BalanceMoved(f, k, g) == [f EXCEPT ![k].balance = @ + g]
AmountsAreInt(st) == \A d \in Delegations : st.amounts[d] \in Int

\* A pool is changed.
LEMMA StakerChanges ==
  ASSUME NEW st, NEW new, NEW p \in Pools, NEW x, NEW g, Sets(st, new, p, x, g),
         AmountsAreInt(st)
  PROVE  /\ StakersIn(new) = Entered(StakersIn(st), p, StakerOf(x))
         /\ DelegatorsIn(new) = DelegatorsIn(st)
  <1>1. new.data[p] = x /\ \A q \in Pools \ {p} : new.data[q] = st.data[q]
    BY PosKeys DEF Sets
  <1>2. \A d \in Delegations : new.data[d] = st.data[d] /\ new.amounts[d] = st.amounts[d]
    <2> TAKE d \in Delegations
    <2>1. d \in DataKeys /\ d # p
      BY PosKeys
    <2>2. new.data[d] = st.data[d] /\ new.amounts[d] = st.amounts[d] + 0
      BY <2>1 DEF Sets
    <2> QED BY <2>2 DEF AmountsAreInt
  <1> QED BY <1>1, <1>2 DEF StakersIn, DelegatorsIn, Entered, StakerOf

\* A delegation is changed.
LEMMA DelegatorChanges ==
  ASSUME NEW st, NEW new, NEW k \in Delegations, NEW x, NEW g, Sets(st, new, k, x, g),
         AmountsAreInt(st)
  PROVE  /\ StakersIn(new) = StakersIn(st)
         /\ DelegatorsIn(new) = Entered(DelegatorsIn(st), k, DelegatorOf(x, st.amounts[k] + g))
  <1>1. \A q \in Pools : new.data[q] = st.data[q]
    BY PosKeys DEF Sets
  <1>2. \A d \in Delegations \ {k} : new.data[d] = st.data[d] /\ new.amounts[d] = st.amounts[d]
    BY PosKeys DEF Sets, AmountsAreInt
  <1>3. new.data[k] = x /\ new.amounts[k] = st.amounts[k] + g
    BY DEF Sets
  <1> QED BY <1>1, <1>2, <1>3 DEF StakersIn, DelegatorsIn, Entered, DelegatorOf

\* The ledgers after the blocks.
PastOf(states, last) == [i \in 1 .. Len(states) |-> LedgerIn(states[i])] \o <<LedgerIn(last)>>

\* What an operation does is a step of the ledger, when the verifier reads st, then new.
LEMMA LedgerOperates ==
  ASSUME PosInv, NEW st, st = View(verifier), NEW w, NEW u, NEW new, Done(verifier.undos, st, w, u, new), Operate(w)
  PROVE  /\ Sound(st) /\ Sound(new) /\ AmountsAreInt(st)
         /\ StakersIn(View(verifier)) = StakersIn(st) /\ DelegatorsIn(View(verifier)) = DelegatorsIn(st)
         /\ StakersIn(View(verifier))' = StakersIn(new) /\ DelegatorsIn(View(verifier))' = DelegatorsIn(new)
         /\ PastOf(saved, db)' = PastOf(saved, db)
  <1>1. Sound(st) /\ Sound(new) /\ View(w) = new
    BY PosStart DEF Done, Reads
  <1>2. verifier' = w /\ db' = db /\ saved' = saved
    BY DEF Operate
  <1>3. View(verifier)' = new
    BY <1>1, <1>2 DEF View
  <1>4. AmountsAreInt(st)
    BY <1>1, PosKeys DEF AmountsAreInt, Sound, PosStates, StateSet
  <1>5. StakersIn(View(verifier))' = StakersIn(new) /\ DelegatorsIn(View(verifier))' = DelegatorsIn(new)
    BY <1>3 DEF StakersIn, DelegatorsIn
  <1>6. PastOf(saved, db)' = PastOf(saved, db)
    BY <1>2
  <1> QED BY <1>1, <1>4, <1>5, <1>6

LEMMA LedgerCreatePool ==
  ASSUME PosInv, NEW p \in Pools, NEW a \in Amounts, TxCreatePool(p, a)
  PROVE  Promise!Create(p, a)
  <1>1. PICK st : st = View(verifier)
    OBVIOUS
  <1>2. db \in PosStates /\ Sound(st) /\ Reads(verifier, st)
    BY <1>1, PosStart
  <1>3. st.data[p] = NoData /\ st.amounts[p] <= 0 /\ Operate(CreatePool(verifier, p, a)) /\ SharesIn(st, p) = 0
    BY <1>1, PosStart, FreshHasNoShares DEF TxCreatePool
  <1>4. a \in Nat \ {0} /\ a + 0 = a
    BY PosAssumption
  <1>5. PICK u, new : /\ Done(verifier.undos, st, CreatePool(verifier, p, a), u, new)
                      /\ Sets(st, new, p, PoolData(a, 0), 0)
    BY <1>2, <1>3, <1>4, DoCreatePool
  <1>6. /\ Sound(st) /\ Sound(new) /\ AmountsAreInt(st)
        /\ StakersIn(View(verifier)) = StakersIn(st) /\ DelegatorsIn(View(verifier)) = DelegatorsIn(st)
        /\ StakersIn(View(verifier))' = StakersIn(new) /\ DelegatorsIn(View(verifier))' = DelegatorsIn(new)
        /\ PastOf(saved, db)' = PastOf(saved, db)
    BY <1>1, <1>3, <1>5, LedgerOperates
  <1>7. PoolData(a, 0) # NoData /\ StakerBalance(PoolData(a, 0)) = a
    BY <1>4, PoolDataIs DEF StakerBalance
  <1>8. StakersIn(new) = [StakersIn(st) EXCEPT ![p] = a] /\ DelegatorsIn(new) = DelegatorsIn(st)
    <2>1. PICK x, g : x = PoolData(a, 0) /\ g = 0
      OBVIOUS
    <2>2. Sets(st, new, p, x, g)
      BY <1>5, <2>1
    <2>3. StakersIn(new) = Entered(StakersIn(st), p, StakerOf(x)) /\ DelegatorsIn(new) = DelegatorsIn(st)
      BY <1>6, <2>2, StakerChanges
    <2> QED BY <1>7, <2>1, <2>3 DEF Entered, StakerOf
  <1>9. StakersIn(st)[p] = NoData
    BY <1>3, <1>6, OwnIs
  <1> QED BY <1>6, <1>8, <1>9 DEF Promise!Create, PastOf

LEMMA LedgerDecommissionPool ==
  ASSUME PosInv, NEW p \in Pools, TxDecommissionPool(p)
  PROVE  Promise!Decommission(p)
  <1>1. PICK st : st = View(verifier)
    OBVIOUS
  <1>2. db \in PosStates /\ Sound(st) /\ Reads(verifier, st)
    BY <1>1, PosStart
  <1>3. st.data[p] # NoData /\ Operate(DecommissionPool(verifier, p))
    BY <1>1, PosStart DEF TxDecommissionPool
  <1>4. PICK u, new : /\ Done(verifier.undos, st, DecommissionPool(verifier, p), u, new)
                      /\ Sets(st, new, p, NoData, 0)
    BY <1>2, DoDecommissionPool
  <1>5. /\ Sound(st) /\ Sound(new) /\ AmountsAreInt(st)
        /\ StakersIn(View(verifier)) = StakersIn(st) /\ DelegatorsIn(View(verifier)) = DelegatorsIn(st)
        /\ StakersIn(View(verifier))' = StakersIn(new) /\ DelegatorsIn(View(verifier))' = DelegatorsIn(new)
        /\ PastOf(saved, db)' = PastOf(saved, db)
    BY <1>1, <1>3, <1>4, LedgerOperates
  <1>6. StakersIn(new) = [StakersIn(st) EXCEPT ![p] = NoData] /\ DelegatorsIn(new) = DelegatorsIn(st)
    <2>1. StakersIn(new) = Entered(StakersIn(st), p, StakerOf(NoData)) /\ DelegatorsIn(new) = DelegatorsIn(st)
      BY <1>4, <1>5, StakerChanges
    <2> QED BY <2>1 DEF Entered, StakerOf
  <1>7. StakersIn(st)[p] # NoData
    BY <1>3, <1>5, OwnIs
  <1> QED BY <1>5, <1>6, <1>7 DEF Promise!Decommission, PastOf

LEMMA LedgerCreateDelegationId ==
  ASSUME PosInv, NEW p \in Pools, NEW k \in Delegations, TxCreateDelegationId(p, k)
  PROVE  Promise!Open(k, p)
  <1>1. PICK st : st = View(verifier)
    OBVIOUS
  <1>2. db \in PosStates /\ Sound(st) /\ Reads(verifier, st)
    BY <1>1, PosStart
  <1>3. st.data[p] # NoData /\ st.data[k] = NoData /\ Operate(CreateDelegationId(verifier, p, k))
    BY <1>1, PosStart DEF TxCreateDelegationId
  <1>4. PICK u, new : Done(verifier.undos, st, CreateDelegationId(verifier, p, k), u, new) /\ Sets(st, new, k, p, 0)
    BY <1>2, <1>3, DoCreateDelegationId
  <1>5. /\ Sound(st) /\ Sound(new) /\ AmountsAreInt(st)
        /\ StakersIn(View(verifier)) = StakersIn(st) /\ DelegatorsIn(View(verifier)) = DelegatorsIn(st)
        /\ StakersIn(View(verifier))' = StakersIn(new) /\ DelegatorsIn(View(verifier))' = DelegatorsIn(new)
        /\ PastOf(saved, db)' = PastOf(saved, db)
    BY <1>1, <1>3, <1>4, LedgerOperates
  <1>6. p # NoData /\ st.amounts[k] + 0 = 0
    <2>1. st.amounts[k] = 0
      BY <1>2, <1>3 DEF Sound, DelegationOK
    <2> QED BY <2>1, PosKeys
  <1>7. /\ StakersIn(new) = StakersIn(st)
        /\ DelegatorsIn(new) = [DelegatorsIn(st) EXCEPT ![k] = [pool |-> p, balance |-> 0]]
    <2>1. PICK g, b : g = 0 /\ b = st.amounts[k] + g
      OBVIOUS
    <2>2. Sets(st, new, k, p, g)
      BY <1>4, <2>1
    <2>3. /\ StakersIn(new) = StakersIn(st)
          /\ DelegatorsIn(new) = Entered(DelegatorsIn(st), k, DelegatorOf(p, st.amounts[k] + g))
      BY <1>5, <2>2, DelegatorChanges
    <2>4. b = 0
      BY <1>6, <2>1
    <2> QED BY <1>6, <2>1, <2>3, <2>4 DEF Entered, DelegatorOf
  <1>8. StakersIn(st)[p] # NoData /\ DelegatorsIn(st)[k] = NoData
    BY <1>3, <1>5, OwnIs
  <1> QED BY <1>5, <1>7, <1>8 DEF Promise!Open, PastOf

LEMMA LedgerDeleteDelegationId ==
  ASSUME PosInv, NEW k \in Delegations, TxDeleteDelegationId(k)
  PROVE  Promise!Close(k)
  <1>1. PICK st : st = View(verifier)
    OBVIOUS
  <1>2. db \in PosStates /\ Sound(st) /\ Reads(verifier, st)
    BY <1>1, PosStart
  <1>3. /\ st.data[k] # NoData /\ st.amounts[k] <= 0 /\ st.data[st.data[k]] = NoData
        /\ Operate(DeleteDelegationId(verifier, k))
    BY <1>1, PosStart DEF TxDeleteDelegationId
  <1>4. PICK u, new : Done(verifier.undos, st, DeleteDelegationId(verifier, k), u, new) /\ Sets(st, new, k, NoData, 0)
    BY <1>2, <1>3, DoDeleteDelegationId
  <1>5. /\ Sound(st) /\ Sound(new) /\ AmountsAreInt(st)
        /\ StakersIn(View(verifier)) = StakersIn(st) /\ DelegatorsIn(View(verifier)) = DelegatorsIn(st)
        /\ StakersIn(View(verifier))' = StakersIn(new) /\ DelegatorsIn(View(verifier))' = DelegatorsIn(new)
        /\ PastOf(saved, db)' = PastOf(saved, db)
    BY <1>1, <1>3, <1>4, LedgerOperates
  <1>6. /\ StakersIn(new) = StakersIn(st)
        /\ DelegatorsIn(new) = [DelegatorsIn(st) EXCEPT ![k] = NoData]
    <2>1. PICK g : g = 0
      OBVIOUS
    <2>2. Sets(st, new, k, NoData, g)
      BY <1>4, <2>1
    <2>3. /\ StakersIn(new) = StakersIn(st)
          /\ DelegatorsIn(new) = Entered(DelegatorsIn(st), k, DelegatorOf(NoData, st.amounts[k] + g))
      BY <1>5, <2>2, DelegatorChanges
    <2> QED BY <2>3 DEF Entered, DelegatorOf
  <1>7. /\ DelegatorsIn(st)[k] # NoData /\ DelegatorsIn(st)[k].balance = 0
        /\ StakersIn(st)[DelegatorsIn(st)[k].pool] = NoData
    <2>1. /\ st.data[k] \in Pools /\ st.amounts[k] \in Nat /\ DelegatorsIn(st)[k] # NoData
          /\ DelegatorsIn(st)[k].pool = st.data[k] /\ DelegatorsIn(st)[k].balance = st.amounts[k]
      BY <1>2, <1>3, OwnIs
    <2>2. StakersIn(st)[st.data[k]] = NoData
      BY <1>2, <1>3, <2>1, OwnIs
    <2>3. st.amounts[k] = 0
      BY <1>3, <2>1
    <2> QED BY <2>1, <2>2, <2>3
  <1> QED BY <1>5, <1>6, <1>7 DEF Promise!Close, PastOf

\* A balance is changed.
LEMMA BalanceChanges ==
  ASSUME NEW st, Sound(st), NEW new, NEW k \in Delegations, NEW g, Sets(st, new, k, st.data[k], g),
         st.data[k] # NoData, AmountsAreInt(st)
  PROVE  /\ StakersIn(new) = StakersIn(st)
         /\ DelegatorsIn(new) = BalanceMoved(DelegatorsIn(st), k, g)
  <1>1. PICK r, x, b : r = DelegatorsIn(st)[k] /\ x = st.data[k] /\ b = st.amounts[k]
    OBVIOUS
  <1>2. r = [pool |-> x, balance |-> b] /\ x # NoData
    BY <1>1, OwnIs
  <1>3. [r EXCEPT !.balance = r.balance + g] = [pool |-> x, balance |-> b + g]
    BY <1>2
  <1>4. /\ StakersIn(new) = StakersIn(st)
        /\ DelegatorsIn(new) = [DelegatorsIn(st) EXCEPT ![k] = [pool |-> x, balance |-> b + g]]
    <2>1. Sets(st, new, k, x, g)
      BY <1>1
    <2>2. /\ StakersIn(new) = StakersIn(st)
          /\ DelegatorsIn(new) = Entered(DelegatorsIn(st), k, DelegatorOf(x, st.amounts[k] + g))
      BY <2>1, DelegatorChanges
    <2> QED BY <1>1, <1>2, <2>2 DEF Entered, DelegatorOf
  <1>5. BalanceMoved(DelegatorsIn(st), k, g) = [DelegatorsIn(st) EXCEPT ![k] = [r EXCEPT !.balance = r.balance + g]]
    BY <1>1 DEF BalanceMoved
  <1> QED BY <1>3, <1>4, <1>5

LEMMA LedgerDelegateStaking ==
  ASSUME PosInv, NEW k \in Delegations, NEW a \in Amounts, TxDelegateStaking(k, a)
  PROVE  Promise!Deposit(k, a)
  <1>1. PICK st : st = View(verifier)
    OBVIOUS
  <1>2. db \in PosStates /\ Sound(st) /\ Reads(verifier, st)
    BY <1>1, PosStart
  <1>3. st.data[k] # NoData /\ Operate(DelegateStaking(verifier, k, a)) /\ a \in Nat
    BY <1>1, PosStart, PosAssumption DEF TxDelegateStaking
  <1>4. PICK new, u : /\ Done(verifier.undos, st, DelegateStaking(verifier, k, a), u, new)
                      /\ Sets(st, new, k, st.data[k], a)
    BY <1>2, <1>3, DoDelegateStaking
  <1>5. /\ Sound(st) /\ Sound(new) /\ AmountsAreInt(st)
        /\ StakersIn(View(verifier)) = StakersIn(st) /\ DelegatorsIn(View(verifier)) = DelegatorsIn(st)
        /\ StakersIn(View(verifier))' = StakersIn(new) /\ DelegatorsIn(View(verifier))' = DelegatorsIn(new)
        /\ PastOf(saved, db)' = PastOf(saved, db)
    BY <1>1, <1>3, <1>4, LedgerOperates
  <1>6. StakersIn(new) = StakersIn(st) /\ DelegatorsIn(new) = BalanceMoved(DelegatorsIn(st), k, a)
    BY <1>3, <1>4, <1>5, BalanceChanges
  <1>7. DelegatorsIn(st)[k] # NoData
    BY <1>2, <1>3, OwnIs
  <1> QED BY <1>5, <1>6, <1>7 DEF Promise!Deposit, PastOf, BalanceMoved

LEMMA LedgerSpendShare ==
  ASSUME PosInv, NEW k \in Delegations, NEW a \in Amounts, TxSpendShare(k, a)
  PROVE  Promise!Withdraw(k, a)
  <1>1. PICK st : st = View(verifier)
    OBVIOUS
  <1>2. db \in PosStates /\ Sound(st) /\ Reads(verifier, st)
    BY <1>1, PosStart
  <1>3. /\ st.data[k] # NoData /\ GetAmount(SpendShare(verifier, k, a), k) >= 0
        /\ Operate(SpendShare(verifier, k, a)) /\ a \in Nat
    BY <1>1, PosStart, PosAssumption DEF TxSpendShare
  <1>4. PICK g : g = -a
    OBVIOUS
  <1>5. PICK u, new : /\ Done(verifier.undos, st, SpendShare(verifier, k, a), u, new)
                      /\ Sets(st, new, k, st.data[k], g)
    BY <1>2, <1>3, <1>4, DoSpendShare
  <1>6. /\ Sound(st) /\ Sound(new) /\ AmountsAreInt(st)
        /\ StakersIn(View(verifier)) = StakersIn(st) /\ DelegatorsIn(View(verifier)) = DelegatorsIn(st)
        /\ StakersIn(View(verifier))' = StakersIn(new) /\ DelegatorsIn(View(verifier))' = DelegatorsIn(new)
        /\ PastOf(saved, db)' = PastOf(saved, db)
    BY <1>1, <1>3, <1>5, LedgerOperates
  <1>7. StakersIn(new) = StakersIn(st) /\ DelegatorsIn(new) = BalanceMoved(DelegatorsIn(st), k, g)
    BY <1>3, <1>5, <1>6, BalanceChanges
  <1>8. DelegatorsIn(st)[k] # NoData /\ DelegatorsIn(st)[k].balance = st.amounts[k] /\ st.amounts[k] \in Nat
    BY <1>2, <1>3, OwnIs
  <1>9. st.amounts[k] >= a /\ st.amounts[k] + g = st.amounts[k] - a
    <2>1. new.amounts[k] >= 0
      BY <1>6, PosKeys DEF Sound
    <2>2. new.amounts[k] = st.amounts[k] + g
      BY <1>5 DEF Sets
    <2> QED BY <1>3, <1>4, <1>8, <2>1, <2>2
  <1>10. DelegatorsIn(new) = [DelegatorsIn(st) EXCEPT ![k].balance = @ - a]
    BY <1>7, <1>8, <1>9 DEF BalanceMoved
  <1> QED BY <1>6, <1>7, <1>8, <1>9, <1>10 DEF Promise!Withdraw, PastOf

\* What the sequence of ledgers is.
LedgersOf(S) == {LedgerIn(s) : s \in S}
IsPast(p, T, states, last) ==
  /\ p \in Seq(T) /\ Len(p) = Len(states) + 1
  /\ \A i \in 1 .. Len(states) : p[i] = LedgerIn(states[i])
  /\ p[Len(states) + 1] = LedgerIn(last)

LEMMA PastIs ==
  ASSUME NEW S, NEW states \in Seq(S), NEW last \in S
  PROVE  IsPast(PastOf(states, last), LedgersOf(S), states, last)
  <1>1. PICK n : n = Len(states) /\ n \in Nat
    OBVIOUS
  <1>2. PICK T : T = LedgersOf(S)
    OBVIOUS
  <1>3. PICK q : q = [i \in 1 .. n |-> LedgerIn(states[i])]
    OBVIOUS
  <1>4. \A i \in 1 .. n : LedgerIn(states[i]) \in T
    BY <1>1, <1>2 DEF LedgersOf
  <1>5. q \in Seq(T) /\ Len(q) = n
    BY <1>1, <1>3, <1>4
  <1>6. PICK x : x = LedgerIn(last)
    OBVIOUS
  <1>7. x \in T
    BY <1>2, <1>6 DEF LedgersOf
  <1>8. PastOf(states, last) = q \o <<x>>
    BY <1>1, <1>3, <1>6 DEF PastOf
  <1>9. q \o <<x>> \in Seq(T) /\ Len(q \o <<x>>) = n + 1 /\ (q \o <<x>>)[n + 1] = x
    BY <1>1, <1>5, <1>7
  <1>10. \A i \in 1 .. n : (q \o <<x>>)[i] = LedgerIn(states[i])
    BY <1>1, <1>3, <1>5, <1>7
  <1> QED BY <1>1, <1>2, <1>6, <1>8, <1>9, <1>10 DEF IsPast

\* Sequences with the same elements.
LEMMA SameElements ==
  ASSUME NEW S, NEW q \in Seq(S), NEW T, NEW r \in Seq(T), Len(q) = Len(r), \A i \in 1 .. Len(q) : q[i] = r[i]
  PROVE  q = r
  OBVIOUS

\* A block is added to the past.
LEMMA PastMore ==
  ASSUME NEW S, NEW states \in Seq(S), NEW last \in S, NEW t \in S
  PROVE  PastOf(Append(states, last), t) = Append(PastOf(states, last), LedgerIn(t))
  <1>1. PICK n : n = Len(states) /\ n \in Nat
    OBVIOUS
  <1>2. PICK more : more = Append(states, last)
    OBVIOUS
  <1>3. /\ more \in Seq(S) /\ Len(more) = n + 1 /\ more[n + 1] = last
        /\ \A i \in 1 .. n : more[i] = states[i]
    BY <1>1, <1>2
  <1>4. PICK q : q = PastOf(more, t)
    OBVIOUS
  <1>5. PICK T : T = LedgersOf(S)
    OBVIOUS
  <1>6. IsPast(q, T, more, t)
    BY <1>3, <1>4, <1>5, PastIs
  <1>7. /\ q \in Seq(T) /\ Len(q) = (n + 1) + 1
        /\ \A i \in 1 .. (n + 1) : q[i] = LedgerIn(more[i])
        /\ q[(n + 1) + 1] = LedgerIn(t)
    BY <1>3, <1>6 DEF IsPast
  <1>8. PICK p : p = PastOf(states, last)
    OBVIOUS
  <1>9. /\ p \in Seq(T) /\ Len(p) = n + 1
        /\ \A i \in 1 .. n : p[i] = LedgerIn(states[i])
        /\ p[n + 1] = LedgerIn(last)
    <2>1. IsPast(p, T, states, last)
      BY <1>5, <1>8, PastIs
    <2> QED BY <1>1, <2>1 DEF IsPast
  <1>10. PICK x : x = LedgerIn(t)
    OBVIOUS
  <1>11. x \in T
    BY <1>5, <1>10 DEF LedgersOf
  <1>12. PICK r : r = Append(p, x)
    OBVIOUS
  <1>13. /\ r \in Seq(T) /\ Len(r) = (n + 1) + 1 /\ r[(n + 1) + 1] = x
         /\ \A i \in 1 .. (n + 1) : r[i] = p[i]
    BY <1>1, <1>9, <1>11, <1>12
  <1>14. \A i \in 1 .. (n + 1) : q[i] = r[i]
    <2> TAKE i \in 1 .. (n + 1)
    <2>1. CASE i = n + 1
      BY <1>1, <1>3, <1>7, <1>9, <1>13, <2>1
    <2>2. CASE i \in 1 .. n
      BY <1>1, <1>3, <1>7, <1>9, <1>13, <2>2
    <2> QED BY <1>1, <2>1, <2>2
  <1>15. \A i \in 1 .. Len(q) : q[i] = r[i]
    BY <1>1, <1>7, <1>10, <1>13, <1>14
  <1>16. q = r
    BY <1>7, <1>13, <1>15, SameElements
  <1> QED BY <1>2, <1>4, <1>8, <1>10, <1>12, <1>16

\* The last block is taken from the past.
LEMMA PastLess ==
  ASSUME NEW S, NEW states \in Seq(S), states # <<>>, NEW last \in S
  PROVE  /\ PastOf(Front(states), states[Len(states)]) = Front(PastOf(states, last))
         /\ Len(PastOf(states, last)) > 1 /\ Last(PastOf(states, last)) = LedgerIn(last)
         /\ Last(Front(PastOf(states, last))) = LedgerIn(states[Len(states)])
  <1>1. PICK n : n = Len(states) /\ n \in Nat /\ n >= 1
    OBVIOUS
  <1>2. PICK less, end : less = Front(states) /\ end = states[n]
    OBVIOUS
  <1>3. /\ less \in Seq(S) /\ Len(less) = n - 1 /\ end \in S
        /\ \A i \in 1 .. (n - 1) : less[i] = states[i]
    BY <1>1, <1>2 DEF Front
  <1>4. PICK q : q = PastOf(less, end)
    OBVIOUS
  <1>5. PICK T : T = LedgersOf(S)
    OBVIOUS
  <1>6. IsPast(q, T, less, end)
    BY <1>3, <1>4, <1>5, PastIs
  <1>7. /\ q \in Seq(T) /\ Len(q) = (n - 1) + 1
        /\ \A i \in 1 .. (n - 1) : q[i] = LedgerIn(less[i])
        /\ q[(n - 1) + 1] = LedgerIn(end)
    BY <1>3, <1>6 DEF IsPast
  <1>8. PICK p : p = PastOf(states, last)
    OBVIOUS
  <1>9. /\ p \in Seq(T) /\ Len(p) = n + 1
        /\ \A i \in 1 .. n : p[i] = LedgerIn(states[i])
        /\ p[n + 1] = LedgerIn(last)
    <2>1. IsPast(p, T, states, last)
      BY <1>5, <1>8, PastIs
    <2> QED BY <1>1, <2>1 DEF IsPast
  <1>10. PICK r : r = Front(p)
    OBVIOUS
  <1>11. r \in Seq(T) /\ Len(r) = n /\ \A i \in 1 .. n : r[i] = p[i]
    BY <1>1, <1>9, <1>10 DEF Front
  <1>12. \A i \in 1 .. n : q[i] = r[i]
    <2> TAKE i \in 1 .. n
    <2>1. CASE i = n
      BY <1>1, <1>2, <1>7, <1>9, <1>11, <2>1
    <2>2. CASE i \in 1 .. (n - 1)
      BY <1>1, <1>3, <1>7, <1>9, <1>11, <2>2
    <2> QED BY <1>1, <2>1, <2>2
  <1>13. Len(q) = n
    BY <1>1, <1>7
  <1>14. q = r
    BY <1>7, <1>11, <1>12, <1>13, SameElements
  <1>15. Last(p) = LedgerIn(last) /\ Len(p) > 1
    BY <1>1, <1>9 DEF Last
  <1>16. Last(r) = LedgerIn(end)
    BY <1>1, <1>2, <1>9, <1>11 DEF Last
  <1> QED BY <1>1, <1>2, <1>4, <1>8, <1>10, <1>14, <1>15, <1>16

\* The ledger sums up, and takes sequences apart, in the same way.
LEMMA SameSum ==
  ASSUME NEW f
  PROVE  Promise!SumFunction(f) = SumFunction(f)
  BY DEF Promise!SumFunction, Promise!SumFunctionOnSet, Promise!FoldFunctionOnSet, Promise!MapThenFoldSet,
         SumFunction, SumFunctionOnSet, FoldFunctionOnSet, MapThenFoldSet

LEMMA SameEnds ==
  ASSUME NEW q
  PROVE  Promise!Last(q) = Last(q) /\ Promise!Front(q) = Front(q)
  BY DEF Promise!Last, Promise!Front, Last, Front

\* What a new verifier reads.
LEMMA NewView ==
  ASSUME NEW st, Sound(st), db' = st, verifier' = NewVerifier
  PROVE  /\ View(verifier)' = st
         /\ StakersIn(View(verifier))' = StakersIn(st) /\ DelegatorsIn(View(verifier))' = DelegatorsIn(st)
  <1>1. st \in PosStates
    BY DEF Sound
  <1>2. NewVerifier.delta \in PosDeltas /\ Apply(st, NewVerifier.delta) = st
    BY <1>1, NewChanges
  <1>3. View(verifier)' = st
    BY <1>2 DEF View
  <1> QED BY <1>3 DEF StakersIn, DelegatorsIn

\* A connected block ends a block of the ledger.
LEMMA LedgerEndBlock ==
  ASSUME PosInv, NEW t, Sound(t), db' = t, verifier' = NewVerifier, saved' = Append(saved, db)
  PROVE  /\ Promise!EndBlock
         /\ StakersIn(View(verifier))' = StakersIn(t) /\ DelegatorsIn(View(verifier))' = DelegatorsIn(t)
  <1>1. StakersIn(View(verifier))' = StakersIn(t) /\ DelegatorsIn(View(verifier))' = DelegatorsIn(t)
    BY NewView
  <1>2. saved \in Seq(PosStates) /\ db \in PosStates /\ t \in PosStates
    BY DEF PosInv, BlocksBack, Sound
  <1>3. PastOf(Append(saved, db), t) = Append(PastOf(saved, db), LedgerIn(t))
    BY <1>2, PastMore
  <1>4. PastOf(saved, db)' = Append(PastOf(saved, db), LedgerIn(t))
    <2>1. PastOf(saved, db)' = PastOf(Append(saved, db), t)
      BY DEF PastOf, LedgerIn, StakersIn, DelegatorsIn
    <2> QED BY <1>3, <2>1
  <1>5. Promise!Ledger' = LedgerIn(t)
    BY <1>1 DEF Promise!Ledger, LedgerIn
  <1>6. PastOf(saved, db)' = Append(PastOf(saved, db), Promise!Ledger')
    BY <1>4, <1>5
  <1>7. Promise!EndBlock
    BY <1>6 DEF Promise!EndBlock, PastOf
  <1> QED BY <1>1, <1>7

LEMMA LedgerConnectBlock ==
  ASSUME PosInv, ConnectBlock
  PROVE  Promise!Block
  <1>1. PICK st : st = View(verifier)
    OBVIOUS
  <1>2. db \in PosStates /\ Sound(st) /\ Reads(verifier, st)
    BY <1>1, PosStart
  <1>3. db' = st /\ verifier' = NewVerifier /\ saved' = Append(saved, db)
    BY <1>2, Flushed DEF ConnectBlock
  <1>4. /\ Promise!EndBlock
        /\ StakersIn(View(verifier))' = StakersIn(st) /\ DelegatorsIn(View(verifier))' = DelegatorsIn(st)
    BY <1>2, <1>3, LedgerEndBlock
  <1> QED BY <1>1, <1>4 DEF Promise!Block

LEMMA LedgerAbandonBlock ==
  ASSUME PosInv, AbandonBlock
  PROVE  Promise!Abandon
  <1>1. PICK st : st = db
    OBVIOUS
  <1>2. Sound(st) /\ saved \in Seq(PosStates) /\ st \in PosStates
    BY <1>1 DEF PosInv, BlocksBack, Sound
  <1>3. verifier' = NewVerifier /\ db' = st /\ db' = db /\ saved' = saved
    BY <1>1 DEF AbandonBlock
  <1>4. StakersIn(View(verifier))' = StakersIn(st) /\ DelegatorsIn(View(verifier))' = DelegatorsIn(st)
    BY <1>2, <1>3, NewView
  <1>5. PastOf(saved, db)' = PastOf(saved, db)
    BY <1>3
  <1>6. PICK p : p = PastOf(saved, st)
    OBVIOUS
  <1>7. IsPast(p, LedgersOf(PosStates), saved, st)
    BY <1>2, <1>6, PastIs
  <1>8. Last(p) = LedgerIn(st)
    BY <1>2, <1>7 DEF IsPast, Last
  <1>9. Promise!Last(PastOf(saved, db)) = <<StakersIn(View(verifier))', DelegatorsIn(View(verifier))'>>
    BY <1>1, <1>4, <1>6, <1>8, SameEnds DEF LedgerIn
  <1> QED BY <1>5, <1>9 DEF Promise!Abandon, PastOf

LEMMA LedgerDisconnectBlock ==
  ASSUME PosInv, DisconnectBlock
  PROVE  Promise!Disconnect
  <1>1. PICK n : n = Len(chain)
    OBVIOUS
  <1>2. BlocksBack /\ chain # <<>> /\ db \in PosStates
    BY DEF PosInv, DisconnectBlock, Sound
  <1>3. /\ n \in Nat /\ n >= 1 /\ Last(chain) = chain[n]
        /\ Sound(saved[n]) /\ Undone(db, UndosOf(chain[n]), saved[n])
    BY <1>1, <1>2, LastBlock
  <1>4. PICK s : s = saved[n]
    OBVIOUS
  <1>5. Sound(s) /\ Undone(db, UndosOf(chain[n]), s)
    BY <1>3, <1>4
  <1>6. Reads(Disconnected(chain[n]), s)
    BY <1>2, <1>5, BlockTakenBack
  <1>7. Flush(Disconnected(chain[n])) /\ saved' = Front(saved)
    BY <1>3 DEF DisconnectBlock
  <1>8. db' = s /\ verifier' = NewVerifier
    BY <1>2, <1>5, <1>6, <1>7, Flushed
  <1>9. StakersIn(View(verifier))' = StakersIn(s) /\ DelegatorsIn(View(verifier))' = DelegatorsIn(s)
    BY <1>5, <1>8, NewView
  <1>10. saved \in Seq(PosStates) /\ Len(saved) = n /\ saved # <<>>
    BY <1>1, <1>2, <1>3 DEF BlocksBack
  <1>11. PICK p : p = PastOf(saved, db)
    OBVIOUS
  <1>12. /\ PastOf(Front(saved), s) = Front(p) /\ Len(p) > 1
         /\ Last(p) = LedgerIn(db) /\ Last(Front(p)) = LedgerIn(s)
    BY <1>2, <1>4, <1>10, <1>11, PastLess
  <1>13. PastOf(saved, db)' = Front(p)
    <2>1. PastOf(saved, db)' = PastOf(Front(saved), s)
      BY <1>7, <1>8 DEF PastOf, LedgerIn, StakersIn, DelegatorsIn
    <2> QED BY <1>12, <2>1
  <1>14. View(verifier) = db
    <2>1. verifier.undos = <<>>
      BY DEF DisconnectBlock
    <2>2. Undone(View(verifier), <<>>, db)
      BY <2>1, NoUndos DEF PosInv
    <2>3. PICK w : Through(View(verifier), <<>>, db, w)
      BY <2>2 DEF Undone
    <2> QED BY <2>3 DEF Through
  <1>15. Promise!Ledger = Promise!Last(p)
    BY <1>12, <1>14, SameEnds DEF Promise!Ledger, LedgerIn
  <1>16. /\ PastOf(saved, db)' = Promise!Front(p)
         /\ Promise!Last(PastOf(saved, db)') = <<StakersIn(View(verifier))', DelegatorsIn(View(verifier))'>>
    BY <1>9, <1>12, <1>13, SameEnds DEF LedgerIn
  <1> QED BY <1>11, <1>12, <1>15, <1>16 DEF Promise!Disconnect, PastOf

\* What the staker and the delegations own after a reward.
LEMMA RewardedLedger ==
  ASSUME NEW st, Sound(st), NEW p \in Pools, st.data[p] # NoData, NEW total \in Nat, NEW f, NEW t,
         Rewarded(st, p, total, f, t)
  PROVE  /\ StakersIn(t) = [StakersIn(st) EXCEPT ![p] = @ + (total - SumFunction(f))]
         /\ DelegatorsIn(t) = [d \in Delegations |->
              IF st.data[d] = p THEN [DelegatorsIn(st)[d] EXCEPT !.balance = @ + f[d]] ELSE DelegatorsIn(st)[d]]
  <1>1. PICK x : x = st.data[p]
    OBVIOUS
  <1>2. PICK more : more = total - SumFunction(f)
    OBVIOUS
  <1>3. more \in Nat
    BY <1>2 DEF Rewarded
  <1>4. x \in [pledge : Nat \ {0}, rewards : Nat]
    BY <1>1 DEF Sound, PoolOK
  <1>5. PICK a, b : a = x.pledge /\ b = x.rewards
    OBVIOUS
  <1>6. a \in Nat \ {0} /\ b \in Nat
    BY <1>4, <1>5
  <1>7. t.data[p] = PoolData(a, b + more)
    BY <1>1, <1>2, <1>5 DEF Rewarded
  <1>8. PoolData(a, b + more) # NoData /\ StakerBalance(PoolData(a, b + more)) = (a + b) + more
    <2>1. b + more \in Nat
      BY <1>3, <1>6
    <2>2. PoolData(a, b + more) # NoData
      BY <1>6, <2>1, PosAssumption DEF PoolData
    <2>3. StakerBalance(PoolData(a, b + more)) = a + (b + more)
      BY DEF StakerBalance, PoolData
    <2> QED BY <1>3, <1>6, <2>2, <2>3
  <1>9. StakersIn(t)[p] = StakersIn(st)[p] + more
    <2>1. StakersIn(t)[p] = (a + b) + more
      BY <1>7, <1>8 DEF StakersIn
    <2>2. StakersIn(st)[p] = a + b
      BY <1>1, <1>5 DEF StakersIn, StakerBalance
    <2> QED BY <2>1, <2>2
  <1>10. \A q \in Pools \ {p} : t.data[q] = st.data[q]
    BY PosKeys DEF Rewarded
  <1>11. StakersIn(t) = [StakersIn(st) EXCEPT ![p] = StakersIn(st)[p] + more]
    <2>1. \A q \in Pools \ {p} : StakersIn(t)[q] = StakersIn(st)[q]
      BY <1>10 DEF StakersIn
    <2>2. DOMAIN StakersIn(t) = Pools /\ DOMAIN StakersIn(st) = Pools
      BY DEF StakersIn
    <2>3. StakersIn(t) = [q \in Pools |-> StakersIn(t)[q]]
      BY DEF StakersIn
    <2> QED BY <1>9, <2>1, <2>2, <2>3
  <1>12. ASSUME NEW d \in Delegations
         PROVE  DelegatorsIn(t)[d] =
                  IF st.data[d] = p THEN [DelegatorsIn(st)[d] EXCEPT !.balance = @ + f[d]] ELSE DelegatorsIn(st)[d]
    <2>1. t.data[d] = st.data[d] /\ t.amounts[d] = st.amounts[d] + f[d] /\ (st.data[d] # p => f[d] = 0)
      BY PosKeys DEF Rewarded
    <2>2. p # NoData
      BY PosKeys, PosAssumption
    <2>3. CASE st.data[d] = p
      <3>1. DelegatorsIn(t)[d] = [pool |-> p, balance |-> st.amounts[d] + f[d]]
        BY <2>1, <2>2, <2>3 DEF DelegatorsIn
      <3>2. PICK r, c : r = DelegatorsIn(st)[d] /\ c = st.amounts[d]
        OBVIOUS
      <3>3. r = [pool |-> p, balance |-> c]
        BY <2>2, <2>3, <3>2 DEF DelegatorsIn
      <3>4. [r EXCEPT !.balance = r.balance + f[d]] = [pool |-> p, balance |-> c + f[d]]
        BY <3>3
      <3> QED BY <2>3, <3>1, <3>2, <3>4
    <2>4. CASE st.data[d] # p /\ st.data[d] # NoData
      <3>1. st.amounts[d] \in Nat
        BY <2>4, OwnIs
      <3>2. st.amounts[d] + f[d] = st.amounts[d]
        BY <2>1, <2>4, <3>1
      <3> QED BY <2>1, <2>4, <3>2 DEF DelegatorsIn
    <2>5. CASE st.data[d] = NoData
      BY <2>1, <2>2, <2>5 DEF DelegatorsIn
    <2> QED BY <2>3, <2>4, <2>5
  <1>13. DelegatorsIn(t) = [d \in Delegations |-> DelegatorsIn(t)[d]]
    BY DEF DelegatorsIn
  <1> QED BY <1>2, <1>11, <1>12, <1>13

\* The reward of a block is shared out as the ledger says.
LEMMA LedgerConnectPosBlock ==
  ASSUME PosInv, NEW p \in Pools, NEW total \in Rewards, ConnectPosBlock(p, total)
  PROVE  Promise!Reward(p, total)
  <1>1. PICK st : st = View(verifier)
    OBVIOUS
  <1>2. PICK w : w = DistributePosReward(verifier, p, total)
    OBVIOUS
  <1>3. db \in PosStates /\ Sound(st) /\ Reads(verifier, st)
    BY <1>1, PosStart
  <1>4. st.data[p] # NoData /\ total \in Nat /\ Flush(w) /\ saved' = Append(saved, db)
    <2>1. Exists(verifier, p) /\ Flush(w) /\ saved' = Append(saved, db)
      BY <1>2 DEF ConnectPosBlock
    <2>2. st.data[p] # NoData
      BY <1>1, <2>1, PosStart
    <2> QED BY <2>1, <2>2, PosAssumption
  <1>5. PICK t : Reads(w, t) /\ Sound(t) /\ \E f : Rewarded(st, p, total, f, t)
    BY <1>2, <1>3, <1>4, RewardDone
  <1>6. PICK f : Rewarded(st, p, total, f, t)
    BY <1>5
  <1>7. db' = t /\ verifier' = NewVerifier
    BY <1>3, <1>4, <1>5, Flushed
  <1>8. /\ Promise!EndBlock
        /\ StakersIn(View(verifier))' = StakersIn(t) /\ DelegatorsIn(View(verifier))' = DelegatorsIn(t)
    BY <1>4, <1>5, <1>7, LedgerEndBlock
  <1>9. StakersIn(st)[p] # NoData
    BY <1>3, <1>4, OwnIs
  <1>10. PICK members : members = Promise!DelegatorsOf(p)
    OBVIOUS
  <1>11. \A d \in Delegations : d \in members <=> st.data[d] = p
    <2>1. \A d \in Delegations : d \in members <=> DelegatorsIn(st)[d] # NoData /\ DelegatorsIn(st)[d].pool = p
      BY <1>1, <1>10 DEF Promise!DelegatorsOf
    <2>2. p # NoData
      BY PosKeys, PosAssumption
    <2> TAKE d \in Delegations
    <2>3. CASE st.data[d] = NoData
      BY <1>3, <2>1, <2>2, <2>3, OwnIs
    <2>4. CASE st.data[d] # NoData
      BY <1>3, <2>1, <2>4, OwnIs
    <2> QED BY <2>3, <2>4
  <1>12. members \subseteq Delegations
    BY <1>10 DEF Promise!DelegatorsOf
  <1>13. \A d \in members : DelegatorsIn(st)[d].balance = st.amounts[d]
    <2> TAKE d \in members
    <2>1. d \in Delegations /\ st.data[d] # NoData
      BY <1>11, <1>12, PosKeys, PosAssumption
    <2> QED BY <1>3, <2>1, OwnIs
  <1>14. /\ f \in [Delegations -> 0 .. total] /\ Promise!SumFunction(f) <= total
         /\ \A d \in Delegations \ members : f[d] = 0
    BY <1>6, <1>11, SameSum DEF Rewarded
  <1>15. \A d, e \in members :
           DelegatorsIn(st)[d].balance <= DelegatorsIn(st)[e].balance => f[d] <= f[e]
    <2> TAKE d, e \in members
    <2>1. d \in Delegations /\ e \in Delegations /\ st.data[d] = p /\ st.data[e] = p
      BY <1>11, <1>12
    <2> QED BY <1>6, <1>13, <2>1 DEF Rewarded
  <1>16. /\ StakersIn(t) = [StakersIn(st) EXCEPT ![p] = @ + (total - Promise!SumFunction(f))]
         /\ DelegatorsIn(t) = [d \in Delegations |->
              IF d \in members THEN [DelegatorsIn(st)[d] EXCEPT !.balance = @ + f[d]] ELSE DelegatorsIn(st)[d]]
    <2>1. /\ StakersIn(t) = [StakersIn(st) EXCEPT ![p] = @ + (total - SumFunction(f))]
          /\ DelegatorsIn(t) = [d \in Delegations |->
               IF st.data[d] = p THEN [DelegatorsIn(st)[d] EXCEPT !.balance = @ + f[d]] ELSE DelegatorsIn(st)[d]]
      BY <1>3, <1>4, <1>6, RewardedLedger
    <2> QED BY <1>11, <2>1, SameSum
  <1>17. /\ f \in [Delegations -> 0 .. total]
         /\ \A d \in Delegations \ Promise!DelegatorsOf(p) : f[d] = 0
         /\ \A d, e \in Promise!DelegatorsOf(p) :
              DelegatorsIn(View(verifier))[d].balance <= DelegatorsIn(View(verifier))[e].balance => f[d] <= f[e]
         /\ Promise!SumFunction(f) <= total
    BY <1>1, <1>10, <1>14, <1>15
  <1>18. StakersIn(View(verifier))' = [StakersIn(View(verifier)) EXCEPT ![p] = @ + (total - Promise!SumFunction(f))]
    BY <1>1, <1>8, <1>16
  <1>19. DelegatorsIn(View(verifier))' =
           [d \in Delegations |-> IF d \in Promise!DelegatorsOf(p)
                                  THEN [DelegatorsIn(View(verifier))[d] EXCEPT !.balance = @ + f[d]]
                                  ELSE DelegatorsIn(View(verifier))[d]]
    BY <1>1, <1>8, <1>10, <1>16
  <1>20. StakersIn(View(verifier))[p] # NoData
    BY <1>1, <1>9
  <1> QED BY <1>8, <1>17, <1>18, <1>19, <1>20, Zenon DEF Promise!Reward

\* Every step of the accounting is a step of the ledger, or changes nothing of it.
LEMMA LedgerStep ==
  ASSUME PosInv, [Next]_vars
  PROVE  [Promise!Next]_(Promise!ledgerVars)
  <1>1. ASSUME NEW p \in Pools, NEW a \in Amounts, TxCreatePool(p, a) PROVE Promise!Next
    BY <1>1, LedgerCreatePool DEF Promise!Next
  <1>2. ASSUME NEW p \in Pools, TxDecommissionPool(p) PROVE Promise!Next
    BY <1>2, LedgerDecommissionPool DEF Promise!Next
  <1>3. ASSUME NEW p \in Pools, NEW d \in Delegations, TxCreateDelegationId(p, d) PROVE Promise!Next
    BY <1>3, LedgerCreateDelegationId DEF Promise!Next
  <1>4. ASSUME NEW d \in Delegations, TxDeleteDelegationId(d) PROVE Promise!Next
    BY <1>4, LedgerDeleteDelegationId DEF Promise!Next
  <1>5. ASSUME NEW d \in Delegations, NEW a \in Amounts, TxDelegateStaking(d, a) PROVE Promise!Next
    BY <1>5, LedgerDelegateStaking DEF Promise!Next
  <1>6. ASSUME NEW d \in Delegations, NEW a \in Amounts, TxSpendShare(d, a) PROVE Promise!Next
    BY <1>6, LedgerSpendShare DEF Promise!Next
  <1>7. CASE ConnectBlock
    BY <1>7, LedgerConnectBlock DEF Promise!Next
  <1>8. ASSUME NEW p \in Pools, NEW r \in Rewards, ConnectPosBlock(p, r) PROVE Promise!Next
    BY <1>8, LedgerConnectPosBlock DEF Promise!Next
  <1>9. CASE AbandonBlock
    BY <1>9, LedgerAbandonBlock DEF Promise!Next
  <1>10. CASE DisconnectBlock
    BY <1>10, LedgerDisconnectBlock DEF Promise!Next
  <1>11. CASE UNCHANGED vars
    <2>1. db' = db /\ verifier' = verifier /\ saved' = saved
      BY <1>11 DEF vars
    <2>2. View(verifier)' = View(verifier)
      BY <2>1 DEF View
    <2> QED BY <2>1, <2>2 DEF Promise!ledgerVars, StakersIn, DelegatorsIn
  <1> QED BY <1>1, <1>2, <1>3, <1>4, <1>5, <1>6, <1>7, <1>8, <1>9, <1>10, <1>11 DEF Next

\* The first ledger is empty.
LEMMA LedgerInit ==
  ASSUME Init
  PROVE  Promise!Init
  <1>1. PICK st : st = db
    OBVIOUS
  <1>2. /\ st = [data |-> [k \in DataKeys |-> NoData], amounts |-> [k \in AmountKeys |-> 0]]
        /\ verifier = NewVerifier /\ saved = <<>>
    BY <1>1 DEF Init
  <1>3. st \in PosStates
    BY <1>2 DEF PosStates, StateSet, PosValues
  <1>4. View(verifier) = st
    BY <1>1, <1>2, <1>3, NewChanges DEF View
  <1>5. /\ StakersIn(st) = [p \in Pools |-> NoData]
        /\ DelegatorsIn(st) = [d \in Delegations |-> NoData]
    BY <1>2, PosKeys DEF StakersIn, DelegatorsIn
  <1>6. PICK p : p = PastOf(saved, db)
    OBVIOUS
  <1>7. IsPast(p, LedgersOf(PosStates), saved, st)
    <2>1. saved \in Seq(PosStates)
      BY <1>2
    <2> QED BY <1>1, <1>3, <1>6, <2>1, PastIs
  <1>8. PICK x : x = LedgerIn(st)
    OBVIOUS
  <1>9. p \in Seq(LedgersOf(PosStates)) /\ Len(p) = 1 /\ p[1] = x
    BY <1>2, <1>7, <1>8 DEF IsPast
  <1>10. p = <<x>>
    BY <1>9
  <1>11. PastOf(saved, db) = <<Promise!Ledger>>
    BY <1>4, <1>6, <1>8, <1>10 DEF Promise!Ledger, LedgerIn
  <1> QED BY <1>4, <1>5, <1>11 DEF Promise!Init, PastOf

\* The deltas, shares, pool balances and undos implement a plain ledger of what each staker and each
\* delegator owns: every reward is given out to the last coin and fairly, and an undone block is as
\* if it had never been, for any pools, delegations, amounts and rewards
\* (distribute_pos_reward, disconnect_block, disconnect_block_reward).
THEOREM LedgerImplemented == Spec => ImplementsLedger
  <1>1. Init => Promise!Init
    BY LedgerInit
  <1>2. PosInv /\ [Next]_vars => [Promise!Next]_(Promise!ledgerVars)
    BY LedgerStep
  <1> QED BY <1>1, <1>2, PosInvariant, PTL DEF Spec, ImplementsLedger, Promise!Spec
=============================================================================
